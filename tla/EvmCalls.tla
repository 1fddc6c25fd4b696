------------------------------ MODULE EvmCalls ------------------------------
(* The operations of evm_mlir that go to the world state or start another    *)
(* context: the syscalls of syscall.rs with the generated code around them.  *)
(* An operation that starts a context leaves in m.pending what its own       *)
(* syscall still needs when that context has ended.                          *)
EXTENDS EvmOps, EvmPrecompiles

CONSTANTS ADDRESS_BYTES,      \* an address is the low bytes of a word
          MAX_CODE_SIZE,
          HashedAddress(_)    \* the low bytes of a hash, as an address

ASSUME CallsAssumption == ADDRESS_BYTES \in 1 .. WORD_BYTES /\ MAX_CODE_SIZE \in Nat

ADDRESSES == 2 ^ (BYTE_BITS * ADDRESS_BYTES)
address_from(word) == word % ADDRESSES

REVERT_RETURN_CODE == 0
SUCCESS_RETURN_CODE == 1
HALT_RETURN_CODE == 2

call_opcode == [NOT_ZERO_VALUE_COST |-> 9000, EMPTY_CALLEE_COST |-> 25000,
                STIPEND_GAS_ADDITION |-> 2300, GAS_CAP_DIVISION_FACTOR |-> 64]

----------------------------------------------------------------------------
(* Storage.  The journal changes before the gas is known to suffice.         *)

read_storage_cost(j, address, key) ==
  IF key_is_warm(j, address, key) THEN gas_cost.SLOAD_WARM ELSE gas_cost.SLOAD_COLD

codegen_sload(m, db) ==
  IF ~check_stack_has_at_least(m, 1) THEN generate_revert_block(m)
  ELSE LET key == Top(m)
           x == [Pops(m, 1) EXCEPT !.journal = warm_key(m.journal, db, m.this, key)]
       IN  Charged(x, TRUE, read_storage_cost(m.journal, m.this, key),
                   LAMBDA y : stack_push(y, slot_of(m.journal, db, m.this, key).present))

write_storage_cost(original, current, value, is_cold) ==
  (CASE original = 0 /\ current = 0 /\ current # value -> 20000
     [] original # 0 /\ original = current /\ current # value -> 2900
     [] OTHER -> 100)
  + (IF is_cold THEN 2100 ELSE 0)

write_storage_refund(original, current, value) ==
  CASE original # 0 /\ current # 0 /\ value = 0 -> 4800
    [] original # 0 /\ current = 0 /\ value # 0 /\ value = original -> -2000
    [] original # 0 /\ current = 0 /\ value # 0 /\ value # original -> -4800
    [] original = 0 /\ current # 0 /\ value = 0 -> 19900
    [] current # value /\ original = value /\ current # 0 /\ value # 0 -> 2800
    [] OTHER -> 0

\* The refund counter of the context, which never goes below zero.
refunded(refund, amount) == IF refund + amount > 0 THEN refund + amount ELSE 0

\* Faulty variant: a static context may write.
codegen_sstore_unguarded(m, db) ==
  IF ~check_stack_has_at_least(m, 2) THEN generate_revert_block(m)
  ELSE [Pops(m, 2) EXCEPT
          !.journal = write_storage(m.journal, db, m.this, Top(m), get_nth_from_stack(m, 1))]

codegen_sstore(m, db) ==
  IF ~check_stack_has_at_least(m, 2) \/ ~check_context_is_not_static(m)
  THEN generate_revert_block(m)
  ELSE LET key == Top(m)
           value == get_nth_from_stack(m, 1)
           slot == slot_of(m.journal, db, m.this, key)
           cost == write_storage_cost(slot.original, slot.present, value,
                                      ~key_is_warm(m.journal, m.this, key))
           x == [Pops(m, 2) EXCEPT
                   !.journal = write_storage(m.journal, db, m.this, key, value),
                   !.refund = refunded(m.refund, write_storage_refund(slot.original,
                                                                      slot.present, value))]
       IN  IF m.gas - cost >= gas_cost.SSTORE_MIN_REMAINING_GAS
           THEN consume_gas(x, cost)
           ELSE generate_revert_block(x)

\* Transient storage belongs to the context, and any context may write it.
read_transient_storage(m, key) == IF key \in DOMAIN m.transient THEN m.transient[key] ELSE 0

codegen_tload(m) ==
  Unary(m, gas_cost.TLOAD, LAMBDA key : read_transient_storage(m, key))

codegen_tstore(m) ==
  Charged(m, check_stack_has_at_least(m, 2), gas_cost.TSTORE, LAMBDA x :
    [Pops(x, 2) EXCEPT !.transient = put(x.transient, Top(x), get_nth_from_stack(x, 1))])

----------------------------------------------------------------------------
(* Other accounts.                                                           *)

\* A read of an account loads it; one that does not exist is made warm.
Warmed(j, db, address) == add_account_as_warm(load(j, db, address), address)

\* A word longer than an address has no balance and costs as a cold one.
codegen_balance(m, db) ==
  IF ~check_stack_has_at_least(m, 1) THEN generate_revert_block(m)
  ELSE LET address == Top(m)
           x == Pops(m, 1)
           warm == address < ADDRESSES /\ account_is_warm(m.journal, address)
       IN  Charged(IF address >= ADDRESSES THEN x
                   ELSE [x EXCEPT !.journal = Warmed(m.journal, db, address)],
                   TRUE, IF warm THEN gas_cost.BALANCE_WARM ELSE gas_cost.BALANCE_COLD,
                   LAMBDA y : stack_push(y, IF address >= ADDRESSES THEN 0
                                            ELSE balance_or_default(m.journal, db, address)))

codegen_extcodesize(m, db) ==
  IF ~check_stack_has_at_least(m, 1) THEN generate_revert_block(m)
  ELSE LET address == address_from(Top(m))
           x == [Pops(m, 1) EXCEPT !.journal = Warmed(m.journal, db, address)]
       IN  Charged(x, TRUE, IF account_is_warm(m.journal, address)
                            THEN gas_cost.EXTCODESIZE_WARM ELSE gas_cost.EXTCODESIZE_COLD,
                   LAMBDA y : stack_push(y, Len(code_by_address(m.journal, db, address))))

\* The code is fetched first, so an account that exists counts as warm.
codegen_extcodecopy(m, db) ==
  IF ~check_stack_has_at_least(m, 4) THEN generate_revert_block(m)
  ELSE LET address == address_from(Top(m))
           dest_offset == Operand(m, 1)
           size == Operand(m, 3)
           warm == account_is_warm(load(m.journal, db, address), address)
       IN  Charged(Pops(m, 4), TRUE, compute_copy_cost(size), LAMBDA x :
             extend_memory(x, add32(dest_offset, size), 0, LAMBDA y :
               Charged([resize_memory_if_necessary(y, dest_offset, size)
                          EXCEPT !.journal = Warmed(y.journal, db, address)],
                       TRUE, IF warm THEN gas_cost.EXTCODECOPY_WARM
                             ELSE gas_cost.EXTCODECOPY_COLD,
                       LAMBDA z : z)))

\* get_code_hash takes a warm account for a cold one and the other way round.
codegen_extcodehash(m, db, data) ==
  IF ~check_stack_has_at_least(m, 1) THEN generate_revert_block(m)
  ELSE LET address == address_from(Top(m))
           x == [Pops(m, 1) EXCEPT !.journal = Warmed(m.journal, db, address)]
       IN  Charged(x, TRUE, IF account_is_warm(m.journal, address)
                            THEN gas_cost.EXTCODEHASH_COLD ELSE gas_cost.EXTCODEHASH_WARM,
                   LAMBDA y : stack_push(y, IF has_account(m.journal, db, address)
                                            THEN data ELSE 0))

\* The balance moves to the receiver; the program goes on with its next operation.
selfdestruct(m, db, receiver) ==
  LET loaded == load(load(m.journal, db, m.this), db, receiver)
      balance == balance_or_default(m.journal, db, m.this)
      paid == IF has_account(loaded, db, receiver)
              THEN set_balance(loaded, db, receiver,
                               get_account(loaded, db, receiver).balance + balance)
              ELSE new_account(loaded, receiver, balance)
  IN  [m EXCEPT !.journal = set_status(set_balance(paid, db, m.this, 0), db, m.this,
                                       SelfDestructed)]

codegen_selfdestruct(m, db) ==
  Charged(m, check_stack_has_at_least(m, 1) /\ check_context_is_not_static(m),
          gas_cost.SELFDESTRUCT, LAMBDA x :
    LET receiver == address_from(Top(x))
        fresh == ~has_account(x.journal, db, receiver)
                 \/ is_empty(get_account(x.journal, db, receiver))
        cost == IF balance_or_default(x.journal, db, x.this) # 0 /\ fresh
                THEN gas_cost.SELFDESTRUCT_DYNAMIC_GAS ELSE 0
    IN  Charged(selfdestruct(Pops(x, 1), db, receiver), TRUE, cost, LAMBDA y : y))

----------------------------------------------------------------------------
(* syscall.rs: get_result, what a context reports when it has ended.         *)

gas_used(m) == IF m.gas_remaining < m.initial_gas THEN m.initial_gas - m.gas_remaining ELSE 0

is_success(m) == m.exit_status \in {"Return", "Stop"}

gas_refunded(m) ==
  LET cap == gas_used(m) \div 5
  IN  IF ~is_success(m) THEN 0 ELSE IF m.refund < cap THEN m.refund ELSE cap

output_size(m) == IF m.exit_status \in {"Return", "Stop", "Revert"} THEN m.return_size ELSE 0

----------------------------------------------------------------------------
(* CALL, CALLCODE, DELEGATECALL and STATICCALL.  Each yields the contexts    *)
(* that replace m: itself, and above it the callee's, if one was started.    *)

\* The gas the callee gets of what remains, and what the caller is charged.
gas_sent(available_gas, consumed, gas) ==
  LET remaining == IF available_gas > consumed THEN available_gas - consumed ELSE 0
      cap == remaining \div call_opcode.GAS_CAP_DIVISION_FACTOR
  IN  IF cap < gas THEN cap ELSE gas

\* Faulty variant: a call with value costs no more than one without.
value_cost_free(value, callee) == 0

value_cost(value, callee) ==
  IF value = 0 THEN 0
  ELSE call_opcode.NOT_ZERO_VALUE_COST
       + (IF is_empty(callee) THEN call_opcode.EMPTY_CALLEE_COST ELSE 0)

\* Faulty variant: the sender is not debited.
transfer_credit(j, db, from, to, value) ==
  set_balance(j, db, to, balance_or_default(j, db, to) + value)

\* Both balances were read before the first of them is written.
transfer(j, db, from, to, value) ==
  LET from_balance == balance_or_default(j, db, from)
      to_balance == balance_or_default(j, db, to)
  IN  IF value = 0 THEN j
      ELSE set_balance(set_balance(j, db, from, from_balance - value), db, to, to_balance + value)

\* codegen/context.rs: call_syscall, after the syscall has returned.
call_returned(m, consumed, return_code) ==
  ChargedValue([m EXCEPT !.pending = NoCall], consumed,
               LAMBDA x : stack_push(x, return_code))

\* The context of the callee, by call type.
callee_frame(m, db, call_type, callee, value, gas_to_send, args_size) ==
  LET to == IF call_type \in {"CALL", "STATICCALL"} THEN callee ELSE m.this
      caller == IF call_type = "DELEGATECALL" THEN m.caller ELSE m.this
      new_value == IF call_type = "DELEGATECALL" THEN m.value ELSE value
      is_static == m.ctx_is_static \/ call_type = "STATICCALL"
      code == code_by_address(m.journal, db, callee)
  IN  NewFrame(SyscallContext(m.journal, to, caller, new_value, gas_to_send, gas_to_send,
                              is_static, <<>>),
               from_bytecode(code), gas_to_send, args_size)

call_precompile(m, callee, gas, input, ret_offset, ret_size) ==
  LET result == execute_precompile(callee, input, gas, gas_cost.CALL_WARM)
      x == [m EXCEPT !.last_call_return_data = result.size]
  IN  IF result.success
      THEN call_returned(resize_memory_if_necessary(x, ret_offset, ret_size),
                         result.consumed, SUCCESS_RETURN_CODE)
      ELSE call_returned(x, result.consumed, REVERT_RETURN_CODE)

\* The syscall "call".  The callee is loaded before it is asked whether it is
\* warm, so the charge is always the one of a warm account.
call(m, db, call_type, gas, callee, value, args_offset, args_size, ret_offset, ret_size, input) ==
  IF args_offset + args_size > m.memory_len
  THEN <<call_returned(m, input.undefined, HALT_RETURN_CODE)>>
  ELSE IF is_precompile(callee)
  THEN <<call_precompile(m, callee, gas, input, ret_offset, ret_size)>>
  ELSE IF ~has_account(m.journal, db, callee)
  THEN <<call_returned(m, 0, REVERT_RETURN_CODE)>>
  ELSE LET loaded == load(load(m.journal, db, callee), db, m.this)
           account == get_account(loaded, db, callee)
           base == gas_cost.CALL_WARM + value_cost(value, account)
           x == [m EXCEPT !.journal = transfer(loaded, db, m.this, callee, value)]
           sent == gas_sent(m.gas, base, gas)
           stipend == IF value = 0 THEN 0 ELSE call_opcode.STIPEND_GAS_ADDITION
           parent == [x EXCEPT !.pending = [op |-> "CALL", consumed |-> base + sent,
                                            sent |-> sent + stipend,
                                            ret_offset |-> ret_offset, ret_size |-> ret_size]]
       IN  CASE balance_or_default(loaded, db, m.this) < value ->
                  <<call_returned([m EXCEPT !.journal = loaded], gas_cost.CALL_WARM,
                                  REVERT_RETURN_CODE)>>
             [] balance_or_default(loaded, db, m.this) >= value /\ value # 0 /\ m.gas < base ->
                  <<call_returned([m EXCEPT !.journal = loaded], base, HALT_RETURN_CODE)>>
             [] OTHER ->
                  <<parent, callee_frame(x, db, call_type, callee, value, sent + stipend,
                                         args_size)>>

codegen_call(m, db, call_type, input) ==
  LET has_value == call_type \in {"CALL", "CALLCODE"}
      nargs == IF has_value THEN 7 ELSE 6
      value == IF has_value THEN get_nth_from_stack(m, 2) ELSE 0
      args_offset == Operand(m, nargs - 4)
      args_size == Operand(m, nargs - 3)
      ret_offset == Operand(m, nargs - 2)
      ret_size == Operand(m, nargs - 1)
      extended == extend_memory(Pops(m, nargs), Larger(add32(args_offset, args_size),
                                                       add32(ret_offset, ret_size)),
                                0, LAMBDA x : x)
  IN  IF ~check_stack_has_at_least(m, nargs) \/ (m.ctx_is_static /\ value # 0)
      THEN <<generate_revert_block(m)>>
      ELSE IF extended.exit_status # "running" THEN <<extended>>
      ELSE call(extended, db, call_type, Top(m), address_from(get_nth_from_stack(m, 1)), value,
                args_offset, args_size, ret_offset, ret_size,
                [input EXCEPT !.len = args_size])

\* The rest of the syscall "call", when the callee's context has ended.
call_ends(m, callee) ==
  LET p == m.pending
      consumed == p.consumed - (p.sent - gas_used(callee)) - gas_refunded(callee)
      x == [m EXCEPT !.last_call_return_data = output_size(callee)]
  IN  IF is_success(callee)
      THEN call_returned([resize_memory_if_necessary(x, p.ret_offset, p.ret_size) EXCEPT
                            !.journal = extend_from_successful(m.journal, callee.journal)],
                         consumed, SUCCESS_RETURN_CODE)
      ELSE call_returned([x EXCEPT
                            !.journal = extend_from_reverted(m.journal, callee.journal)],
                         consumed, REVERT_RETURN_CODE)

----------------------------------------------------------------------------
(* CREATE and CREATE2.                                                       *)

compute_contract_address(address, nonce) == HashedAddress(<<"create", address, nonce>>)

compute_contract_address2(address, salt, code) == HashedAddress(<<"create2", address, salt, code>>)

\* create_aux, up to the execution of the initialization code: the contexts
\* that replace m, or the one context whose creation halted.
create_aux(m, db, value, init, is_create2, salt) ==
  LET size == Len(init)
      program == from_bytecode(init)
      sender == get_account(m.journal, db, m.this)
      dest == IF is_create2 THEN compute_contract_address2(m.this, salt, init)
              ELSE compute_contract_address(m.this, sender.nonce)
      words == (size + 31) \div 32
      hash_cost == IF is_create2 THEN words * gas_cost.HASH_WORD_COST ELSE 0
      j == add_account_as_warm(load(m.journal, db, m.this), dest)
      context == SyscallContext(new_account(j, dest, value), dest, m.this, m.value, m.gas, m.gas,
                                FALSE, to_bytecode(program))
  IN  IF \/ size > 2 * MAX_CODE_SIZE
         \/ m.own_code = to_bytecode(program)
         \/ has_account(m.journal, db, dest)
      THEN <<generate_revert_block(m)>>
      ELSE <<[m EXCEPT !.journal = j,
                       !.pending = [op |-> "CREATE", dest |-> dest, value |-> value,
                                    balance |-> sender.balance, nonce |-> sender.nonce,
                                    cost |-> words * gas_cost.INIT_WORD_COST + hash_cost]],
             NewFrame(context, program, m.gas, m.calldata_size)>>

codegen_create(m, db, is_create2, init) ==
  LET value == Top(m)
      offset == Operand(m, 1)
      size == Operand(m, 2)
      nargs == IF is_create2 THEN 4 ELSE 3
      extended == extend_memory(Pops(m, nargs), add32(offset, size), gas_cost.CREATE,
                                LAMBDA x : x)
  IN  IF ~check_stack_has_at_least(m, nargs) \/ ~check_context_is_not_static(m)
      THEN <<generate_revert_block(m)>>
      ELSE IF extended.exit_status # "running" THEN <<extended>>
      ELSE create_aux(extended, db, value, init, is_create2,
                      IF is_create2 THEN get_nth_from_stack(m, 3) ELSE 0)

\* The rest of create_aux.  The journal of the new context is kept however it
\* ended, and its output becomes the code also when it reverted.  The sender's
\* nonce and balance are the ones read before the initialization code ran.
create_result(m, db, created, code) ==
  LET p == m.pending
      j == extend_from_successful(m.journal, created.journal)
      deployed == set_balance(set_nonce(new_contract(j, p.dest, code, p.value), db, m.this,
                                        p.nonce + 1),
                              db, m.this, p.balance - p.value)
      paid == p.balance >= p.value
  IN  [journal |-> IF paid THEN deployed ELSE j,
       address |-> IF paid THEN p.dest ELSE 0,
       gas |-> p.cost + Len(code) * gas_cost.BYTE_DEPOSIT_COST + gas_used(created)
               - gas_refunded(created)]

\* create_aux also writes a result, which the one at the end of m replaces.
creation_ends(m, db, created, code) ==
  LET result == create_result(m, db, created, code)
  IN  ChargedValue([m EXCEPT !.journal = result.journal, !.pending = NoCall], result.gas,
                   LAMBDA x : stack_push(x, result.address))
=============================================================================
