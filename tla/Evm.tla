-------------------------------- MODULE Evm --------------------------------
(* evm_mlir as a machine: transactions run one after the other on a Db       *)
(* (lib.rs), each as a stack of execution contexts of which the last one     *)
(* runs.  A step is one operation of the compiled program.                   *)
EXTENDS EvmCalls

CONSTANTS Worlds,           \* the Dbs there may be before the first transaction
          Transactions,     \* the transactions that may be sent
          MAX_TRANSACTIONS,
          Codes,            \* what memory may hold where code is read from it
          Inputs,           \* what memory may hold where a precompile reads it
          DATA              \* the words a read of data may return

VARIABLES frames,           \* the running contexts, the transaction's own first
          db,
          tx,               \* the transaction that runs or ran last
          outcome,          \* its ExecutionResult
          sent              \* how many transactions were sent

vars == <<frames, db, tx, outcome, sent>>

\* env.rs: TransactTo
ASSUME TransactToAssumption == \A t \in Transactions : t.kind \in {"CALL", "CREATE"}

NoOutcome == [status |-> "none", gas_used |-> 0, gas_refunded |-> 0]
NoTransaction == [kind |-> "none"]

----------------------------------------------------------------------------
(* codegen/operations.rs: generate_code_for_op.  The contexts that replace m *)
(* when it executes op.                                                      *)

arithmetic_op(m, op, data) ==
  CASE op.name = "ADD" -> codegen_add(m)
    [] op.name = "MUL" -> codegen_mul(m)
    [] op.name = "SUB" -> codegen_sub(m)
    [] op.name = "DIV" -> codegen_div(m)
    [] op.name = "SDIV" -> codegen_sdiv(m, data)
    [] op.name = "MOD" -> codegen_mod(m)
    [] op.name = "SMOD" -> codegen_smod(m, data)
    [] op.name = "ADDMOD" -> codegen_addmod(m)
    [] op.name = "MULMOD" -> codegen_mulmod(m)
    [] op.name = "EXP" -> codegen_exp(m)
    [] op.name = "SIGNEXTEND" -> codegen_signextend(m)
    [] op.name = "LT" -> codegen_lt(m)
    [] op.name = "GT" -> codegen_gt(m)
    [] op.name = "SLT" -> codegen_slt(m)
    [] op.name = "SGT" -> codegen_sgt(m)
    [] op.name = "EQ" -> codegen_eq(m)
    [] op.name = "ISZERO" -> codegen_iszero(m)
    [] op.name = "AND" -> codegen_and(m)
    [] op.name = "OR" -> codegen_or(m)
    [] op.name = "XOR" -> codegen_xor(m)
    [] op.name = "NOT" -> codegen_not(m)
    [] op.name = "BYTE" -> codegen_byte(m)
    [] op.name = "SHL" -> codegen_shl(m)
    [] op.name = "SHR" -> codegen_shr(m)
    [] op.name = "SAR" -> codegen_sar(m)

environment_op(m, op, data) ==
  CASE op.name = "ADDRESS" -> codegen_address(m)
    [] op.name = "ORIGIN" -> codegen_origin(m, tx.caller)
    [] op.name = "CALLER" -> codegen_caller(m)
    [] op.name = "CALLVALUE" -> codegen_callvalue(m)
    [] op.name = "CALLDATASIZE" -> codegen_calldatasize(m)
    [] op.name = "CODESIZE" -> codegen_codesize(m)
    [] op.name = "GASPRICE" -> codegen_gasprice(m, data)
    [] op.name = "RETURNDATASIZE" -> codegen_returndatasize(m)
    [] op.name = "BLOCKHASH" -> codegen_blockhash(m, data)
    [] op.name = "COINBASE" -> codegen_coinbase(m, data)
    [] op.name = "TIMESTAMP" -> codegen_timestamp(m, data)
    [] op.name = "NUMBER" -> codegen_number(m, data)
    [] op.name = "PREVRANDAO" -> codegen_prevrandao(m, data)
    [] op.name = "GASLIMIT" -> codegen_gaslimit(m)
    [] op.name = "CHAINID" -> codegen_chaind(m, data)
    [] op.name = "SELFBALANCE" -> codegen_selfbalance(m, db)
    [] op.name = "BASEFEE" -> codegen_basefee(m, data)
    [] op.name = "BLOBHASH" -> codegen_blobhash(m, data)
    [] op.name = "BLOBBASEFEE" -> codegen_blobbasefee(m, data)
    [] op.name = "PC" -> codegen_pc(m, op)
    [] op.name = "MSIZE" -> codegen_msize(m)
    [] op.name = "GAS" -> codegen_gas(m)

state_op(m, op, data) ==
  CASE op.name = "POP" -> codegen_pop(m)
    [] op.name \in {"PUSH0", "PUSH"} -> codegen_push(m, op)
    [] op.name = "DUP" -> codegen_dup(m, op.n)
    [] op.name = "SWAP" -> codegen_swap(m, op.n)
    [] op.name = "KECCAK256" -> codegen_keccak256(m, data)
    [] op.name = "CALLDATALOAD" -> codegen_calldataload(m, data)
    [] op.name = "CALLDATACOPY" -> codegen_calldatacopy(m)
    [] op.name = "CODECOPY" -> codegen_codecopy(m)
    [] op.name = "RETURNDATACOPY" -> codegen_returndatacopy(m)
    [] op.name = "MLOAD" -> codegen_mload(m, data)
    [] op.name = "MSTORE" -> codegen_mstore(m)
    [] op.name = "MSTORE8" -> codegen_mstore8(m)
    [] op.name = "MCOPY" -> codegen_mcopy(m)
    [] op.name = "LOG" -> codegen_log(m, op.n)
    [] op.name = "SLOAD" -> codegen_sload(m, db)
    [] op.name = "SSTORE" -> codegen_sstore(m, db)
    [] op.name = "TLOAD" -> codegen_tload(m)
    [] op.name = "TSTORE" -> codegen_tstore(m)
    [] op.name = "BALANCE" -> codegen_balance(m, db)
    [] op.name = "EXTCODESIZE" -> codegen_extcodesize(m, db)
    [] op.name = "EXTCODECOPY" -> codegen_extcodecopy(m, db)
    [] op.name = "EXTCODEHASH" -> codegen_extcodehash(m, db, data)
    [] op.name = "SELFDESTRUCT" -> codegen_selfdestruct(m, db)

flow_op(m, op) ==
  CASE op.name = "JUMPDEST" -> codegen_jumpdest(m)
    [] op.name = "JUMP" -> codegen_jump(m)
    [] op.name = "JUMPI" -> codegen_jumpi(m)
    [] op.name = "STOP" -> codegen_stop(m)
    [] op.name = "RETURN" -> codegen_return(m)
    [] op.name = "REVERT" -> codegen_revert(m)
    [] op.name = "INVALID" -> codegen_invalid(m)

ArithmeticOp == {"ADD", "MUL", "SUB", "DIV", "SDIV", "MOD", "SMOD", "ADDMOD", "MULMOD", "EXP",
                 "SIGNEXTEND", "LT", "GT", "SLT", "SGT", "EQ", "ISZERO", "AND", "OR", "XOR",
                 "NOT", "BYTE", "SHL", "SHR", "SAR"}
EnvironmentOp == {"ADDRESS", "ORIGIN", "CALLER", "CALLVALUE", "CALLDATASIZE", "CODESIZE",
                  "GASPRICE", "RETURNDATASIZE", "BLOCKHASH", "COINBASE", "TIMESTAMP", "NUMBER",
                  "PREVRANDAO", "GASLIMIT", "CHAINID", "SELFBALANCE", "BASEFEE", "BLOBHASH",
                  "BLOBBASEFEE", "PC", "MSIZE", "GAS"}
FlowOp == {"JUMPDEST", "JUMP", "JUMPI", "STOP", "RETURN", "REVERT", "INVALID"}
CallOp == {"CALL", "CALLCODE", "DELEGATECALL", "STATICCALL"}
CreateOp == {"CREATE", "CREATE2"}
StateOp == ((SimpleOpcode \union NumberedOpcode)
            \ (ArithmeticOp \union EnvironmentOp \union FlowOp \union CallOp \union CreateOp))

\* The operations whose outcome the model leaves open, within DATA.
DataOp == {"SDIV", "SMOD", "KECCAK256", "CALLDATALOAD", "MLOAD", "EXTCODEHASH", "GASPRICE",
           "BLOCKHASH", "COINBASE", "TIMESTAMP", "NUMBER", "PREVRANDAO", "CHAINID", "BASEFEE",
           "BLOBHASH", "BLOBBASEFEE"}

\* The contents of n bytes of memory, read as code.
CodesOfSize(n) == {c \in Codes : Len(c) = n} \union {[i \in 1 .. n |-> Byte("STOP", 0, 0)]}

----------------------------------------------------------------------------
(* env.rs: what is checked and charged before a transaction runs.            *)

\* data_zeros and data_nonzeros count the bytes of the data; access_list maps
\* addresses to sets of keys; blobs is the sequence of the versions of the blob
\* hashes.
validate_transaction(t) ==
  /\ t.kind = "CREATE" => t.data_zeros + t.data_nonzeros <= 2 * MAX_CODE_SIZE
  /\ t.blob_tx => /\ t.blob_gasprice <= t.max_fee_per_blob_gas
                  /\ t.blobs # <<>>
                  /\ t.kind # "CREATE"
                  /\ \A i \in DOMAIN t.blobs : t.blobs[i] = 1
                  /\ Len(t.blobs) <= 1

access_list_cost(access_list) ==
  MapThenSumSet(LAMBDA a : 2400 + 1900 * Cardinality(access_list[a]), DOMAIN access_list)

init_code_cost(len) == gas_cost.INIT_WORD_COST * ((len + 31) \div 32)

calculate_intrinsic_cost(t) ==
  21000 + 4 * t.data_zeros + 16 * t.data_nonzeros
  + (IF t.kind = "CREATE" THEN 32000 + init_code_cost(t.data_zeros + t.data_nonzeros) ELSE 0)
  + access_list_cost(t.access_list)

----------------------------------------------------------------------------
Init == /\ frames = <<>>
        /\ db \in Worlds
        /\ tx = NoTransaction
        /\ outcome = NoOutcome
        /\ sent = 0

\* lib.rs: create_syscall_context
create_syscall_context(t, this, own_code) ==
  LET gas == t.gas_limit - calculate_intrinsic_cost(t)
  IN  SyscallContext(get_prefetch_accounts(t.access_list), this, t.caller, t.value, gas,
                     t.gas_limit, FALSE, own_code)

\* lib.rs: call.  The value of the transaction is not moved.
CallTransaction(t) ==
  LET program == from_bytecode(code_by_address(EmptyStorage, db, t.to))
      context == create_syscall_context(t, t.to, to_bytecode(program))
  IN  <<NewFrame(context, program, context.gas_limit, t.data_zeros + t.data_nonzeros)>>

\* lib.rs: create.  The context that creates runs no code of its own.
CreateTransaction(t) ==
  LET context == create_syscall_context(t, t.caller, <<>>)
      size == t.data_zeros + t.data_nonzeros
      m == [NewFrame(context, Program(<<>>), context.gas_limit, size) EXCEPT !.memory_len = size]
  IN  create_aux(m, db, t.value, t.init, FALSE, 0)

\* An invalid transaction ends here, with an error and without a trace.
Transact(t) ==
  LET valid == validate_transaction(t) /\ t.gas_limit >= calculate_intrinsic_cost(t)
  IN  /\ frames = <<>>
      /\ sent < MAX_TRANSACTIONS
      /\ sent' = sent + 1
      /\ tx' = t
      /\ frames' = CASE ~valid -> <<>>
                     [] valid /\ t.kind = "CALL" -> CallTransaction(t)
                     [] valid /\ t.kind = "CREATE" -> CreateTransaction(t)
      /\ outcome' = IF valid THEN NoOutcome ELSE [NoOutcome EXCEPT !.status = "Invalid"]
      /\ UNCHANGED db

\* The innermost context of a stack of them, and the contexts it was called from.
Innermost(stack) == stack[Len(stack)]
Callers(stack) == SubSeq(stack, 1, Len(stack) - 1)

\* The context that runs, and its next operation.
Current == Innermost(frames)
Running == frames # <<>> /\ Current.exit_status = "running"
HasNext == Current.pc <= Len(Current.program.operations)
NextOp == Current.program.operations[Current.pc]

\* The operation falls through to the next one unless it jumped.
Advanced(m, x) == [x EXCEPT !.pc = IF x.pc = m.pc THEN m.pc + 1 ELSE x.pc,
                            !.last = m.program.operations[m.pc].name]

Execute(contexts) ==
  /\ frames' = Callers(frames) \o [contexts EXCEPT ![1] = Advanced(Current, contexts[1])]
  /\ UNCHANGED <<db, tx, outcome, sent>>

Arithmetic ==
  /\ Running /\ HasNext /\ NextOp.name \in ArithmeticOp
  /\ \E data \in IF NextOp.name \in DataOp THEN DATA ELSE {0} :
       Execute(<<arithmetic_op(Current, NextOp, data)>>)

Environment ==
  /\ Running /\ HasNext /\ NextOp.name \in EnvironmentOp
  /\ \E data \in IF NextOp.name \in DataOp THEN DATA ELSE {0} :
       Execute(<<environment_op(Current, NextOp, data)>>)

StateOperation ==
  /\ Running /\ HasNext /\ NextOp.name \in StateOp
  /\ \E data \in IF NextOp.name \in DataOp THEN DATA ELSE {0} :
       Execute(<<state_op(Current, NextOp, data)>>)

Flow ==
  /\ Running /\ HasNext /\ NextOp.name \in FlowOp
  /\ Execute(<<flow_op(Current, NextOp)>>)

Call ==
  /\ Running /\ HasNext /\ NextOp.name \in CallOp
  /\ \E input \in Inputs : Execute(codegen_call(Current, db, NextOp.name, input))

Create ==
  /\ Running /\ HasNext /\ NextOp.name \in CreateOp
  /\ \E init \in IF check_stack_has_at_least(Current, 3)
                  THEN CodesOfSize(Operand(Current, 2)) ELSE {<<>>} :
       Execute(codegen_create(Current, db, NextOp.name = "CREATE2", init))

\* context.rs: compile_program ends every program with a STOP.
EndOfCode ==
  /\ Running /\ ~HasNext
  /\ frames' = Callers(frames) \o <<return_empty_result(Current, "Stop")>>
  /\ UNCHANGED <<db, tx, outcome, sent>>

\* A context that was called ends, and its caller goes on.
CallEnds ==
  LET caller == frames[Len(frames) - 1]
  IN  /\ Len(frames) > 1 /\ ~Running
      /\ caller.pending.op = "CALL"
      /\ frames' = Callers(Callers(frames)) \o <<call_ends(caller, Current)>>
      /\ UNCHANGED <<db, tx, outcome, sent>>

\* lib.rs: create, after the syscall.
transaction_creation_ends(m, created, code) ==
  LET result == create_result(m, db, created, code)
      remaining == IF m.gas_limit > result.gas THEN m.gas_limit - result.gas ELSE 0
  IN  write_result([m EXCEPT !.journal = result.journal, !.pending = NoCall],
                   Len(created.own_code), remaining, "Stop")

CreationEnds ==
  LET creator == frames[Len(frames) - 1]
  IN  /\ Len(frames) > 1 /\ ~Running
      /\ creator.pending.op = "CREATE"
      /\ \E code \in CodesOfSize(output_size(Current)) :
           frames' = Callers(Callers(frames))
                     \o <<IF Len(frames) = 2 /\ tx.kind = "CREATE"
                          THEN transaction_creation_ends(creator, Current, code)
                          ELSE creation_ends(creator, db, Current, code)>>
      /\ UNCHANGED <<db, tx, outcome, sent>>

\* get_result and transact_commit: the journal is committed whatever the result.
result_status(m) ==
  CASE is_success(m) -> "Success"
    [] m.exit_status = "Revert" -> "Revert"
    [] OTHER -> "Halt"

TransactionEnds ==
  /\ Len(frames) = 1 /\ ~Running
  /\ outcome' = [status |-> result_status(Current), gas_used |-> gas_used(Current),
                 gas_refunded |-> gas_refunded(Current)]
  /\ db' = commit(db, Current.journal)
  /\ frames' = <<>>
  /\ UNCHANGED <<tx, sent>>

Step == \/ Arithmetic \/ Environment \/ StateOperation \/ Flow \/ Call \/ Create
        \/ EndOfCode \/ CallEnds \/ CreationEnds \/ TransactionEnds

\* Nothing runs and nothing more is sent.
Done == frames = <<>> /\ sent = MAX_TRANSACTIONS /\ UNCHANGED vars

Next == Step \/ (\E t \in Transactions : Transact(t)) \/ Done

\* The machine runs until the transaction is done.  A step is possible as long
\* as there is a context, so this is the weak fairness of Step, with its
\* enabling condition written out.
Fairness == []<>(frames = <<>>) \/ []<><<Step>>_vars

Spec == Init /\ [][Next]_vars /\ Fairness

----------------------------------------------------------------------------
(* What evm_mlir should guarantee of the programs it runs.                   *)

\* The contexts, the Db and the outcome have the shape the machine gives them.
TypeOK ==
  /\ \A i \in DOMAIN frames :
       /\ frames[i].exit_status \in {"running", "Return", "Stop", "Revert", "Error"}
       /\ \A k \in DOMAIN frames[i].stack : frames[i].stack[k] \in Word
       /\ i < Len(frames) => frames[i].pending.op \in {"CALL", "CREATE"}
  /\ outcome.status \in {"none", "Invalid", "Success", "Revert", "Halt"}
  /\ \A a \in DOMAIN db : db[a].balance \in Nat /\ db[a].nonce \in Nat
  /\ sent \in 0 .. MAX_TRANSACTIONS

\* No operation reads below the stack, and none writes above it except the two
\* whose generated code has no check for space, codegen_dup and
\* codegen_calldatasize (tests/operations.rs: push_stack_overflow).
StackFaults ==
  \A i \in DOMAIN frames :
    \/ frames[i].fault = "none"
    \/ /\ frames[i].fault = "overflow"
       /\ \E k \in 1 .. frames[i].pc - 1 :
            frames[i].program.operations[k].name \in {"DUP", "CALLDATASIZE"}

\* The size of the memory the generated code keeps in a global is the length of
\* the vector the syscalls work on, and a whole number of words: a syscall that
\* makes room for its own write never has to move the vector, whose address the
\* generated code keeps too (utils/memory.rs: extend_memory).
MemoryAgrees ==
  \A i \in DOMAIN frames :
    (i = 1 /\ tx.kind = "CREATE")
    \/ (frames[i].memory_size = frames[i].memory_len /\ frames[i].memory_size % WORD_BYTES = 0)

\* A running context never owes gas and never has more than it was given.  The
\* exception is MCOPY, whose last charge nobody checks (codegen_mcopy).
GasWithinLimit ==
  \A i \in DOMAIN frames :
    \/ frames[i].gas \in 0 .. frames[i].gas_limit
    \/ frames[i].last = "MCOPY" /\ frames[i].gas < 0

\* A transaction never uses more gas than its limit, a halted one uses all of it
\* (result.rs: "Halting will spend all the gas, and will be equal to gas_limit"),
\* and no more than a fifth is refunded.
GasReported ==
  outcome.status \in {"Success", "Revert", "Halt"} =>
    /\ outcome.gas_used \in 0 .. tx.gas_limit
    /\ outcome.status = "Halt" => outcome.gas_used = tx.gas_limit
    /\ outcome.gas_refunded * 5 <= outcome.gas_used

\* Every context, and the transaction when it is over, stays within the stack,
\* the memory and the gas it was given, which each codegen function checks for
\* itself.
WithinLimits == TypeOK /\ StackFaults /\ MemoryAgrees /\ GasWithinLimit /\ GasReported

\* What a context sees of an account, besides its storage.
Observable(j, a) == <<j[a].balance, j[a].nonce, j[a].code>>

\* A static context leaves no trace: whatever the calls below a STATICCALL do,
\* the accounts and the values stored are those of the context that made it
\* (codegen_sstore, codegen_log, codegen_create, codegen_selfdestruct and
\* codegen_call check it each for itself).
StaticUnchanged ==
  \A i \in 2 .. Len(frames) :
    frames[i].ctx_is_static =>
      LET j == frames[i].journal
          p == frames[i - 1].journal
      IN  /\ \A a \in DOMAIN p : Observable(j, a) = Observable(p, a)
          /\ \A a \in DOMAIN p : \A k \in DOMAIN p[a].storage :
               j[a].storage[k].present = p[a].storage[k].present
          /\ \A a \in DOMAIN j : \A k \in DOMAIN j[a].storage :
               key_is_warm(p, a, k) \/ j[a].storage[k].present = read_db_storage(db, a, k)

\* No context gets gas back: neither an operation nor a call it made, whatever
\* the callee left unused or was refunded (call: "*consumed_gas -= unused_gas").
NoGasGained ==
  [][\A i \in DOMAIN frames \intersect DOMAIN frames' :
       frames'[i].gas <= frames[i].gas]_vars

\* A jump goes to the JUMPDEST at the pc it was given (populate_jumptable pairs
\* the pcs in program order with blocks ordered by pc).
JumpLands ==
  [][(Running /\ HasNext /\ NextOp.name \in {"JUMP", "JUMPI"}
      /\ Innermost(frames').exit_status = "running" /\ Innermost(frames').pc # Current.pc + 1) =>
       LET op == Current.program.operations[Innermost(frames').pc]
       IN  op.name = "JUMPDEST" /\ op.arg = Top(Current)]_vars

\* A call that failed leaves the storage, the code and the nonces its caller sees
\* as they were when the call was made; the value it carried has moved
\* (call: "If we revert, should we still send the value").
FailedCallUndone ==
  [][(Len(frames) > 1 /\ ~Running /\ Len(frames') = Len(frames) - 1
      /\ frames[Len(frames) - 1].pending.op = "CALL" /\ ~is_success(Current)) =>
       LET before == frames[Len(frames) - 1].journal
           after == Innermost(frames').journal
       IN  /\ DOMAIN after = DOMAIN before
           /\ \A a \in DOMAIN after : /\ after[a].storage = before[a].storage
                                      /\ after[a].code = before[a].code
                                      /\ after[a].nonce = before[a].nonce]_vars

\* The sum of all balances a context sees.
Supply(j) ==
  MapThenSumSet(LAMBDA a : balance_or_default(j, db, a), DOMAIN j \union DOMAIN db)

\* The running context pays itself: call reads both balances before it writes one.
PaysItself ==
  /\ Running /\ HasNext
  /\ \/ /\ NextOp.name \in {"CALL", "CALLCODE"} /\ check_stack_has_at_least(Current, 7)
        /\ address_from(get_nth_from_stack(Current, 1)) = Current.this
     \/ /\ NextOp.name = "SELFDESTRUCT" /\ check_stack_has_at_least(Current, 1)
        /\ address_from(Top(Current)) = Current.this

Creates ==
  \/ Running /\ HasNext /\ NextOp.name \in CreateOp
  \/ ~Running /\ Len(frames) > 1 /\ frames[Len(frames) - 1].pending.op = "CREATE"

\* No operation and no end of a call, failed ones included, makes or loses value,
\* over any nesting of calls.  The exceptions are a contract that pays itself and
\* creations, which credit the new account first (create_aux).
ValueConserved ==
  [][(frames # <<>> /\ frames' # <<>> /\ ~PaysItself /\ ~Creates) =>
       Supply(Innermost(frames').journal) = Supply(Current.journal)]_vars

\* Every transaction comes to an end, loops and calls of itself included: each
\* operation that can repeat consumes gas.
TransactionsEnd == (frames # <<>>) ~> (frames = <<>>)

\* A transaction that reverted changes nothing in the Db (codegen/operations.rs,
\* at codegen_revert: "revert the state changes").
RevertedUnchanged ==
  [][outcome'.status = "Revert" /\ outcome.status = "none" =>
       \A a \in DOMAIN db : db'[a].storage = db[a].storage]_vars
=============================================================================
