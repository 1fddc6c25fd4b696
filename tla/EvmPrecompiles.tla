--------------------------- MODULE EvmPrecompiles ---------------------------
(* evm_mlir/src/precompiles.rs: when each precompiled contract fails, what   *)
(* it charges and how much it returns.  The cryptography is left out: ok     *)
(* says whether the library accepted the points or the signature.  An input  *)
(* is [len, ok, b_size, e_size, e_bits, m_size, rounds, flag], each contract *)
(* reading the fields its calldata encodes.                                  *)
EXTENDS Integers

\* constants.rs: the precompiles' costs, for a calldata of len bytes.
ECRECOVER_COST == 3000
MIN_MODEXP_COST == 200
ECADD_COST == 150
ECMUL_COST == 6000
sha2_256_cost(len) == 60 + ((len + 31) \div 32) * 12
ripemd_160_cost(len) == 600 + ((len + 31) \div 32) * 120
identity_cost(len) == 15 + ((len + 31) \div 32) * 3
ecpairing_cost(len) == 45000 + 34000 * (len \div 192)
blake2_gas_cost(rounds) == rounds

MXP_PARAMS_OFFSET == 96
ECP_INPUT_SIZE == 192
CALLDATA_LEN == 213

Ok(gas, size) == [ok |-> TRUE, gas |-> gas, size |-> size]
Err == [ok |-> FALSE, gas |-> 0, size |-> 0]

\* The gas is charged where the result is known, so an error charges nothing.
Priced(gas_limit, cost, accepted, size) ==
  IF gas_limit >= cost /\ accepted THEN Ok(cost, size) ELSE Err

ecrecover(input, gas_limit) == Priced(gas_limit, ECRECOVER_COST, input.ok, 32)

sha2_256(input, gas_limit) == Priced(gas_limit, sha2_256_cost(input.len), TRUE, 32)

ripemd_160(input, gas_limit) == Priced(gas_limit, ripemd_160_cost(input.len), TRUE, 32)

identity(input, gas_limit) == Priced(gas_limit, identity_cost(input.len), TRUE, input.len)

AtLeast(n, x) == IF x > n THEN x ELSE n

iteration_count(input) ==
  CASE input.e_size <= 32 /\ input.e_bits > 0 -> input.e_bits - 1
    [] input.e_size > 32 -> 8 * (input.e_size - 32) + AtLeast(1, input.e_bits) - 1
    [] OTHER -> 0

modexp_cost(input) ==
  LET words == (AtLeast(input.b_size, input.m_size) + 7) \div 8
  IN  AtLeast(MIN_MODEXP_COST, (words * words * AtLeast(1, iteration_count(input))) \div 3)

\* With nothing to compute the minimum is charged whatever the limit is.
modexp(input, gas_limit) ==
  LET padded == AtLeast(MXP_PARAMS_OFFSET, input.len)
      params_len == MXP_PARAMS_OFFSET + input.b_size + input.e_size + input.m_size
  IN  CASE input.len = 0 -> Ok(MIN_MODEXP_COST, 0)
        [] input.b_size = 0 /\ input.m_size = 0 -> Ok(200, 0)
        [] OTHER -> Priced(gas_limit, modexp_cost(input), padded >= params_len, input.m_size)

ecadd(input, gas_limit) == Priced(gas_limit, ECADD_COST, input.ok, 64)

ecmul(input, gas_limit) == Priced(gas_limit, ECMUL_COST, input.ok, 64)

ecpairing(input, gas_limit) ==
  IF input.len % ECP_INPUT_SIZE # 0 THEN Err
  ELSE Priced(gas_limit, ecpairing_cost(input.len), input.ok, 32)

blake2f(input, gas_limit) ==
  IF input.len # CALLDATA_LEN THEN Err
  ELSE Priced(gas_limit, blake2_gas_cost(input.rounds), input.flag <= 1, 64)

\* The point evaluation precompile, at 10, is not one of them.
is_precompile(address) == address \in 1 .. 9

precompile(address, input, gas_limit) ==
  CASE address = 1 -> ecrecover(input, gas_limit)
    [] address = 2 -> sha2_256(input, gas_limit)
    [] address = 3 -> ripemd_160(input, gas_limit)
    [] address = 4 -> identity(input, gas_limit)
    [] address = 5 -> modexp(input, gas_limit)
    [] address = 6 -> ecadd(input, gas_limit)
    [] address = 7 -> ecmul(input, gas_limit)
    [] address = 8 -> ecpairing(input, gas_limit)
    [] address = 9 -> blake2f(input, gas_limit)

\* Faulty variant: a failure charges what was charged before it.
execute_precompile_forgiving(address, input, gas_to_send, consumed_gas) ==
  LET result == precompile(address, input, gas_to_send)
  IN  [success |-> result.ok, consumed |-> consumed_gas + result.gas, size |-> result.size]

\* A failure charges all the gas that was sent.
execute_precompile(address, input, gas_to_send, consumed_gas) ==
  LET result == precompile(address, input, gas_to_send)
  IN  [success |-> result.ok,
       consumed |-> consumed_gas + (IF result.ok THEN result.gas ELSE gas_to_send),
       size |-> result.size]
=============================================================================
