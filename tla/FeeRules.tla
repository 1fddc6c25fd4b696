------------------------------ MODULE FeeRules ------------------------------
(* The rules that tie a header to its parent: gas limit, base fee and blob   *)
(* gas (core/types/block.rs), the header a payload is built with             *)
(* (blockchain/payload.rs), the checks of a block (blockchain.rs), and what  *)
(* is left of a header when it goes through the engine API                   *)
(* (rpc/types/payload.rs).                                                   *)
(*                                                                           *)
(* A header is the record of the fields the rules read.  The fields that are *)
(* only present or absent are Booleans.  Those that every block gets right   *)
(* by construction, or that are compared with a constant, are left out:      *)
(* extra data, difficulty, nonce, ommers hash and parent hash.               *)
(* A number of the code is a u64: what may overflow is reduced modulo U64,   *)
(* as in a release build.                                                    *)
EXTENDS Integers

CONSTANTS
  U64,                             \* 2^64
  GAS_LIMIT_ADJUSTMENT_FACTOR,     \* core/types/constants.rs: 1024, 5000, 2, 8, 10^9
  GAS_LIMIT_MINIMUM,
  ELASTICITY_MULTIPLIER,
  BASE_FEE_MAX_CHANGE_DENOMINATOR,
  INITIAL_BASE_FEE,
  GAS_LIMIT_BOUND_DIVISOR,         \* blockchain/constants.rs: 1024, 5000, 393216, 2^17, 6
  MIN_GAS_LIMIT,
  TARGET_BLOB_GAS_PER_BLOCK,
  GAS_PER_BLOB,
  MAX_BLOB_NUMBER_PER_BLOCK,
  DEFAULT_BUILDER_GAS_CEIL,        \* build_payload: 30_000_000
  BLOB_TARGET,                     \* core/types/block.rs: the literal 393216
  shanghai_time, cancun_time       \* the chain config; None when not scheduled

None == -1

\* The builder and the validator have constants of their own for one quantity.
ASSUME FeeAssumption ==
  /\ U64 \in Nat \ {0, 1}
  /\ GAS_LIMIT_ADJUSTMENT_FACTOR \in Nat \ {0, 1}
  /\ ELASTICITY_MULTIPLIER \in Nat \ {0}
  /\ BASE_FEE_MAX_CHANGE_DENOMINATOR \in Nat \ {0}
  /\ GAS_LIMIT_MINIMUM \in Nat
  /\ TARGET_BLOB_GAS_PER_BLOCK \in Nat
  /\ INITIAL_BASE_FEE \in 0 .. U64 - 1
  /\ GAS_PER_BLOB \in Nat \ {0}
  /\ MAX_BLOB_NUMBER_PER_BLOCK \in Nat
  /\ MAX_BLOB_NUMBER_PER_BLOCK * GAS_PER_BLOB < U64
  /\ {shanghai_time, cancun_time} \subseteq Nat \cup {None}
  /\ GAS_LIMIT_BOUND_DIVISOR = GAS_LIMIT_ADJUSTMENT_FACTOR
  /\ MIN_GAS_LIMIT = GAS_LIMIT_MINIMUM
  /\ DEFAULT_BUILDER_GAS_CEIL \in Nat /\ DEFAULT_BUILDER_GAS_CEIL >= MIN_GAS_LIMIT
  /\ BLOB_TARGET = TARGET_BLOB_GAS_PER_BLOCK
  /\ GAS_LIMIT_MINIMUM >= 2 * ELASTICITY_MULTIPLIER

Wrap(x) == x % U64
unwrap_or(option, default) == IF option = None THEN default ELSE option
Larger(a, b) == IF a >= b THEN a ELSE b
Smaller(a, b) == IF a <= b THEN a ELSE b

is_shanghai_activated(timestamp) == shanghai_time # None /\ shanghai_time <= timestamp
is_cancun_activated(timestamp) == cancun_time # None /\ cancun_time <= timestamp

----------------------------------------------------------------------------
(* The validator                                                             *)

check_gas_limit(gas_limit, parent_gas_limit) ==
  LET max_adjustment_delta == parent_gas_limit \div GAS_LIMIT_ADJUSTMENT_FACTOR
  IN  /\ gas_limit < Wrap(parent_gas_limit + max_adjustment_delta)
      /\ gas_limit > parent_gas_limit - max_adjustment_delta
      /\ gas_limit >= GAS_LIMIT_MINIMUM

\* What the base fee changes by for a distance of gas_used_delta from the target.
base_fee_per_gas_delta(base_fee, gas_used_delta, parent_gas_target) ==
  (Wrap(base_fee * gas_used_delta) \div parent_gas_target) \div BASE_FEE_MAX_CHANGE_DENOMINATOR

\* Faulty variant: a full block need not raise the fee by one at least.
BaseFee_stuck(parent_gas_target, parent_gas_used, base_fee) ==
  IF parent_gas_used >= parent_gas_target
  THEN Wrap(base_fee +
         base_fee_per_gas_delta(base_fee, parent_gas_used - parent_gas_target, parent_gas_target))
  ELSE base_fee -
         base_fee_per_gas_delta(base_fee, parent_gas_target - parent_gas_used, parent_gas_target)

BaseFee(parent_gas_target, parent_gas_used, base_fee) ==
  IF parent_gas_used = parent_gas_target THEN base_fee
  ELSE IF parent_gas_used > parent_gas_target
  THEN Wrap(base_fee + Larger(1,
         base_fee_per_gas_delta(base_fee, parent_gas_used - parent_gas_target, parent_gas_target)))
  ELSE base_fee -
         base_fee_per_gas_delta(base_fee, parent_gas_target - parent_gas_used, parent_gas_target)

calculate_base_fee_per_gas(block_gas_limit, parent_gas_limit, parent_gas_used, base_fee) ==
  IF check_gas_limit(block_gas_limit, parent_gas_limit)
  THEN BaseFee(parent_gas_limit \div ELASTICITY_MULTIPLIER, parent_gas_used, base_fee)
  ELSE None

validate_block_header(header, parent_header) ==
  LET expected == calculate_base_fee_per_gas(header.gas_limit, parent_header.gas_limit,
                    parent_header.gas_used,
                    unwrap_or(parent_header.base_fee_per_gas, INITIAL_BASE_FEE))
  IN  /\ header.gas_used <= header.gas_limit
      /\ expected # None
      /\ expected = unwrap_or(header.base_fee_per_gas, INITIAL_BASE_FEE)
      /\ header.timestamp > parent_header.timestamp
      /\ header.number = Wrap(parent_header.number + 1)

Excess(blob_gas, target) == IF blob_gas < target THEN 0 ELSE blob_gas - target

\* calc_excess_blob_gas of the validator (core/types/block.rs).
calc_excess_blob_gas(parent_header) ==
  Excess(Wrap(unwrap_or(parent_header.excess_blob_gas, 0)
              + unwrap_or(parent_header.blob_gas_used, 0)), BLOB_TARGET)

validate_cancun_header_fields(header, parent_header) ==
  /\ header.excess_blob_gas # None
  /\ header.blob_gas_used # None
  /\ header.excess_blob_gas = calc_excess_blob_gas(parent_header)
  /\ header.parent_beacon_block_root

validate_no_cancun_header_fields(header) ==
  header.excess_blob_gas = None /\ header.blob_gas_used = None

\* blobs is the number of blobs of the block's transactions.
verify_blob_gas_usage(header, blobs) ==
  /\ blobs * GAS_PER_BLOB <= MAX_BLOB_NUMBER_PER_BLOCK * GAS_PER_BLOB
  /\ blobs <= MAX_BLOB_NUMBER_PER_BLOCK
  /\ header.blob_gas_used # None => header.blob_gas_used = blobs * GAS_PER_BLOB

validate_block(header, blobs, parent_header) ==
  /\ validate_block_header(header, parent_header)
  /\ IF is_cancun_activated(header.timestamp)
     THEN /\ validate_cancun_header_fields(header, parent_header)
          /\ verify_blob_gas_usage(header, blobs)
     ELSE validate_no_cancun_header_fields(header)

----------------------------------------------------------------------------
(* The builder                                                               *)

Lowered(parent_gas_limit, delta, desired_limit) ==
  Larger(Wrap(parent_gas_limit - delta), desired_limit)
Raised(parent_gas_limit, delta, desired_limit) ==
  Smaller(Wrap(parent_gas_limit + delta), desired_limit)

\* Faulty variant: the step is as large as the bound, which it must stay below.
calc_gas_limit_at_bound(parent_gas_limit, desired_limit) ==
  LET delta == parent_gas_limit \div GAS_LIMIT_BOUND_DIVISOR
      desired == Smaller(desired_limit, MIN_GAS_LIMIT)
  IN  IF parent_gas_limit < desired THEN Raised(parent_gas_limit, delta, desired)
      ELSE IF parent_gas_limit > desired THEN Lowered(parent_gas_limit, delta, desired)
      ELSE parent_gas_limit

\* The desired limit is the smaller of the ceiling and the minimum, so the limit
\* of built payloads falls towards the minimum.
calc_gas_limit(parent_gas_limit, desired_limit) ==
  LET delta == Wrap(parent_gas_limit \div GAS_LIMIT_BOUND_DIVISOR - 1)
      desired == Smaller(desired_limit, MIN_GAS_LIMIT)
  IN  IF parent_gas_limit < desired THEN Raised(parent_gas_limit, delta, desired)
      ELSE IF parent_gas_limit > desired THEN Lowered(parent_gas_limit, delta, desired)
      ELSE parent_gas_limit

\* calc_excess_blob_gas of the builder (blockchain/payload.rs).
calc_excess_blob_gas_builder(parent_excess_blob_gas, parent_blob_gas_used) ==
  Excess(Wrap(parent_excess_blob_gas + parent_blob_gas_used), TARGET_BLOB_GAS_PER_BLOCK)

\* The header of an empty block.  The timestamp is the caller's, who always gives
\* a beacon root (forkchoiceUpdatedV3).
build_payload(parent, timestamp) ==
  LET gas_limit == calc_gas_limit(parent.gas_limit, DEFAULT_BUILDER_GAS_CEIL)
  IN  [number |-> Smaller(parent.number + 1, U64 - 1),
       timestamp |-> timestamp,
       gas_limit |-> gas_limit,
       gas_used |-> 0,
       base_fee_per_gas |-> calculate_base_fee_per_gas(gas_limit, parent.gas_limit,
                              parent.gas_used, unwrap_or(parent.base_fee_per_gas, 0)),
       withdrawals_root |-> is_shanghai_activated(timestamp),
       blob_gas_used |-> 0,
       excess_blob_gas |->
         IF is_cancun_activated(timestamp)
         THEN calc_excess_blob_gas_builder(unwrap_or(parent.excess_blob_gas, 0),
                unwrap_or(parent.blob_gas_used, 0))
         ELSE None,
       parent_beacon_block_root |-> TRUE]

----------------------------------------------------------------------------
(* The engine API                                                            *)

\* ExecutionPayloadV3 has no optional fields: what is missing is sent as zero.
from_block(header) ==
  [number |-> header.number,
   timestamp |-> header.timestamp,
   gas_limit |-> header.gas_limit,
   gas_used |-> header.gas_used,
   base_fee_per_gas |-> unwrap_or(header.base_fee_per_gas, 0),
   blob_gas_used |-> unwrap_or(header.blob_gas_used, 0),
   excess_blob_gas |-> unwrap_or(header.excess_blob_gas, 0)]

into_block(payload) ==
  [number |-> payload.number,
   timestamp |-> payload.timestamp,
   gas_limit |-> payload.gas_limit,
   gas_used |-> payload.gas_used,
   base_fee_per_gas |-> payload.base_fee_per_gas,
   withdrawals_root |-> TRUE,
   blob_gas_used |-> payload.blob_gas_used,
   excess_blob_gas |-> payload.excess_blob_gas,
   parent_beacon_block_root |-> TRUE]

\* The header newPayload makes of a payload has the block hash that came with it
\* when it is the header the hash was computed from.
\* An empty block passes the checks of newPayload and of add_block.
new_payload(header, parent_header) ==
  LET block == into_block(from_block(header))
  IN  /\ is_cancun_activated(block.timestamp)
      /\ block = header
      /\ validate_block(block, 0, parent_header)
=============================================================================
