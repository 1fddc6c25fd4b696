----------------------------- MODULE FeeProofs -----------------------------
(* Proofs of the claims of FeeMarket, for every value of the constants.      *)
EXTENDS FeeMarket, TLAPS

----------------------------------------------------------------------------
(* Arithmetic                                                                *)

\* Rounded division.
LEMMA Division ==
  ASSUME NEW x \in Nat, NEW y \in Nat \ {0}
  PROVE  x \div y \in Nat /\ y * (x \div y) <= x /\ x < y * (x \div y) + y
OBVIOUS

\* What wraps is a u64, and no more than it was.
LEMMA Wrapping ==
  ASSUME NEW x \in Int
  PROVE  /\ Wrap(x) \in u64
         /\ x \in u64 => Wrap(x) = x
         /\ x \in Nat => Wrap(x) <= x
BY FeeAssumption DEF Wrap, u64

\* What wraps loses U64 at least.
LEMMA WrapsOnce ==
  ASSUME NEW x \in Nat, x >= U64
  PROVE  Wrap(x) \in Nat /\ Wrap(x) <= x - U64
<1> DEFINE k == x \div U64
<1>1. k \in Nat /\ U64 * k <= x /\ x < U64 * k + U64
  BY Division, FeeAssumption
<1>2. x % U64 = x - U64 * k /\ x % U64 \in Nat
  BY FeeAssumption
<1> HIDE DEF k
<1>3. k >= 1
  BY <1>1, FeeAssumption
<1>4. U64 * k >= U64
  BY <1>1, <1>3, FeeAssumption
<1> QED
  BY <1>1, <1>2, <1>4, FeeAssumption DEF Wrap

\* Two roundings down lose: the quotient times both divisors is within the dividend.
LEMMA DivisionTwice ==
  ASSUME NEW x \in Nat, NEW y \in Nat \ {0}, NEW z \in Nat \ {0}
  PROVE  /\ (x \div y) \div z \in Nat
         /\ ((x \div y) \div z) * z * y <= x
         /\ (x \div y) \div z <= x
<1> DEFINE q == x \div y
           r == q \div z
<1>1. q \in Nat /\ y * q <= x
  BY Division
<1>2. r \in Nat /\ z * r <= q
  BY <1>1, Division
<1> HIDE DEF q, r
<1>3. y * (z * r) <= y * q
  BY <1>1, <1>2
<1>4. r * z * y = y * (z * r)
  BY <1>1, <1>2
<1>5. r <= z * r /\ q <= y * q
  BY <1>1, <1>2
<1>6. r * z * y <= x /\ r <= x
  BY <1>1, <1>2, <1>3, <1>4, <1>5
<1> QED
  BY <1>2, <1>6 DEF q, r

----------------------------------------------------------------------------
(* The gas limit                                                             *)

\* A parent that a block may follow has a gas limit that the bounds around it
\* leave room for, and a target that is not zero: none of the divisions of
\* calculate_base_fee_per_gas has zero as a divider.
THEOREM CheckedLimit ==
  ASSUME NEW parent_gas_limit \in u64, NEW gas_limit \in u64,
         check_gas_limit(gas_limit, parent_gas_limit)
  PROVE  /\ parent_gas_limit \div GAS_LIMIT_ADJUSTMENT_FACTOR \in Nat \ {0}
         /\ parent_gas_limit + parent_gas_limit \div GAS_LIMIT_ADJUSTMENT_FACTOR \in u64
         /\ parent_gas_limit + parent_gas_limit \div GAS_LIMIT_ADJUSTMENT_FACTOR > GAS_LIMIT_MINIMUM
         /\ parent_gas_limit \div ELASTICITY_MULTIPLIER \in Nat \ {0}
<1> DEFINE p == parent_gas_limit
           q == p \div GAS_LIMIT_ADJUSTMENT_FACTOR
           t == p \div ELASTICITY_MULTIPLIER
<1>1. p \in Nat /\ p < U64 /\ gas_limit \in Nat
  BY FeeAssumption DEF u64
<1>2. q \in Nat /\ GAS_LIMIT_ADJUSTMENT_FACTOR * q <= p
  BY <1>1, FeeAssumption, Division
<1>3. 2 * q <= GAS_LIMIT_ADJUSTMENT_FACTOR * q
  BY <1>2, FeeAssumption
<1>4. /\ gas_limit < Wrap(p + q)
      /\ gas_limit > p - q
      /\ gas_limit >= GAS_LIMIT_MINIMUM
  BY DEF check_gas_limit
<1>5. t \in Nat /\ p < ELASTICITY_MULTIPLIER * t + ELASTICITY_MULTIPLIER
  BY <1>1, FeeAssumption, Division
<1> HIDE DEF q, t
<1>6. p + q < U64
  <2> SUFFICES ASSUME p + q >= U64 PROVE FALSE
    BY <1>1, <1>2, FeeAssumption
  <2> DEFINE s == p + q
  <2>1. s \in Nat /\ s >= U64
    BY <1>1, <1>2
  <2> HIDE DEF s
  <2>2. Wrap(s) \in Nat /\ Wrap(s) <= s - U64
    BY <2>1, WrapsOnce
  <2>3. 2 * q <= p
    BY <1>1, <1>2, <1>3, FeeAssumption
  <2> QED
    BY <2>2, <2>3, <1>1, <1>2, <1>4, FeeAssumption DEF s
<1>7. Wrap(p + q) = p + q
  <2>1. p + q \in u64 /\ p + q \in Int
    BY <1>1, <1>2, <1>6, FeeAssumption DEF u64
  <2> QED
    BY <2>1, Wrapping
<1>8. q # 0 /\ p + q > GAS_LIMIT_MINIMUM
  BY <1>1, <1>2, <1>4, <1>7, FeeAssumption
<1>9. p >= ELASTICITY_MULTIPLIER
  BY <1>1, <1>2, <1>3, <1>8, FeeAssumption
<1>10. t # 0
  BY <1>1, <1>5, <1>9, FeeAssumption
<1> QED
  BY <1>1, <1>2, <1>5, <1>6, <1>8, <1>10, FeeAssumption DEF q, t, u64

\* Whenever some gas limit may follow the parent's, the builder's may
\* (calc_gas_limit against check_gas_limit).
THEOREM BuiltLimit ==
  ASSUME NEW parent_gas_limit \in u64, NEW gas_limit \in u64,
         check_gas_limit(gas_limit, parent_gas_limit)
  PROVE  check_gas_limit(calc_gas_limit(parent_gas_limit, DEFAULT_BUILDER_GAS_CEIL),
                         parent_gas_limit)
<1> DEFINE p == parent_gas_limit
           q == p \div GAS_LIMIT_ADJUSTMENT_FACTOR
<1>1. /\ q \in Nat \ {0}
      /\ p + q \in u64
      /\ p + q > GAS_LIMIT_MINIMUM
  BY CheckedLimit
<1>2. p \in Nat /\ p < U64
  BY FeeAssumption DEF u64
<1>3. GAS_LIMIT_ADJUSTMENT_FACTOR * q <= p
  BY <1>2, FeeAssumption, Division
<1>4. q <= GAS_LIMIT_ADJUSTMENT_FACTOR * q
  BY <1>1, FeeAssumption
<1> DEFINE d == Wrap(p \div GAS_LIMIT_BOUND_DIVISOR - 1)
           limit == calc_gas_limit(p, DEFAULT_BUILDER_GAS_CEIL)
<1>5. d = q - 1
  <2>1. d = Wrap(q - 1)
    BY FeeAssumption
  <2>2. q - 1 \in u64
    BY <1>1, <1>2, <1>3, <1>4, FeeAssumption DEF u64
  <2> QED
    BY <2>1, <2>2, Wrapping DEF u64
<1>6. Smaller(DEFAULT_BUILDER_GAS_CEIL, MIN_GAS_LIMIT) = GAS_LIMIT_MINIMUM
  BY FeeAssumption DEF Smaller
<1>7. limit = IF p < GAS_LIMIT_MINIMUM THEN Raised(p, d, GAS_LIMIT_MINIMUM)
              ELSE IF p > GAS_LIMIT_MINIMUM THEN Lowered(p, d, GAS_LIMIT_MINIMUM)
              ELSE p
  BY <1>6 DEF calc_gas_limit
<1> HIDE DEF q, d, limit
<1>8. Wrap(p + d) = p + d /\ Wrap(p - d) = p - d
  <2>1. p + d \in u64 /\ p - d \in u64
    BY <1>1, <1>2, <1>3, <1>4, <1>5, FeeAssumption DEF u64
  <2> QED
    BY <2>1, Wrapping DEF u64
<1>9. /\ limit < p + q
      /\ limit > p - q
      /\ limit >= GAS_LIMIT_MINIMUM
  <2>1. CASE p < GAS_LIMIT_MINIMUM
    BY <2>1, <1>1, <1>2, <1>5, <1>7, <1>8, FeeAssumption DEF Raised, Smaller, u64
  <2>2. CASE p > GAS_LIMIT_MINIMUM
    BY <2>2, <1>1, <1>2, <1>5, <1>7, <1>8, FeeAssumption DEF Lowered, Larger, u64
  <2>3. CASE p = GAS_LIMIT_MINIMUM
    BY <2>3, <1>1, <1>2, <1>5, <1>7, <1>8, FeeAssumption
  <2> QED
    BY <2>1, <2>2, <2>3, <1>2, FeeAssumption
<1>10. Wrap(p + q) = p + q
  BY <1>1, Wrapping DEF u64
<1> QED
  BY <1>9, <1>10 DEF check_gas_limit, q, limit

----------------------------------------------------------------------------
(* The base fee                                                              *)

\* The change of the base fee is within an eighth of the fee times the relative
\* distance from the target, and below the target never more than the fee.
LEMMA FeeDelta ==
  ASSUME NEW fee \in Nat, NEW dist \in Nat, NEW target \in Nat \ {0}
  PROVE  /\ base_fee_per_gas_delta(fee, dist, target) \in Nat
         /\ base_fee_per_gas_delta(fee, dist, target) * BASE_FEE_MAX_CHANGE_DENOMINATOR * target
              <= fee * dist
         /\ base_fee_per_gas_delta(fee, dist, target) <= fee * dist
         /\ dist <= target => base_fee_per_gas_delta(fee, dist, target) <= fee
<1> DEFINE x == fee * dist
           m == Wrap(x)
           q == m \div target
           d == q \div BASE_FEE_MAX_CHANGE_DENOMINATOR
<1>1. x \in Nat
  OBVIOUS
<1>2. m \in Nat /\ m <= x
  <2> HIDE DEF x
  <2> QED
    BY <1>1, Wrapping DEF u64
<1>3. /\ d \in Nat
      /\ d * BASE_FEE_MAX_CHANGE_DENOMINATOR * target <= m
      /\ d <= m
  <2> HIDE DEF m
  <2> QED
    BY <1>2, FeeAssumption, DivisionTwice
<1>4. q \in Nat /\ target * q <= m
  <2> HIDE DEF m
  <2> QED
    BY <1>2, Division
<1>5. d <= q
  <2> HIDE DEF q
  <2>1. /\ d \in Nat
        /\ BASE_FEE_MAX_CHANGE_DENOMINATOR * d <= q
    BY <1>4, FeeAssumption, Division
  <2> HIDE DEF d
  <2> QED
    BY <2>1, <1>4, FeeAssumption
<1>6. ASSUME dist <= target PROVE q <= fee
  <2>1. x <= target * fee
    BY <1>6
  <2> HIDE DEF x, m, q
  <2>2. target * q <= target * fee
    BY <2>1, <1>1, <1>2, <1>4
  <2> QED
    BY <2>2, <1>4
<1>7. /\ d * BASE_FEE_MAX_CHANGE_DENOMINATOR * target <= x
      /\ d <= x
  <2> DEFINE e == d * BASE_FEE_MAX_CHANGE_DENOMINATOR * target
  <2>1. e \in Nat
    <3> HIDE DEF d
    <3> QED BY <1>3, FeeAssumption
  <2>2. e <= m
    BY <1>3
  <2> HIDE DEF x, m, e
  <2>3. e <= x
    BY <2>1, <2>2, <1>1, <1>2
  <2>4. d <= x
    <3> HIDE DEF d
    <3> QED BY <1>1, <1>2, <1>3
  <2> QED
    BY <2>3, <2>4 DEF e
<1>8. dist <= target => d <= fee
  <2> HIDE DEF d, q
  <2> QED
    BY <1>3, <1>4, <1>5, <1>6
<1>9. d = base_fee_per_gas_delta(fee, dist, target)
  BY DEF base_fee_per_gas_delta
<1> QED
  BY <1>3, <1>7, <1>8, <1>9

\* A base fee is a u64 for every parent with a target.
LEMMA FeeType ==
  ASSUME NEW fee \in u64, NEW used \in Nat, NEW target \in Nat \ {0}
  PROVE  BaseFee(target, used, fee) \in u64
<1>1. fee \in Nat
  BY FeeAssumption DEF u64
<1>2. CASE used = target
  BY <1>2 DEF BaseFee
<1>3. CASE used > target
  <2> DEFINE d == base_fee_per_gas_delta(fee, used - target, target)
  <2>1. d \in Nat
    BY <1>1, <1>3, FeeDelta
  <2>2. BaseFee(target, used, fee) = Wrap(fee + Larger(1, d))
    BY <1>3 DEF BaseFee
  <2> HIDE DEF d
  <2>3. fee + Larger(1, d) \in Int
    BY <1>1, <2>1 DEF Larger
  <2> QED
    BY <2>2, <2>3, Wrapping
<1>4. CASE used < target
  <2> DEFINE d == base_fee_per_gas_delta(fee, target - used, target)
  <2>1. d \in Nat /\ d <= fee
    BY <1>1, <1>4, FeeDelta
  <2>2. BaseFee(target, used, fee) = fee - d
    BY <1>4 DEF BaseFee
  <2> HIDE DEF d
  <2> QED
    BY <2>1, <2>2, <1>1, FeeAssumption DEF u64
<1> QED
  BY <1>2, <1>3, <1>4

\* So is the base fee of a block whose gas limit passes the check.
LEMMA CalculatedType ==
  ASSUME NEW gas_limit \in u64, NEW parent_gas_limit \in u64, NEW used \in u64, NEW fee \in u64
  PROVE  /\ calculate_base_fee_per_gas(gas_limit, parent_gas_limit, used, fee) \in u64 \cup {None}
         /\ check_gas_limit(gas_limit, parent_gas_limit) =>
              calculate_base_fee_per_gas(gas_limit, parent_gas_limit, used, fee) \in u64
<1>1. used \in Nat
  BY FeeAssumption DEF u64
<1>2. CASE check_gas_limit(gas_limit, parent_gas_limit)
  BY <1>1, <1>2, CheckedLimit, FeeType DEF calculate_base_fee_per_gas
<1>3. CASE ~check_gas_limit(gas_limit, parent_gas_limit)
  BY <1>3 DEF calculate_base_fee_per_gas
<1> QED
  BY <1>2, <1>3

----------------------------------------------------------------------------
(* Headers                                                                   *)

\* Absent or present, what unwrap_or gives is a u64.
LEMMA Unwrapped ==
  ASSUME NEW option \in u64 \cup {None}, NEW default \in u64
  PROVE  unwrap_or(option, default) \in u64
BY DEF unwrap_or

\* Excess blob gas is a u64.
LEMMA ExcessType ==
  ASSUME NEW a \in u64, NEW b \in u64
  PROVE  Excess(Wrap(a + b), TARGET_BLOB_GAS_PER_BLOCK) \in u64
<1>1. a + b \in Int
  BY FeeAssumption DEF u64
<1>2. Wrap(a + b) \in u64
  BY <1>1, Wrapping
<1> QED
  BY <1>2, FeeAssumption DEF Excess, u64

\* Zero and the initial base fee are u64s.
LEMMA Defaults == 0 \in u64 /\ INITIAL_BASE_FEE \in u64 /\ MaxTime \in u64
BY FeeAssumption, MarketAssumption DEF u64

\* The gas limit of a built payload is a u64.
LEMMA LimitType ==
  ASSUME NEW parent_gas_limit \in u64
  PROVE  calc_gas_limit(parent_gas_limit, DEFAULT_BUILDER_GAS_CEIL) \in u64
<1> DEFINE p == parent_gas_limit
           d == Wrap(p \div GAS_LIMIT_BOUND_DIVISOR - 1)
           m == Smaller(DEFAULT_BUILDER_GAS_CEIL, MIN_GAS_LIMIT)
<1>1. p \in Nat /\ p < U64
  BY FeeAssumption DEF u64
<1>2. p \div GAS_LIMIT_BOUND_DIVISOR - 1 \in Int
  BY <1>1, Division, FeeAssumption
<1>3. d \in u64
  BY <1>2, Wrapping
<1>4. m \in Nat
  BY FeeAssumption DEF Smaller
<1> HIDE DEF d, m
<1>5. p - d \in Int /\ p + d \in Int
  BY <1>1, <1>3, FeeAssumption DEF u64
<1>6. Wrap(p - d) \in u64 /\ Wrap(p + d) \in u64
  BY <1>5, Wrapping
<1>7. p > m => Lowered(p, d, m) \in u64
  BY <1>1, <1>4, <1>6, FeeAssumption DEF Lowered, Larger, u64
<1>8. p < m => Raised(p, d, m) \in u64
  BY <1>1, <1>4, <1>6, FeeAssumption DEF Raised, Smaller, u64
<1>9. calc_gas_limit(p, DEFAULT_BUILDER_GAS_CEIL) =
        IF p < m THEN Raised(p, d, m) ELSE IF p > m THEN Lowered(p, d, m) ELSE p
  BY DEF calc_gas_limit, d, m
<1> QED
  BY <1>7, <1>8, <1>9

\* What build_payload makes of a header is a header.
LEMMA BuiltType ==
  ASSUME NEW parent \in Header, NEW timestamp \in 0 .. MaxTime
  PROVE  /\ build_payload(parent, timestamp) \in Header
         /\ build_payload(parent, timestamp).timestamp = timestamp
<1> DEFINE gas_limit == calc_gas_limit(parent.gas_limit, DEFAULT_BUILDER_GAS_CEIL)
           fee == calculate_base_fee_per_gas(gas_limit, parent.gas_limit, parent.gas_used,
                    unwrap_or(parent.base_fee_per_gas, 0))
           excess == calc_excess_blob_gas_builder(unwrap_or(parent.excess_blob_gas, 0),
                       unwrap_or(parent.blob_gas_used, 0))
           number == Smaller(parent.number + 1, U64 - 1)
<1>1. /\ parent.gas_limit \in u64 /\ parent.gas_used \in u64 /\ parent.number \in u64
      /\ parent.base_fee_per_gas \in u64 \cup {None}
      /\ parent.excess_blob_gas \in u64 \cup {None}
      /\ parent.blob_gas_used \in u64 \cup {None}
  BY DEF Header
<1>2. gas_limit \in u64
  BY <1>1, LimitType
<1>3. unwrap_or(parent.base_fee_per_gas, 0) \in u64
  BY <1>1, Defaults, Unwrapped
<1>4. fee \in u64 \cup {None}
  <2> HIDE DEF gas_limit
  <2> QED BY <1>1, <1>2, <1>3, CalculatedType
<1>5. excess \in u64
  BY <1>1, Defaults, Unwrapped, ExcessType DEF calc_excess_blob_gas_builder
<1>6. number \in u64
  BY <1>1, FeeAssumption DEF Smaller, u64
<1>7. is_shanghai_activated(timestamp) \in BOOLEAN /\ is_cancun_activated(timestamp) \in BOOLEAN
  BY DEF is_shanghai_activated, is_cancun_activated
<1>8. build_payload(parent, timestamp) =
       [number |-> number, timestamp |-> timestamp, gas_limit |-> gas_limit, gas_used |-> 0,
        base_fee_per_gas |-> fee, withdrawals_root |-> is_shanghai_activated(timestamp),
        blob_gas_used |-> 0,
        excess_blob_gas |-> IF is_cancun_activated(timestamp) THEN excess ELSE None,
        parent_beacon_block_root |-> TRUE]
  BY DEF build_payload
<1> HIDE DEF gas_limit, fee, excess, number
<1> QED
  BY <1>2, <1>4, <1>5, <1>6, <1>7, <1>8, Defaults DEF Header

----------------------------------------------------------------------------
(* The invariant                                                             *)

\* Numbers do not outgrow timestamps, so they never reach the last u64, and a
\* payload is what build_payload makes of its parent.
Inv ==
  /\ TypeOK
  /\ header.number <= header.timestamp
  /\ \A built \in payload :
       /\ built.parent.number <= built.parent.timestamp
       /\ built.block = build_payload(built.parent, built.block.timestamp)

\* A genesis header satisfies the invariant.
LEMMA InvInit == Init => Inv
<1> SUFFICES ASSUME Init PROVE Inv
  OBVIOUS
<1>1. PICK genesis \in Genesis : header = get_block_header(genesis)
  BY DEF Init
<1>2. /\ genesis.timestamp \in 0 .. MaxTime /\ genesis.gas_limit \in u64
      /\ genesis.base_fee_per_gas \in u64 \cup {None}
      /\ genesis.blob_gas_used \in u64 \cup {None}
      /\ genesis.excess_blob_gas \in u64 \cup {None}
  BY MarketAssumption
<1>3. /\ unwrap_or(genesis.base_fee_per_gas, INITIAL_BASE_FEE) \in u64
      /\ unwrap_or(genesis.blob_gas_used, 0) \in u64
      /\ unwrap_or(genesis.excess_blob_gas, 0) \in u64
  BY <1>2, Defaults, Unwrapped
<1>4. /\ is_shanghai_activated(genesis.timestamp) \in BOOLEAN
      /\ is_cancun_activated(genesis.timestamp) \in BOOLEAN
  BY DEF is_shanghai_activated, is_cancun_activated
<1>5. /\ header \in Header
      /\ header.gas_used <= header.gas_limit
      /\ header.number <= header.timestamp
  BY <1>1, <1>2, <1>3, <1>4, Defaults, FeeAssumption DEF get_block_header, Header, u64
<1> QED
  BY <1>5 DEF Init, Inv, TypeOK

\* A block that validates against a header of the chain keeps the numbers behind
\* the timestamps and its gas within its limit.
LEMMA ValidStep ==
  ASSUME NEW block \in Header, NEW parent \in Header, NEW blobs,
         parent.number <= parent.timestamp,
         validate_block(block, blobs, parent)
  PROVE  block.gas_used <= block.gas_limit /\ block.number <= block.timestamp
<1>1. /\ block.gas_used <= block.gas_limit
      /\ block.timestamp > parent.timestamp
      /\ block.number = Wrap(parent.number + 1)
  BY DEF validate_block, validate_block_header
<1>2. /\ parent.number \in Nat /\ parent.timestamp \in Nat
      /\ block.timestamp \in Nat
  BY FeeAssumption DEF Header, u64
<1>3. parent.number + 1 \in Nat
  BY <1>2
<1>4. Wrap(parent.number + 1) \in u64 /\ Wrap(parent.number + 1) <= parent.number + 1
  BY <1>3, Wrapping
<1> QED
  BY <1>1, <1>2, <1>4, FeeAssumption DEF u64

\* A block from elsewhere that validates is a header.
LEMMA OfferedType ==
  ASSUME header \in Header, NEW gas_limit \in GasLimits, NEW timestamp \in 0 .. MaxTime,
         NEW blobs \in Blobs, NEW cancun \in BOOLEAN, NEW base_fee \in BOOLEAN,
         NEW gas_used \in GasUsed(gas_limit),
         validate_block(Offered(gas_limit, gas_used, timestamp, blobs, cancun, base_fee),
                        blobs, header)
  PROVE  Offered(gas_limit, gas_used, timestamp, blobs, cancun, base_fee) \in Header
<1> DEFINE fee == calculate_base_fee_per_gas(gas_limit, header.gas_limit, header.gas_used,
                    unwrap_or(header.base_fee_per_gas, INITIAL_BASE_FEE))
           block == Offered(gas_limit, gas_used, timestamp, blobs, cancun, base_fee)
           number == Wrap(header.number + 1)
           used == blobs * GAS_PER_BLOB
           excess == calc_excess_blob_gas(header)
<1>1. /\ header.gas_limit \in u64 /\ header.gas_used \in u64 /\ header.number \in u64
      /\ header.base_fee_per_gas \in u64 \cup {None}
      /\ header.excess_blob_gas \in u64 \cup {None}
      /\ header.blob_gas_used \in u64 \cup {None}
  BY DEF Header
<1>2. gas_limit \in u64 /\ gas_used \in u64 /\ blobs \in Nat
  BY MarketAssumption
<1>3. fee \in u64 \cup {None}
  BY <1>1, <1>2, Defaults, Unwrapped, CalculatedType, ZenonT(60)
<1>4. number \in u64
  <2>1. header.number + 1 \in Int
    BY <1>1, FeeAssumption DEF u64
  <2> QED
    BY <2>1, Wrapping
<1>5. excess \in u64
  BY <1>1, Defaults, Unwrapped, ExcessType, FeeAssumption, ZenonT(60) DEF calc_excess_blob_gas
<1>6. block =
       [number |-> number, timestamp |-> timestamp, gas_limit |-> gas_limit,
        gas_used |-> gas_used, base_fee_per_gas |-> IF base_fee THEN fee ELSE None,
        withdrawals_root |-> is_shanghai_activated(timestamp),
        blob_gas_used |-> IF cancun THEN used ELSE None,
        excess_blob_gas |-> IF cancun THEN excess ELSE None,
        parent_beacon_block_root |-> cancun]
  BY DEF Offered
<1>7. used \in Nat
  BY <1>2, FeeAssumption
<1> HIDE DEF fee, number, used, excess
<1>8. ASSUME cancun PROVE used \in u64
  <2>1. block.blob_gas_used = used /\ used # None /\ block.timestamp = timestamp
    BY <1>6, <1>7, <1>8 DEF None
  <2>2. is_cancun_activated(timestamp)
    BY <2>1 DEF validate_block, validate_no_cancun_header_fields
  <2>3. used <= MAX_BLOB_NUMBER_PER_BLOCK * GAS_PER_BLOB
    BY <2>1, <2>2 DEF validate_block, verify_blob_gas_usage, used
  <2> QED
    BY <2>3, <1>7, FeeAssumption DEF u64
<1>9. is_shanghai_activated(timestamp) \in BOOLEAN
  BY DEF is_shanghai_activated
<1> QED
  BY <1>2, <1>3, <1>4, <1>5, <1>6, <1>8, <1>9 DEF Header

\* Every action keeps the invariant.
LEMMA InvNext == Inv /\ [Next]_vars => Inv'
<1> SUFFICES ASSUME Inv, [Next]_vars PROVE Inv'
  OBVIOUS
<1> USE DEF Inv
<1>1. CASE UNCHANGED vars
  BY <1>1 DEF vars, TypeOK
<1>2. CASE add_transaction
  <2>1. UNCHANGED <<header, payload>> /\ pool' \subseteq Transactions
    BY <1>2 DEF add_transaction, TypeOK
  <2> QED
    BY <2>1 DEF TypeOK
<1>3. CASE forkchoice_updated
  <2>1. PICK timestamp \in 0 .. MaxTime :
          /\ payload' = {[parent |-> header, block |-> build_payload(header, timestamp)]}
          /\ UNCHANGED <<header, pool>>
    BY <1>3 DEF forkchoice_updated
  <2>2. /\ build_payload(header, timestamp) \in Header
        /\ build_payload(header, timestamp).timestamp = timestamp
    BY BuiltType DEF TypeOK
  <2> QED
    BY <2>1, <2>2 DEF TypeOK
<1>4. CASE propose
  <2>1. PICK built \in payload :
          /\ built.parent = header
          /\ new_payload(built.block, header)
          /\ header' = built.block
          /\ UNCHANGED <<payload, pool>>
    BY <1>4 DEF propose
  <2>2. built.block \in Header
    BY DEF TypeOK
  <2>3. validate_block(built.block, 0, header)
    BY <2>1 DEF new_payload
  <2>4. built.block.gas_used <= built.block.gas_limit /\ built.block.number <= built.block.timestamp
    BY <2>2, <2>3, ValidStep DEF TypeOK
  <2> QED
    BY <2>1, <2>2, <2>4 DEF TypeOK
<1>5. CASE add_block
  <2>1. PICK gas_limit \in GasLimits, timestamp \in header.timestamp + 1 .. MaxTime,
             blobs \in Blobs, cancun \in BOOLEAN, base_fee \in BOOLEAN :
          \E gas_used \in GasUsed(gas_limit) :
            LET block == Offered(gas_limit, gas_used, timestamp, blobs, cancun, base_fee)
            IN  /\ validate_block(block, blobs, header)
                /\ header' = block
                /\ UNCHANGED <<payload, pool>>
    BY <1>5 DEF add_block
  <2>2. PICK gas_used \in GasUsed(gas_limit) :
          LET block == Offered(gas_limit, gas_used, timestamp, blobs, cancun, base_fee)
          IN  /\ validate_block(block, blobs, header)
              /\ header' = block
              /\ UNCHANGED <<payload, pool>>
    BY <2>1
  <2> DEFINE block == Offered(gas_limit, gas_used, timestamp, blobs, cancun, base_fee)
  <2>3. header \in Header
    BY DEF TypeOK
  <2>4. validate_block(block, blobs, header) /\ header' = block /\ UNCHANGED <<payload, pool>>
    BY <2>2
  <2>5. timestamp \in 0 .. MaxTime
    BY <2>3, Defaults DEF Header, u64
  <2>6. block \in Header
    BY <2>3, <2>4, <2>5, OfferedType
  <2> HIDE DEF block
  <2>7. block.gas_used <= block.gas_limit /\ block.number <= block.timestamp
    BY <2>3, <2>4, <2>6, ValidStep
  <2> QED
    BY <2>4, <2>6, <2>7 DEF TypeOK
<1> QED
  BY <1>1, <1>2, <1>3, <1>4, <1>5 DEF Next

----------------------------------------------------------------------------
(* The theorems                                                              *)

\* Every header, built or accepted, stays within its type, for any genesis file
\* and any blocks that follow it.
THEOREM FeeTypeCorrect == Spec => []TypeOK
<1>1. Inv => TypeOK
  BY DEF Inv
<1> QED
  BY InvInit, InvNext, <1>1, PTL DEF Spec

\* A payload for a later time, built on a header of the chain that states its base
\* fee, comes through the engine API unchanged and is valid.
LEMMA BuiltValid ==
  ASSUME NEW parent \in Header, NEW timestamp \in 0 .. MaxTime,
         parent.number <= parent.timestamp,
         parent.base_fee_per_gas # None,
         timestamp > parent.timestamp,
         is_cancun_activated(timestamp),
         is_shanghai_activated(timestamp),
         Extendable(parent)
  PROVE  new_payload(build_payload(parent, timestamp), parent)
<1> DEFINE gas_limit == calc_gas_limit(parent.gas_limit, DEFAULT_BUILDER_GAS_CEIL)
           fee == calculate_base_fee_per_gas(gas_limit, parent.gas_limit, parent.gas_used,
                    unwrap_or(parent.base_fee_per_gas, 0))
           excess == calc_excess_blob_gas_builder(unwrap_or(parent.excess_blob_gas, 0),
                       unwrap_or(parent.blob_gas_used, 0))
           block == build_payload(parent, timestamp)
<1>1. /\ parent.gas_limit \in u64 /\ parent.gas_used \in u64 /\ parent.number \in u64
      /\ parent.base_fee_per_gas \in u64 \cup {None}
      /\ parent.excess_blob_gas \in u64 \cup {None}
      /\ parent.blob_gas_used \in u64 \cup {None}
      /\ parent.timestamp \in 0 .. MaxTime
  BY DEF Header
<1>2. PICK some_limit \in u64 : check_gas_limit(some_limit, parent.gas_limit)
  BY DEF Extendable
<1>3. check_gas_limit(gas_limit, parent.gas_limit)
  BY <1>1, <1>2, BuiltLimit
<1>4. gas_limit \in u64
  BY <1>1, LimitType
<1>5. /\ unwrap_or(parent.base_fee_per_gas, 0) \in u64
      /\ unwrap_or(parent.base_fee_per_gas, INITIAL_BASE_FEE) = unwrap_or(parent.base_fee_per_gas, 0)
  BY <1>1, Defaults DEF unwrap_or
<1>6. fee \in u64
  <2> HIDE DEF gas_limit
  <2> QED BY <1>1, <1>3, <1>4, <1>5, CalculatedType
<1>7. excess \in u64 /\ excess = calc_excess_blob_gas(parent)
  BY <1>1, Defaults, Unwrapped, ExcessType, FeeAssumption, ZenonT(60)
     DEF calc_excess_blob_gas_builder, calc_excess_blob_gas
<1>8. Smaller(parent.number + 1, U64 - 1) = Wrap(parent.number + 1)
  <2>1. parent.number + 1 \in u64 /\ parent.number + 1 \in Int
    BY <1>1, Defaults, FeeAssumption DEF u64
  <2>2. Wrap(parent.number + 1) = parent.number + 1
    BY <2>1, Wrapping
  <2> QED
    BY <2>1, <2>2, FeeAssumption DEF Smaller, u64
<1>9. block =
       [number |-> Wrap(parent.number + 1), timestamp |-> timestamp, gas_limit |-> gas_limit,
        gas_used |-> 0, base_fee_per_gas |-> fee, withdrawals_root |-> TRUE,
        blob_gas_used |-> 0, excess_blob_gas |-> excess, parent_beacon_block_root |-> TRUE]
  BY <1>8, ZenonT(60) DEF build_payload
<1>10. fee # None /\ excess # None /\ 0 # None
  BY <1>6, <1>7, FeeAssumption DEF u64, None
<1> HIDE DEF block
<1>11. into_block(from_block(block)) = block
  <2> HIDE DEF gas_limit, fee, excess
  <2> QED
    BY <1>9, <1>10, ZenonT(60) DEF into_block, from_block, unwrap_or
<1>12. validate_block_header(block, parent)
  <2>1. calculate_base_fee_per_gas(block.gas_limit, parent.gas_limit, parent.gas_used,
          unwrap_or(parent.base_fee_per_gas, INITIAL_BASE_FEE)) = fee
    BY <1>5, <1>9, ZenonT(60)
  <2>2. unwrap_or(block.base_fee_per_gas, INITIAL_BASE_FEE) = fee
    <3> HIDE DEF fee
    <3> QED BY <1>9, <1>10 DEF unwrap_or
  <2>3. block.gas_used <= block.gas_limit
    <3> HIDE DEF gas_limit
    <3> QED BY <1>4, <1>9, FeeAssumption DEF u64
  <2>4. block.timestamp > parent.timestamp /\ block.number = Wrap(parent.number + 1)
    BY <1>9
  <2> HIDE DEF fee
  <2> QED
    BY <2>1, <2>2, <2>3, <2>4, <1>10 DEF validate_block_header
<1>13. validate_cancun_header_fields(block, parent)
  <2> HIDE DEF gas_limit, fee, excess
  <2> QED
    BY <1>7, <1>9, <1>10 DEF validate_cancun_header_fields
<1>14. verify_blob_gas_usage(block, 0)
  <2> HIDE DEF gas_limit, fee, excess
  <2> QED
    BY <1>9, FeeAssumption DEF verify_blob_gas_usage
<1>15. block.timestamp = timestamp
  BY <1>9, ZenonT(60)
<1> QED
  BY <1>11, <1>12, <1>13, <1>14, <1>15 DEF new_payload, validate_block, block

\* The node accepts the payloads it builds (build_payload against validate_block
\* and the engine API), whatever the chain before them.
THEOREM BuiltIsAccepted == Spec => []BuiltAccepted
<1>1. Inv => BuiltAccepted
  <2> SUFFICES ASSUME Inv, NEW built \in payload,
                      built.parent.base_fee_per_gas # None,
                      built.block.timestamp > built.parent.timestamp,
                      is_cancun_activated(built.block.timestamp),
                      is_shanghai_activated(built.block.timestamp),
                      Extendable(built.parent)
               PROVE  new_payload(built.block, built.parent)
    BY DEF BuiltAccepted
  <2>1. /\ built.parent \in Header /\ built.block \in Header
        /\ built.parent.number <= built.parent.timestamp
        /\ built.block = build_payload(built.parent, built.block.timestamp)
    BY DEF Inv, TypeOK
  <2>2. built.block.timestamp \in 0 .. MaxTime
    BY <2>1 DEF Header
  <2> QED
    BY <2>1, <2>2, BuiltValid
<1> QED
  BY InvInit, InvNext, <1>1, PTL DEF Spec

\* BaseFee follows the gas used, when nothing wraps.
LEMMA FeeFollows ==
  ASSUME NEW fee \in u64, NEW used \in Nat, NEW target \in Nat \ {0},
         fee + fee * Magnitude(used - target) < U64
  PROVE  Follows(fee, used, target, BaseFee(target, used, fee))
<1>1. fee \in Nat /\ fee < U64
  BY FeeAssumption DEF u64
<1>2. CASE used = target
  BY <1>1, <1>2, FeeAssumption DEF BaseFee, Follows, Magnitude
<1>3. CASE used > target
  <2> DEFINE dist == used - target
             d == base_fee_per_gas_delta(fee, dist, target)
  <2>1. dist \in Nat /\ dist > 0 /\ Magnitude(dist) = dist
    BY <1>3 DEF Magnitude
  <2>2. /\ d \in Nat
        /\ d * BASE_FEE_MAX_CHANGE_DENOMINATOR * target <= fee * dist
        /\ d <= fee * dist
    <3> HIDE DEF dist
    <3> QED BY <1>1, <2>1, FeeDelta, ZenonT(60)
  <2>3. BaseFee(target, used, fee) = Wrap(fee + Larger(1, d))
    BY <1>3 DEF BaseFee
  <2>4. fee + fee * dist < U64
    BY <2>1
  <2> HIDE DEF dist, d
  <2>5. fee * dist \in Nat /\ (fee > 0 => fee * dist >= 1)
    BY <1>1, <2>1
  <2>6. fee + Larger(1, d) \in u64
    BY <1>1, <2>2, <2>4, <2>5, FeeAssumption DEF Larger, u64
  <2>7. BaseFee(target, used, fee) = fee + Larger(1, d)
    <3>1. fee + Larger(1, d) \in Int
      BY <1>1, <2>2 DEF Larger
    <3> QED BY <3>1, <2>3, <2>6, Wrapping
  <2>8. CASE d >= 1
    <3>1. BaseFee(target, used, fee) - fee = d /\ Magnitude(d) = d
      BY <2>2, <2>7, <2>8, <1>1 DEF Larger, Magnitude
    <3> QED
      BY <3>1, <2>1, <2>2, <2>8 DEF Follows, dist
  <2>9. CASE d = 0
    <3>1. BaseFee(target, used, fee) - fee = 1
      BY <2>7, <2>9, <1>1 DEF Larger
    <3> QED
      BY <3>1, <2>1 DEF Follows, dist
  <2> QED
    BY <2>2, <2>8, <2>9
<1>4. CASE used < target
  <2> DEFINE dist == target - used
             d == base_fee_per_gas_delta(fee, dist, target)
  <2>1. dist \in Nat /\ dist > 0 /\ Magnitude(used - target) = dist /\ dist <= target
    BY <1>4 DEF Magnitude
  <2>2. /\ d \in Nat
        /\ d * BASE_FEE_MAX_CHANGE_DENOMINATOR * target <= fee * dist
    <3> HIDE DEF dist
    <3> QED BY <1>1, <2>1, FeeDelta, ZenonT(60)
  <2>3. BaseFee(target, used, fee) = fee - d
    BY <1>4 DEF BaseFee
  <2> HIDE DEF d
  <2>4. BaseFee(target, used, fee) - fee = -d /\ Magnitude(-d) = d /\ -d <= 0
    BY <1>1, <2>2, <2>3 DEF Magnitude
  <2> QED
    BY <2>1, <2>2, <2>4, <1>4 DEF Follows
<1> QED
  BY <1>2, <1>3, <1>4

\* The base fee of every block of the chain follows the gas its parent used
\* (calculate_base_fee_per_gas, as validate_block_header applies it).
THEOREM BaseFeeAlwaysFollows == Spec => BaseFeeFollows
<1> DEFINE target == header.gas_limit \div ELASTICITY_MULTIPLIER
           fee == unwrap_or(header.base_fee_per_gas, INITIAL_BASE_FEE)
           next_fee == unwrap_or(header'.base_fee_per_gas, INITIAL_BASE_FEE)
           Step == header' # header /\ fee + fee * Magnitude(header.gas_used - target) < U64 =>
                     target > 0 /\ Follows(fee, header.gas_used, target, next_fee)
<1>1. Inv /\ Inv' /\ [Next]_vars => [Step]_vars
  <2> SUFFICES ASSUME Inv, Inv', Next, header' # header,
                      fee + fee * Magnitude(header.gas_used - target) < U64
               PROVE  target > 0 /\ Follows(fee, header.gas_used, target, next_fee)
    BY DEF vars
  <2>1. \E blobs : validate_block(header', blobs, header)
    BY DEF Next, add_transaction, add_block, forkchoice_updated, propose, new_payload
  <2>2. validate_block_header(header', header)
    BY <2>1 DEF validate_block
  <2>3. /\ header.gas_limit \in u64 /\ header.gas_used \in u64 /\ header'.gas_limit \in u64
        /\ header.base_fee_per_gas \in u64 \cup {None}
    BY DEF Inv, TypeOK, Header
  <2>4. fee \in u64 /\ header.gas_used \in Nat
    <3>1. fee \in u64
      BY <2>3, Defaults, Unwrapped
    <3>2. header.gas_used \in Nat
      BY <2>3, FeeAssumption DEF u64
    <3> QED
      BY <3>1, <3>2
  <2>5. /\ calculate_base_fee_per_gas(header'.gas_limit, header.gas_limit, header.gas_used, fee)
             # None
        /\ calculate_base_fee_per_gas(header'.gas_limit, header.gas_limit, header.gas_used, fee)
             = next_fee
    BY <2>2 DEF validate_block_header
  <2>6. check_gas_limit(header'.gas_limit, header.gas_limit)
    <3> HIDE DEF fee
    <3> QED BY <2>5 DEF calculate_base_fee_per_gas
  <2>7. next_fee = BaseFee(target, header.gas_used, fee)
    <3> HIDE DEF fee, next_fee
    <3> QED BY <2>5, <2>6 DEF calculate_base_fee_per_gas
  <2>8. target \in Nat \ {0}
    BY <2>3, <2>6, CheckedLimit
  <2> HIDE DEF fee, next_fee, target
  <2> QED
    BY <2>4, <2>7, <2>8, FeeFollows
<1>2. BaseFeeFollows <=> [][Step]_vars
  BY DEF BaseFeeFollows
<1> QED
  BY InvInit, InvNext, <1>1, <1>2, PTL DEF Spec

----------------------------------------------------------------------------
(* The pool                                                                  *)

Gas == Nat \cup {None}

\* A checked sum is the sum, or an overflow that its arguments pass on.
LEMMA CheckedSum ==
  ASSUME NEW gas \in Gas, NEW cost \in Nat
  PROVE  /\ checked_add(gas, cost) \in Gas
         /\ checked_add(gas, cost) # None =>
              gas # None /\ checked_add(gas, cost) = gas + cost
BY FeeAssumption DEF checked_add, Gas, None

\* A sum of no more than what can be added can be added, and is no more.
LEMMA CheckedSumIsMonotone ==
  ASSUME NEW gas \in Gas, NEW less \in Gas, NEW cost \in Nat, NEW less_cost \in Nat,
         less # None, less <= gas, less_cost <= cost,
         checked_add(gas, cost) # None
  PROVE  /\ checked_add(less, less_cost) # None
         /\ checked_add(less, less_cost) <= checked_add(gas, cost)
BY FeeAssumption DEF checked_add, Gas, None

\* What a transaction needs by the rules in force, the words of its init code
\* left aside.
StartGas(tx) == IF is_contract_creation(tx) THEN TX_CREATE_GAS_COST ELSE TX_GAS_COST
Needs(tx, at) == AccessListGas(tx, DataGas(tx, at, StartGas(tx)))

ByteGas(at) ==
  IF is_istanbul_activated(at.number) THEN TX_DATA_NON_ZERO_GAS_EIP2028 ELSE TX_DATA_NON_ZERO_GAS

\* The prices and the sizes are numbers.
LEMMA Prices ==
  ASSUME NEW tx \in Transactions, NEW at
  PROVE  /\ StartGas(tx) \in Nat
         /\ Wrap(tx.others * ByteGas(at)) \in Nat
         /\ Wrap(tx.zeros * TX_DATA_ZERO_GAS_COST) \in Nat
         /\ Wrap(access_list(tx).addresses * TX_ACCESS_LIST_ADDRESS_GAS) \in Nat
         /\ Wrap(access_list(tx).keys * TX_ACCESS_LIST_STORAGE_KEY_GAS) \in Nat
         /\ Wrap(((data_len(tx) + INIT_CODE_WORD - 1) \div INIT_CODE_WORD)
                 * TX_INIT_CODE_WORD_GAS_COST) \in Nat
<1>1. /\ tx.zeros \in Nat /\ tx.others \in Nat
      /\ tx.list.addresses \in Nat /\ tx.list.keys \in Nat
  BY TransactionAssumption
<1>2. u64 \subseteq Nat
  BY FeeAssumption DEF u64
<1>3. /\ TX_GAS_COST \in Nat /\ TX_CREATE_GAS_COST \in Nat /\ TX_DATA_ZERO_GAS_COST \in Nat
      /\ TX_DATA_NON_ZERO_GAS \in Nat /\ TX_DATA_NON_ZERO_GAS_EIP2028 \in Nat
      /\ TX_INIT_CODE_WORD_GAS_COST \in Nat
      /\ TX_ACCESS_LIST_ADDRESS_GAS \in Nat /\ TX_ACCESS_LIST_STORAGE_KEY_GAS \in Nat
      /\ INIT_CODE_WORD \in Nat \ {0}
  BY <1>2, TransactionAssumption, ZenonT(60)
<1>4. access_list(tx).addresses \in Nat /\ access_list(tx).keys \in Nat
  BY <1>1 DEF access_list
<1>5. data_len(tx) + INIT_CODE_WORD - 1 \in Nat
  BY <1>1, <1>3 DEF data_len
<1>6. (data_len(tx) + INIT_CODE_WORD - 1) \div INIT_CODE_WORD \in Nat
  BY <1>3, <1>5, Division
<1>7. ASSUME NEW x \in Nat, NEW y \in Nat PROVE Wrap(x * y) \in Nat
  <2>1. x * y \in Int
    OBVIOUS
  <2> QED
    BY <1>2, <2>1, Wrapping, ZenonT(60)
<1> QED
  BY <1>1, <1>3, <1>4, <1>6, <1>7 DEF StartGas, ByteGas

\* What a transaction pays in all is what it needs, or more.
LEMMA IntrinsicCovers ==
  ASSUME NEW tx \in Transactions, NEW at, transaction_intrinsic_gas(tx, at) # None
  PROVE  /\ Needs(tx, at) # None
         /\ Needs(tx, at) \in Gas
         /\ transaction_intrinsic_gas(tx, at) \in Gas
         /\ Needs(tx, at) <= transaction_intrinsic_gas(tx, at)
<1> DEFINE others == Wrap(tx.others * ByteGas(at))
           zeros == Wrap(tx.zeros * TX_DATA_ZERO_GAS_COST)
           words == Wrap(((data_len(tx) + INIT_CODE_WORD - 1) \div INIT_CODE_WORD)
                         * TX_INIT_CODE_WORD_GAS_COST)
           addresses == Wrap(access_list(tx).addresses * TX_ACCESS_LIST_ADDRESS_GAS)
           keys == Wrap(access_list(tx).keys * TX_ACCESS_LIST_STORAGE_KEY_GAS)
           data == DataGas(tx, at, StartGas(tx))
           code == InitCodeGas(tx, at, data)
<1>1. /\ others \in Nat /\ zeros \in Nat /\ words \in Nat /\ addresses \in Nat /\ keys \in Nat
      /\ StartGas(tx) \in Gas
  BY Prices DEF Gas
<1>2. data = checked_add(checked_add(StartGas(tx), others), zeros)
  BY DEF DataGas, ByteGas
<1>3. code = data \/ code = checked_add(data, words)
  BY DEF InitCodeGas
<1>4. /\ transaction_intrinsic_gas(tx, at) = checked_add(checked_add(code, addresses), keys)
      /\ Needs(tx, at) = checked_add(checked_add(data, addresses), keys)
  BY DEF transaction_intrinsic_gas, AccessListGas, Needs, StartGas
<1> HIDE DEF others, zeros, words, addresses, keys, data, code
<1>5. data \in Gas
  BY <1>1, <1>2, CheckedSum
<1>6. code \in Gas /\ (code # None => data # None /\ data <= code)
  BY <1>1, <1>3, <1>5, CheckedSum DEF Gas, None
<1>7. checked_add(code, addresses) # None /\ code # None
  BY <1>1, <1>4, <1>6, CheckedSum
<1>8. /\ checked_add(data, addresses) # None
      /\ checked_add(data, addresses) <= checked_add(code, addresses)
      /\ checked_add(data, addresses) \in Gas /\ checked_add(code, addresses) \in Gas
  BY <1>1, <1>5, <1>6, <1>7, CheckedSum, CheckedSumIsMonotone
<1> QED
  BY <1>1, <1>4, <1>8, CheckedSum, CheckedSumIsMonotone

\* The rules of a later block ask no more: Istanbul lowers the price of a byte.
LEMMA NeedsFall ==
  ASSUME NEW tx \in Transactions, NEW at, NEW later,
         at.number \in Nat, later.number \in Nat, at.number <= later.number,
         Needs(tx, at) # None
  PROVE  /\ Needs(tx, later) # None
         /\ Needs(tx, at) \in Gas /\ Needs(tx, later) \in Gas
         /\ Needs(tx, later) <= Needs(tx, at)
<1> DEFINE before == Wrap(tx.others * ByteGas(at))
           after == Wrap(tx.others * ByteGas(later))
           zeros == Wrap(tx.zeros * TX_DATA_ZERO_GAS_COST)
           addresses == Wrap(access_list(tx).addresses * TX_ACCESS_LIST_ADDRESS_GAS)
           keys == Wrap(access_list(tx).keys * TX_ACCESS_LIST_STORAGE_KEY_GAS)
           some == checked_add(StartGas(tx), before)
           less == checked_add(StartGas(tx), after)
<1>1. /\ before \in Nat /\ after \in Nat
      /\ zeros \in Nat /\ addresses \in Nat /\ keys \in Nat /\ StartGas(tx) \in Gas
      /\ StartGas(tx) # None
  BY Prices DEF Gas, None
<1>2. after <= before
  <2>1. /\ tx.others \in Nat
        /\ TX_DATA_NON_ZERO_GAS \in Nat /\ TX_DATA_NON_ZERO_GAS_EIP2028 \in Nat
    BY TransactionAssumption, FeeAssumption DEF u64
  <2>2. /\ ByteGas(at) \in Nat /\ ByteGas(later) \in Nat
        /\ ByteGas(later) <= ByteGas(at) /\ ByteGas(at) <= TX_DATA_NON_ZERO_GAS
    <3>1. is_istanbul_activated(at.number) => is_istanbul_activated(later.number)
      BY TransactionAssumption DEF is_istanbul_activated, None
    <3> QED
      BY <2>1, <3>1, TransactionAssumption DEF ByteGas
  <2>3. /\ tx.others * ByteGas(later) \in Nat /\ tx.others * ByteGas(at) \in Nat
        /\ tx.others * ByteGas(later) <= tx.others * ByteGas(at)
        /\ tx.others * ByteGas(at) <= tx.others * TX_DATA_NON_ZERO_GAS
    BY <2>1, <2>2
  <2>4. tx.others * TX_DATA_NON_ZERO_GAS < U64
    BY TransactionAssumption
  <2>5. tx.others * ByteGas(later) \in u64 /\ tx.others * ByteGas(at) \in u64
    BY <2>1, <2>3, <2>4, FeeAssumption DEF u64
  <2> QED
    BY <2>3, <2>5, Wrapping
<1>3. /\ Needs(tx, at) =
           checked_add(checked_add(checked_add(some, zeros), addresses), keys)
      /\ Needs(tx, later) =
           checked_add(checked_add(checked_add(less, zeros), addresses), keys)
  BY DEF Needs, AccessListGas, DataGas, ByteGas
<1> HIDE DEF before, after, zeros, addresses, keys
<1>4. some \in Gas /\ less \in Gas
  BY <1>1, CheckedSum
<1> DEFINE some2 == checked_add(some, zeros)
           less2 == checked_add(less, zeros)
           some3 == checked_add(some2, addresses)
           less3 == checked_add(less2, addresses)
<1>5. some2 \in Gas /\ less2 \in Gas
  <2> HIDE DEF some, less
  <2> QED BY <1>1, <1>4, CheckedSum
<1>6. some3 \in Gas /\ less3 \in Gas
  <2> HIDE DEF some2, less2
  <2> QED BY <1>1, <1>5, CheckedSum
<1>7. some # None /\ some2 # None /\ some3 # None
  <2>1. some3 # None
    <3> HIDE DEF some3
    <3> QED BY <1>1, <1>3, <1>6, CheckedSum DEF some3
  <2>2. some2 # None
    <3> HIDE DEF some2
    <3> QED BY <1>1, <1>5, <2>1, CheckedSum
  <2>3. some # None
    <3> HIDE DEF some
    <3> QED BY <1>1, <1>4, <2>2, CheckedSum
  <2> QED
    BY <2>1, <2>2, <2>3
<1>8. less # None /\ less <= some
  BY <1>1, <1>2, <1>7, CheckedSumIsMonotone DEF Gas
<1>9. less2 # None /\ less2 <= some2
  <2> HIDE DEF some, less
  <2> QED BY <1>1, <1>4, <1>7, <1>8, CheckedSumIsMonotone
<1>10. less3 # None /\ less3 <= some3
  <2> HIDE DEF some2, less2
  <2> QED BY <1>1, <1>5, <1>7, <1>9, CheckedSumIsMonotone
<1>11. Needs(tx, at) = checked_add(some3, keys) /\ Needs(tx, later) = checked_add(less3, keys)
  BY <1>3
<1> HIDE DEF some3, less3
<1> QED
  BY <1>1, <1>6, <1>10, <1>11, CheckedSum, CheckedSumIsMonotone

\* A step leaves the latest header alone, or moves to one with the next number:
\* numbers do not wrap before timestamps run out.
LEMMA NumberGrows ==
  ASSUME Inv, [Next]_vars
  PROVE  header' = header \/ header'.number = header.number + 1
<1> SUFFICES ASSUME header' # header PROVE header'.number = header.number + 1
  OBVIOUS
<1>1. \E blobs : validate_block(header', blobs, header)
  BY DEF Next, vars, add_transaction, add_block, forkchoice_updated, propose, new_payload
<1>2. /\ header'.number = Wrap(header.number + 1)
      /\ header'.timestamp > header.timestamp
  BY <1>1 DEF validate_block, validate_block_header
<1>3. /\ header'.timestamp \in 0 .. MaxTime /\ header.timestamp \in 0 .. MaxTime
      /\ header.number \in u64 /\ header.number <= header.timestamp
  <2>1. Inv'
    BY InvNext
  <2> QED
    BY <2>1 DEF Inv, TypeOK, Header
<1>4. header.number + 1 \in u64
  BY <1>2, <1>3, MarketAssumption, FeeAssumption DEF u64
<1>5. header.number + 1 \in Int
  BY <1>3, FeeAssumption DEF u64
<1> QED
  BY <1>2, <1>4, <1>5, Wrapping

\* What was checked once when a transaction came, kept by the rules that follow.
PoolInv == \A tx \in pool : Covers(tx.gas, Needs(tx, header))

\* No step, of the pool or of the chain, takes the gas it needs from a pooled
\* transaction.
LEMMA PoolNext == Inv /\ PoolInv /\ [Next]_vars => PoolInv'
<1> SUFFICES ASSUME Inv, PoolInv, [Next]_vars, NEW tx \in pool'
             PROVE  Covers(tx.gas, Needs(tx, header'))
  BY ZenonT(60) DEF PoolInv, Covers, Needs, AccessListGas, DataGas, StartGas
<1>1. pool' \subseteq Transactions
  BY InvNext DEF Inv, TypeOK
<1>2. tx.gas \in Nat
  BY <1>1, TransactionAssumption, FeeAssumption DEF u64
<1>3. Covers(tx.gas, Needs(tx, header))
  <2>1. CASE tx \in pool
    BY <2>1 DEF PoolInv
  <2>2. CASE tx \notin pool
    <3>1. validate_transaction(tx)
      BY <2>2 DEF Next, vars, add_transaction, add_block, forkchoice_updated, propose
    <3>2. /\ transaction_intrinsic_gas(tx, header) # None
          /\ tx.gas >= transaction_intrinsic_gas(tx, header)
      BY <3>1 DEF validate_transaction
    <3>3. /\ Needs(tx, header) # None
          /\ Needs(tx, header) \in Gas
          /\ transaction_intrinsic_gas(tx, header) \in Gas
          /\ Needs(tx, header) <= transaction_intrinsic_gas(tx, header)
      BY <1>1, <3>2, IntrinsicCovers
    <3> QED
      BY <1>2, <3>2, <3>3 DEF Covers, Gas, None
  <2> QED
    BY <2>1, <2>2
<1>4. CASE header' = header
  BY <1>3, <1>4
<1>5. CASE header'.number = header.number + 1
  <2>1. header.number \in Nat
    BY FeeAssumption DEF Inv, TypeOK, Header, u64
  <2>2. Needs(tx, header) # None /\ tx.gas >= Needs(tx, header)
    BY <1>3 DEF Covers
  <2>3. header'.number \in Nat /\ header.number <= header'.number
    BY <1>5, <2>1
  <2>4. /\ Needs(tx, header') # None
        /\ Needs(tx, header) \in Gas /\ Needs(tx, header') \in Gas
        /\ Needs(tx, header') <= Needs(tx, header)
    BY <1>1, <2>1, <2>2, <2>3, NeedsFall
  <2> QED
    BY <1>2, <2>2, <2>4 DEF Covers, Gas, None
<1> QED
  BY <1>4, <1>5, NumberGrows

\* Every pooled transaction still has the gas for its data and access list by the
\* rules of the latest block, though validate_transaction is not repeated when the
\* rules change: for any prices, transactions and chain of blocks, whenever
\* Istanbul and Shanghai come.
THEOREM PoolStaysCovered == Spec => []PoolCovered
<1>1. Init => PoolInv
  BY DEF Init, PoolInv
<1>2. Inv /\ PoolInv => PoolCovered
  <2> SUFFICES ASSUME Inv, PoolInv, NEW tx \in pool,
                      ~ Covers(tx.gas, transaction_intrinsic_gas(tx, header))
               PROVE  /\ is_contract_creation(tx)
                      /\ is_shanghai_activated(header.timestamp)
                      /\ Covers(tx.gas,
                           AccessListGas(tx, DataGas(tx, header, TX_CREATE_GAS_COST)))
    BY DEF PoolCovered
  <2>1. Covers(tx.gas, Needs(tx, header))
    BY DEF PoolInv
  <2>2. InitCodeGas(tx, header, DataGas(tx, header, StartGas(tx)))
          # DataGas(tx, header, StartGas(tx))
    BY <2>1 DEF Needs, transaction_intrinsic_gas, StartGas
  <2>3. is_contract_creation(tx) /\ is_shanghai_activated(header.timestamp)
    BY <2>2 DEF InitCodeGas
  <2> QED
    BY <2>1, <2>3 DEF Needs, StartGas
<1> QED
  BY InvInit, InvNext, PoolNext, <1>1, <1>2, PTL DEF Spec
=============================================================================
