----------------------------- MODULE FeeMarket -----------------------------
(* A chain that grows by the header rules of FeeRules, the payloads that the *)
(* node builds on it and gets back from the consensus client, and the pool   *)
(* of transactions that are checked against its latest header                *)
(* (blockchain/mempool.rs).                                                  *)
(*                                                                           *)
(* header is the header of the latest block, payload holds the last payload  *)
(* that was built, with its parent (the store keeps them all; no two of them *)
(* interact), and pool the accepted transactions.                            *)
EXTENDS FeeRules, FiniteSets

CONSTANTS
  Genesis,                        \* the genesis files: limit, fee, blob fields and time
  GasLimits,                      \* the gas limits blocks from elsewhere have
  GasUsed(_),                     \* the gas used they have, for a limit
  Blobs,                          \* the numbers of blobs in them
  Transactions,                   \* what is sent to the pool
  MaxTime,                        \* bound: the last timestamp
  TX_GAS_COST, TX_CREATE_GAS_COST, TX_DATA_ZERO_GAS_COST, TX_DATA_NON_ZERO_GAS,
  TX_DATA_NON_ZERO_GAS_EIP2028, TX_INIT_CODE_WORD_GAS_COST, MAX_INITCODE_SIZE,
  TX_ACCESS_LIST_ADDRESS_GAS, TX_ACCESS_LIST_STORAGE_KEY_GAS,
  INIT_CODE_WORD,                 \* 32
  MIN_BASE_FEE_PER_BLOB_GAS,
  istanbul_block

u64 == 0 .. U64 - 1

ASSUME MarketAssumption ==
  /\ MaxTime \in u64
  /\ GasLimits \subseteq u64
  /\ \A gas_limit \in GasLimits : GasUsed(gas_limit) \subseteq u64
  /\ Blobs \subseteq Nat
  /\ Genesis \subseteq [timestamp : 0 .. MaxTime, gas_limit : u64,
                        base_fee_per_gas : u64 \cup {None}, blob_gas_used : u64 \cup {None},
                        excess_blob_gas : u64 \cup {None}]

\* What the sender of a transaction chooses, and the prices of the code.  A data
\* byte costs less since Istanbul, and no data is so long that its price wraps:
\* at 68 a byte that takes 2^57 bytes, more than a node has memory for.
ASSUME TransactionAssumption ==
  /\ Transactions \subseteq
       [type : {"legacy", "eip2930", "eip1559", "eip4844"}, gas : u64, create : BOOLEAN,
        zeros : Nat, others : Nat, list : [addresses : Nat, keys : Nat],
        tip : u64, cap : u64, blob_fee : u64 \cup {None}]
  /\ {TX_GAS_COST, TX_CREATE_GAS_COST, TX_DATA_ZERO_GAS_COST, TX_DATA_NON_ZERO_GAS,
      TX_DATA_NON_ZERO_GAS_EIP2028, TX_INIT_CODE_WORD_GAS_COST,
      TX_ACCESS_LIST_ADDRESS_GAS, TX_ACCESS_LIST_STORAGE_KEY_GAS} \subseteq u64
  /\ TX_DATA_NON_ZERO_GAS_EIP2028 <= TX_DATA_NON_ZERO_GAS
  /\ INIT_CODE_WORD \in Nat \ {0}
  /\ istanbul_block \in Nat \cup {None}
  /\ \A tx \in Transactions : tx.others * TX_DATA_NON_ZERO_GAS < U64

VARIABLES header, payload, pool

vars == <<header, payload, pool>>

----------------------------------------------------------------------------
(* The pool                                                                  *)

is_istanbul_activated(number) == istanbul_block # None /\ istanbul_block <= number

\* A transaction has its size as the numbers of its zero and other bytes and
\* of the addresses and keys of its access list, and a fee field that its type
\* lacks is None.
max_priority_fee(tx) == IF tx.type \in {"eip1559", "eip4844"} THEN tx.tip ELSE None
max_fee_per_gas(tx) == IF tx.type \in {"eip1559", "eip4844"} THEN tx.cap ELSE None
max_fee_per_blob_gas(tx) == IF tx.type = "eip4844" THEN tx.blob_fee ELSE None
is_contract_creation(tx) == tx.type # "eip4844" /\ tx.create
data_len(tx) == tx.zeros + tx.others
access_list(tx) == IF tx.type = "legacy" THEN [addresses |-> 0, keys |-> 0] ELSE tx.list

\* None is an overflow: of a sum, never noticed of a product.
checked_add(gas, cost) == IF gas = None \/ gas + cost >= U64 THEN None ELSE gas + cost

DataGas(tx, at, gas) ==
  checked_add(
    checked_add(gas,
      Wrap(tx.others * (IF is_istanbul_activated(at.number)
                        THEN TX_DATA_NON_ZERO_GAS_EIP2028 ELSE TX_DATA_NON_ZERO_GAS))),
    Wrap(tx.zeros * TX_DATA_ZERO_GAS_COST))

InitCodeGas(tx, at, gas) ==
  IF data_len(tx) > 0 /\ is_contract_creation(tx) /\ is_shanghai_activated(at.timestamp)
  THEN checked_add(gas, Wrap(((data_len(tx) + INIT_CODE_WORD - 1) \div INIT_CODE_WORD)
                             * TX_INIT_CODE_WORD_GAS_COST))
  ELSE gas

AccessListGas(tx, gas) ==
  checked_add(
    checked_add(gas, Wrap(access_list(tx).addresses * TX_ACCESS_LIST_ADDRESS_GAS)),
    Wrap(access_list(tx).keys * TX_ACCESS_LIST_STORAGE_KEY_GAS))

transaction_intrinsic_gas(tx, at) ==
  AccessListGas(tx,
    InitCodeGas(tx, at,
      DataGas(tx, at, IF is_contract_creation(tx) THEN TX_CREATE_GAS_COST ELSE TX_GAS_COST)))

\* Faulty variant: the access list is left out of the gas a transaction needs.
validate_transaction_unlisted(tx) ==
  /\ header.gas_limit >= tx.gas
  /\ unwrap_or(max_priority_fee(tx), 0) <= unwrap_or(max_fee_per_gas(tx), 0)
  /\ tx.gas >= InitCodeGas(tx, header, DataGas(tx, header,
                 IF is_contract_creation(tx) THEN TX_CREATE_GAS_COST ELSE TX_GAS_COST))

validate_transaction(tx) ==
  LET intrinsic_gas == transaction_intrinsic_gas(tx, header)
  IN  /\ ~ /\ is_shanghai_activated(header.timestamp)
           /\ is_contract_creation(tx)
           /\ data_len(tx) > MAX_INITCODE_SIZE
      /\ header.gas_limit >= tx.gas
      /\ unwrap_or(max_priority_fee(tx), 0) <= unwrap_or(max_fee_per_gas(tx), 0)
      /\ intrinsic_gas # None
      /\ tx.gas >= intrinsic_gas
      /\ max_fee_per_blob_gas(tx) # None => max_fee_per_blob_gas(tx) >= MIN_BASE_FEE_PER_BLOB_GAS

\* Nothing ever leaves the pool.
add_transaction ==
  \E tx \in Transactions :
    /\ validate_transaction(tx)
    /\ pool' = pool \cup {tx}
    /\ UNCHANGED <<header, payload>>

----------------------------------------------------------------------------
(* The chain                                                                 *)

\* Genesis::get_block_header.
get_block_header(genesis) ==
  LET cancun == is_cancun_activated(genesis.timestamp)
  IN  [number |-> 0,
       timestamp |-> genesis.timestamp,
       gas_limit |-> genesis.gas_limit,
       gas_used |-> 0,
       base_fee_per_gas |-> unwrap_or(genesis.base_fee_per_gas, INITIAL_BASE_FEE),
       withdrawals_root |-> is_shanghai_activated(genesis.timestamp),
       blob_gas_used |-> IF cancun THEN unwrap_or(genesis.blob_gas_used, 0) ELSE None,
       excess_blob_gas |-> IF cancun THEN unwrap_or(genesis.excess_blob_gas, 0) ELSE None,
       parent_beacon_block_root |-> cancun]

Init ==
  /\ \E genesis \in Genesis : header = get_block_header(genesis)
  /\ payload = {}
  /\ pool = {}

\* A block from elsewhere: any other number, base fee and excess are refused.
Offered(gas_limit, gas_used, timestamp, blobs, cancun, base_fee) ==
  [number |-> Wrap(header.number + 1),
   timestamp |-> timestamp,
   gas_limit |-> gas_limit,
   gas_used |-> gas_used,
   base_fee_per_gas |->
     IF base_fee
     THEN calculate_base_fee_per_gas(gas_limit, header.gas_limit, header.gas_used,
            unwrap_or(header.base_fee_per_gas, INITIAL_BASE_FEE))
     ELSE None,
   withdrawals_root |-> is_shanghai_activated(timestamp),
   blob_gas_used |-> IF cancun THEN blobs * GAS_PER_BLOB ELSE None,
   excess_blob_gas |-> IF cancun THEN calc_excess_blob_gas(header) ELSE None,
   parent_beacon_block_root |-> cancun]

\* A block that is refused changes nothing.
add_block ==
  \E gas_limit \in GasLimits, timestamp \in header.timestamp + 1 .. MaxTime, blobs \in Blobs,
     cancun \in BOOLEAN, base_fee \in BOOLEAN :
    \E gas_used \in GasUsed(gas_limit) :
      LET block == Offered(gas_limit, gas_used, timestamp, blobs, cancun, base_fee)
      IN  /\ validate_block(block, blobs, header)
          /\ header' = block
          /\ UNCHANGED <<payload, pool>>

\* forkchoiceUpdatedV3 with attributes, on the latest block: their timestamp is
\* not compared with anything.
forkchoice_updated ==
  \E timestamp \in 0 .. MaxTime :
    /\ payload' = {[parent |-> header, block |-> build_payload(header, timestamp)]}
    /\ UNCHANGED <<header, pool>>

\* getPayloadV3 and newPayloadV3: the payload comes back while its parent is
\* still the latest block.
propose ==
  \E built \in payload :
    /\ built.parent = header
    /\ new_payload(built.block, header)
    /\ header' = built.block
    /\ UNCHANGED <<payload, pool>>

Next == add_transaction \/ add_block \/ forkchoice_updated \/ propose

Spec == Init /\ [][Next]_vars

----------------------------------------------------------------------------
(* What is claimed of the fee market.                                        *)

Header ==
  [number : u64, timestamp : 0 .. MaxTime, gas_limit : u64, gas_used : u64,
   base_fee_per_gas : u64 \cup {None}, withdrawals_root : BOOLEAN,
   blob_gas_used : u64 \cup {None}, excess_blob_gas : u64 \cup {None},
   parent_beacon_block_root : BOOLEAN]

\* Every number of a header, built or accepted, is a u64, and no block uses more
\* gas than its limit.
TypeOK ==
  /\ header \in Header
  /\ header.gas_used <= header.gas_limit
  /\ payload \subseteq [parent : Header, block : Header]
  /\ pool \subseteq Transactions

\* A gas limit exists that a child of the block may have.
Extendable(parent) == \E gas_limit \in u64 : check_gas_limit(gas_limit, parent.gas_limit)

\* The node accepts the payloads it builds: one for a later time, when Cancun is
\* active, comes through the engine API unchanged and passes the checks of its
\* own validator, provided the parent states its base fee and some block may
\* follow it at all (build_payload against validate_block and into_block).
BuiltAccepted ==
  \A built \in payload :
    (/\ built.parent.base_fee_per_gas # None
     /\ built.block.timestamp > built.parent.timestamp
     /\ is_cancun_activated(built.block.timestamp)
     /\ is_shanghai_activated(built.block.timestamp)
     /\ Extendable(built.parent))
    => new_payload(built.block, built.parent)

Magnitude(x) == IF x >= 0 THEN x ELSE -x

\* What the base fee of a block may be, given the gas its parent used.
Follows(fee, gas_used, target, next_fee) ==
  LET distance == gas_used - target
      change == next_fee - fee
  IN  /\ distance > 0 => change > 0
      /\ distance = 0 => change = 0
      /\ distance < 0 => change <= 0
      /\ \/ Magnitude(change) * BASE_FEE_MAX_CHANGE_DENOMINATOR * target
              <= fee * Magnitude(distance)
         \/ change = 1

\* The base fee of a block follows the gas its parent used: up by one at least
\* above the target, down or the same below it, and by no more than an eighth of
\* the fee times the relative distance from the target, as long as the fee and
\* its product with the distance fit a u64 together (calculate_base_fee_per_gas).
BaseFeeFollows ==
  [][LET target == header.gas_limit \div ELASTICITY_MULTIPLIER
         fee == unwrap_or(header.base_fee_per_gas, INITIAL_BASE_FEE)
         next_fee == unwrap_or(header'.base_fee_per_gas, INITIAL_BASE_FEE)
     IN  header' # header /\ fee + fee * Magnitude(header.gas_used - target) < U64 =>
           target > 0 /\ Follows(fee, header.gas_used, target, next_fee)]_vars

\* The gas pays a cost that did not overflow.
Covers(gas, cost) == cost # None /\ gas >= cost

\* A pooled transaction still has the gas for its data and access list by the
\* rules of the latest block, and the cost of the two has not come to overflow;
\* only a contract creation that was accepted before Shanghai may lack the gas
\* for the words of its init code (validate_transaction, which is not repeated
\* when the rules change).
PoolCovered ==
  \A tx \in pool :
    \/ Covers(tx.gas, transaction_intrinsic_gas(tx, header))
    \/ /\ is_contract_creation(tx)
       /\ is_shanghai_activated(header.timestamp)
       /\ Covers(tx.gas, AccessListGas(tx, DataGas(tx, header, TX_CREATE_GAS_COST)))
=============================================================================
