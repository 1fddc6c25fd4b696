------------------------------- MODULE MCFees -------------------------------
(* A fee market for TLC: bounds and prices a hundredth of the code's or less. *)
EXTENDS BlobFees

\* A genesis file below the lowest limit a chain can start from, at it, and
\* above the minimum; with a fee that soon overflows, and one that makes the
\* next fee the initial one.
MCGenesis ==
  {[timestamp |-> g[1], gas_limit |-> g[2], base_fee_per_gas |-> g[3],
    blob_gas_used |-> g[4], excess_blob_gas |-> g[5]] :
     g \in { <<1, 5, None, None, None>>, <<3, 36, 8, None, None>>, <<2, 37, None, None, None>>,
             <<0, 40, 8, None, None>>, <<1, 46, 48, None, None>>, <<2, 47, 8, 12, 18>> }}

MCGasUsed(limit) == {0, limit \div 2, limit, limit + 1}

Tx(type, gas, create, zeros, others, addresses, keys, tip, cap, blob_fee) ==
  [type |-> type, gas |-> gas, create |-> create, zeros |-> zeros, others |-> others,
   list |-> [addresses |-> addresses, keys |-> keys], tip |-> tip, cap |-> cap,
   blob_fee |-> blob_fee]

\* A call, a creation that has the gas for its data and not for the words of its
\* init code, and ones that are refused: for the gas of their lists and
\* data (some of them only before Istanbul), the tip, the blob fee, and a sum of
\* gas or a length of init code that is too large.
MCTransactions ==
  {Tx("legacy", 10, FALSE, 2, 2, 1, 1, 0, 0, None),
   Tx("eip2930", 15, FALSE, 1, 3, 2, 1, 0, 0, None),
   Tx("eip2930", 23, TRUE, 1, 3, 1, 1, 0, 0, None),
   Tx("eip1559", 40, FALSE, 0, 3, 1, 2, 3, 2, None),
   Tx("eip4844", 36, TRUE, 0, 4, 0, 2, 1, 2, 0),
   Tx("eip1559", 40, TRUE, 0, 250, 1, 0, 1, 2, None)}
=============================================================================
