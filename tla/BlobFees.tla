------------------------------ MODULE BlobFees ------------------------------
(* The base fee of blob gas (core/types/block.rs), which eth_blobBaseFee,    *)
(* eth_feeHistory and the receipts report for the chain of FeeMarket.        *)
EXTENDS FeeMarket

CONSTANTS BLOB_BASE_FEE_UPDATE_FRACTION

\* The terms of the exponential from the i-th on; Width is where a product wraps.
RECURSIVE Terms(_, _, _, _, _)
Terms(numerator_accum, numerator, denominator, i, Width) ==
  IF numerator_accum = 0 THEN 0
  ELSE numerator_accum
       + Terms(((numerator_accum * numerator) % Width) \div (denominator * i),
               numerator, denominator, i + 1, Width)

\* Faulty variant: the products are kept in one bit less.
fake_exponential_narrow(factor, numerator, denominator) ==
  Terms(factor * denominator, numerator, denominator, 1, U64 \div 2) \div denominator

fake_exponential(factor, numerator, denominator) ==
  Wrap(Terms(factor * denominator, numerator, denominator, 1, U64)) \div denominator

calculate_base_fee_per_blob_gas(parent_header) ==
  fake_exponential(MIN_BASE_FEE_PER_BLOB_GAS, unwrap_or(parent_header.excess_blob_gas, 0),
                   BLOB_BASE_FEE_UPDATE_FRACTION)

\* No product overflows for an excess up to this one.
RECURSIVE Fits(_, _, _)
Fits(accum, excess, i) ==
  accum = 0 \/ (/\ accum * excess < U64
                /\ Fits((accum * excess) \div (BLOB_BASE_FEE_UPDATE_FRACTION * i), excess, i + 1))

\* A chain whose excess blob gas grows never has its blob fee lowered, and one
\* whose excess falls never has it raised, for as long as the products of the
\* exponential fit a u64; beyond that the fee is what is left of them
\* (fake_exponential).
BlobFeeFollows ==
  [][LET excess == unwrap_or(header.excess_blob_gas, 0)
         next_excess == unwrap_or(header'.excess_blob_gas, 0)
         fee == calculate_base_fee_per_blob_gas(header)
         next_fee == calculate_base_fee_per_blob_gas(header')
         first == MIN_BASE_FEE_PER_BLOB_GAS * BLOB_BASE_FEE_UPDATE_FRACTION
     IN  header' # header /\ Fits(first, excess, 1) /\ Fits(first, next_excess, 1) =>
           /\ excess <= next_excess => fee <= next_fee
           /\ next_excess <= excess => next_fee <= fee]_vars
=============================================================================
