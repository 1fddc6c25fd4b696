---------------------------- MODULE GasEstimate ----------------------------
(* eth_estimateGas: the search for a gas limit with which a transaction      *)
(* succeeds (crates/rpc/eth/transaction.rs).  Of the transaction it matters  *)
(* how much gas it must be given (needed), how much it then uses after the   *)
(* refund, what the sender can pay for, and whether the account it is sent   *)
(* to exists.                                                                *)
EXTENDS Integers

CONSTANTS
  TRANSACTION_GAS,
  CALL_STIPEND,
  FAILED          \* the answer when the transaction cannot succeed

\* simulate_tx, for a gas limit: the block's limit is not looked at, the
\* sender's balance is.
simulate_tx(tx, limit) == tx.needed <= limit /\ (tx.priced => limit <= tx.affordable)

recap_with_account_balances(limit, tx) ==
  IF limit < tx.affordable THEN limit ELSE tx.affordable

\* Faulty variant: the two sides of the search are swapped.
Narrowed_swapped(tx, lowest, middle, highest) ==
  IF simulate_tx(tx, middle) THEN [lowest |-> middle, highest |-> highest]
  ELSE [lowest |-> lowest, highest |-> middle]

Narrowed(tx, lowest, middle, highest) ==
  IF simulate_tx(tx, middle) THEN [lowest |-> lowest, highest |-> middle]
  ELSE [lowest |-> middle, highest |-> highest]

\* The loop, until the bounds meet or are within ESTIMATE_ERROR_RATIO, 0.015.
RECURSIVE Search(_, _, _, _)
Search(tx, lowest, middle, highest) ==
  IF lowest + 1 >= highest \/ (highest - lowest) * 1000 < 15 * highest THEN highest
  ELSE LET tried == IF middle > lowest * 2 THEN lowest * 2 ELSE middle
           next == Narrowed(tx, lowest, tried, highest)
       IN  Search(tx, next.lowest, (next.highest + next.lowest) \div 2, next.highest)

\* A transfer to an account that does not exist is tried with the gas of a
\* plain transaction first.  The search begins near the gas used by a run with
\* the highest limit, which has to succeed.
estimate_gas(tx, gas_limit) ==
  LET highest == IF tx.priced THEN recap_with_account_balances(gas_limit, tx) ELSE gas_limit
      optimistic == ((tx.used + tx.refunded + CALL_STIPEND) * 64) \div 63
      lowest == IF tx.used = 0 THEN 0 ELSE tx.used - 1
  IN  IF tx.plain /\ simulate_tx(tx, TRANSACTION_GAS) THEN TRANSACTION_GAS
      ELSE IF ~simulate_tx(tx, highest) THEN FAILED
      ELSE Search(tx, lowest, (optimistic + lowest) \div 2, highest)
=============================================================================
