----------------------------- MODULE MCReaders -----------------------------
(***************************************************************************)
(* A block tree, fork choices and requests for model checking module       *)
(* Readers.                                                                *)
(***************************************************************************)
EXTENDS MCEngine, Readers

\* A fork above the block that is imported:   g --- a1 --- a2
\*                                                    \--- b2
HighNumber == "g" :> 0 @@ "a1" :> 1 @@ "a2" :> 2 @@ "b2" :> 2

HighParent == "g" :> None @@ "a1" :> "g" @@ "a2" :> "a1" @@ "b2" :> "a1"

HighVerdict == "g" :> "ok" @@ "a1" :> "ok" @@ "a2" :> "ok" @@ "b2" :> "ok"

HighBlocks == DOMAIN HighNumber

\* Adopt one sibling, finalize the block below it and build on it; go back, and
\* name a block as finalized that may be stored without being canonical.
HighAdoptions ==
    {Choice("a2", "a2", "a1", TRUE), Choice("a1", None, "a2", FALSE)}

\* One block.
JustOne == <<"a1">>

Asked(method, kind, number, blocks) ==
    [method |-> method, kind |-> kind, number |-> number, blocks |-> blocks]

\* Each method once or twice: a block by number, tag and hash, a transaction
\* that both siblings contain, ranges of logs and fees.
MCQueries ==
    {Asked("getBlock", "number", 2, {}),
     Asked("getBlock", "hash", 0, {"a2"}),
     Asked("getBlock", "pending", 0, {}),
     Asked("getRawHeader", "earliest", 0, {}),
     Asked("getTransactionAtHash", "hash", 0, {"b2"}),
     Asked("getTransactionCount", "safe", 0, {}),
     Asked("getRawBlock", "number", 1, {}),
     Asked("getRawTransaction", "transaction", 0, {"b2"}),
     Asked("createAccessList", "finalized", 0, {}),
     Asked("chainId", "number", 0, {}),
     Asked("getBlockReceipts", "finalized", 0, {}),
     Asked("getRawReceipts", "number", 0, {}),
     Asked("getTransactionReceipt", "transaction", 0, {"a2", "b2"}),
     Asked("getTransaction", "transaction", 0, {"a2", "b2"}),
     Asked("getTransactionAt", "safe", 0, {}),
     Asked("blockNumber", "latest", 0, {}),
     Asked("blobBaseFee", "latest", 0, {}),
     Asked("call", "latest", 0, {}),
     Asked("estimateGas", "safe", 0, {}),
     Asked("getAccount", "latest", 0, {}),
     Asked("getProof", "hash", 0, {"a2"}),
     Asked("getLogs", "latest", 1, {}),
     Asked("feeHistory", "number", 1, {}),
     Asked("exchangeConfig", "number", 2, {}),
     Asked("getPayload", "payload", 0, {"a2"})}

=============================================================================
