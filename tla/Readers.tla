------------------------------ MODULE Readers ------------------------------
(***************************************************************************)
(* The methods of the HTTP servers that only read the store (crates/rpc,   *)
(* eth, debug and the two readers of engine), while main and the handlers  *)
(* of module Engine write to it.  A method resolves what it was asked for  *)
(* to a block number and then reads the parts of its answer one store call *)
(* at a time; between two of them the store may change.                    *)
(*                                                                         *)
(* A transaction stands for the set of blocks that contain it, and every   *)
(* block but the genesis has one.  get_block_header and its like look the  *)
(* hash up in one transaction and the row in another; no row is deleted    *)
(* and a canonical block has them (CanonicalComplete), so they are one     *)
(* read here.                                                              *)
(***************************************************************************)
EXTENDS EngineSequential

CONSTANTS
    Reader,  \* requests for reading that the servers are working on
    Queries  \* what they may be asked

VARIABLE reader

allVars == <<vars, reader>>

(***************************************************************************)
(* What each method reads for one block, in order.                         *)
(***************************************************************************)
get_all_block_rpc_receipts == <<"parent", "receipt">>
get_all_block_receipts     == <<"receipt">>

GetBlock                          == <<"header", "body", "total">>
GetBlockTransactionCount          == <<"body">>
GetBlockReceipts                  == <<"header", "body">> \o get_all_block_rpc_receipts
GetRawHeader                      == <<"header">>
GetRawBlock                       == <<"header", "body">>
GetRawReceipts                    == <<"header", "body">> \o get_all_block_receipts
BlockNumber                       == <<>>
GetBlobBaseFee                    == <<"header", "parent">>
GetTransactionByBlockNumberAndIndex == <<"body", "header">>
GetTransactionByBlockHashAndIndex == <<"body">>
GetTransactionByHash              == <<"body_by_hash">>
GetRawTransaction                 == <<"body_by_hash">>
GetTransactionReceipt ==
    <<"header_by_hash", "body_by_hash">> \o get_all_block_rpc_receipts
Call                              == <<"header", "state_by_hash">>
CreateAccessList                  == <<"header", "state_by_hash">>
EstimateGas                       == <<"header", "config", "account", "state_by_hash">>
\* The balance, code, nonce or storage of an account.
GetAccount                        == <<"account">>
\* With one storage key.
GetProof                          == <<"account", "account", "account">>
GetLogs                           == <<"body", "header", "receipt">>
FeeHistory                        == <<"header", "body">>
ChainId                           == <<"config">>
ExchangeTransitionConfig          == <<"config", "header">>
GetPayload                        == <<"payload">>

Script ==
    [getBlock              |-> GetBlock,
     getTransactionCount   |-> GetBlockTransactionCount,
     getBlockReceipts      |-> GetBlockReceipts,
     getRawHeader          |-> GetRawHeader,
     getRawBlock           |-> GetRawBlock,
     getRawReceipts        |-> GetRawReceipts,
     blockNumber           |-> BlockNumber,
     blobBaseFee           |-> GetBlobBaseFee,
     getTransactionAt      |-> GetTransactionByBlockNumberAndIndex,
     getTransactionAtHash  |-> GetTransactionByBlockHashAndIndex,
     getRawTransaction     |-> GetRawTransaction,
     getTransaction        |-> GetTransactionByHash,
     getTransactionReceipt |-> GetTransactionReceipt,
     call                  |-> Call,
     createAccessList      |-> CreateAccessList,
     estimateGas           |-> EstimateGas,
     getAccount            |-> GetAccount,
     getProof              |-> GetProof,
     getLogs               |-> GetLogs,
     feeHistory            |-> FeeHistory,
     chainId               |-> ChainId,
     exchangeConfig        |-> ExchangeTransitionConfig,
     getPayload            |-> GetPayload]

\* How a request names a block: by a number, a tag, a hash (the one member of
\* blocks), a transaction in it, or as the parent of a payload.
Kinds == {"number", "earliest", "finalized", "safe", "latest", "pending", "hash",
          "transaction", "payload"}

Query == [method : DOMAIN Script, kind : Kinds, number : Heights, blocks : SUBSET Block]

\* What the methods take: a transaction hash, a payload id, a hash, and for the
\* ends of a range a number or a tag.
ASSUME QueryAssumption ==
    /\ Queries \subseteq Query
    /\ \A q \in Queries :
         /\ q.kind \in {"hash", "payload"} => \E b \in Block : q.blocks = {b}
         /\ q.method \in {"getTransaction", "getRawTransaction", "getTransactionReceipt"}
              <=> q.kind = "transaction"
         /\ q.method = "getPayload" <=> q.kind = "payload"
         /\ q.method = "getLogs" => q.kind # "hash"
         /\ q.method = "feeHistory" => q.kind = "number" /\ q.number > 0

NoQuery == [method |-> "blockNumber", kind |-> "number", number |-> 0, blocks |-> {}]

\* The block being read (number), the end of the range (last), the block named
\* by hash or found by its transaction (block), the parts still to read, those
\* read with the block each belongs to, and the one that was not found.  due
\* says that the last block was canonical when its number was found.
Idle ==
    [query |-> NoQuery, number |-> 0, last |-> 0, block |-> None, todo |-> <<>>,
     found |-> {}, missing |-> "none", due |-> FALSE]

\* A block that has the transaction and is the canonical one at its height.
get_transaction_location(blocks) ==
    {b \in blocks : b \in db.locations /\ get_canonical_block_hash(db, Number[b]) = b}

\* The tags; nothing ever writes the pending number.
TagNumber(kind) ==
    CASE kind = "earliest"  -> db.earliest
      [] kind = "finalized" -> db.finalized
      [] kind = "safe"      -> db.safe
      [] kind = "latest"    -> db.latest
      [] kind = "pending"   -> None

\* The number and, where the request names it, the block: one of the results,
\* of which there may be none.
resolve_block_number(q) ==
    IF q.method = "feeHistory" /\ None \in {db.earliest, db.latest} THEN {<<None, None>>}
    ELSE CASE q.kind \in {"number", "payload"} -> {<<q.number, None>>}
           [] q.kind = "hash"        -> {<<get_block_number(db, b), b>> : b \in q.blocks}
           [] q.kind = "transaction" -> {<<Number[b], b>> : b \in get_transaction_location(q.blocks)}
           [] OTHER                  -> {<<TagNumber(q.kind), None>>}

\* feeHistory takes the block count for the newest block as well.  It reads from
\* the earliest to the latest block at most, and of its last one only the header.
get_range(count) ==
    LET last == IF count < db.latest THEN count + 1 ELSE db.latest
    IN  [first |-> IF last > db.earliest + count THEN last - count ELSE db.earliest,
         last  |-> last]

\* getLogs reads from the number in the request to the block of the tag.
RangeOf(q, n) ==
    CASE q.method = "feeHistory" -> get_range(n)
      [] q.method = "getLogs"    -> [first |-> q.number, last |-> n]
      [] OTHER                   -> [first |-> n, last |-> n]

BlockScript(method, n, last) ==
    IF method = "feeHistory" /\ n = last THEN <<"header">> ELSE Script[method]

\* The first store call finds the number, and without one the answer is null
\* or an error.
Ask(r, q) ==
    /\ reader[r] = Idle
    /\ pc[Main] = "serving"
    /\ \/ \E found \in resolve_block_number(q) :
            /\ found[1] # None
            /\ LET range == RangeOf(q, found[1])
               IN  reader' = [reader EXCEPT ![r] =
                     [Idle EXCEPT
                        !.query = q,
                        !.number = range.first,
                        !.last = range.last,
                        !.block = found[2],
                        !.todo = IF range.first > range.last THEN <<>>
                                 ELSE BlockScript(q.method, range.first, range.last),
                        !.due = get_canonical_block_hash(db, range.last) # None]]
       \/ /\ \A found \in resolve_block_number(q) : found[1] = None
          /\ reader' = [reader EXCEPT ![r] =
                          [Idle EXCEPT !.query = q, !.missing = "number"]]
    /\ UNCHANGED vars

\* The header found at the number being read.
HeaderOf(r) ==
    LET headers == {p \in reader[r].found : /\ p.part \in {"header", "header_by_hash"}
                                            /\ p.at = reader[r].number}
    IN  IF headers = {} THEN None ELSE (CHOOSE p \in headers : TRUE).block

\* find_parent_header goes by the number of the parent, through the canonical
\* index.
find_parent_header(b) ==
    LET n == get_block_number(db, Parent[b])
    IN  IF n = None THEN None ELSE get_block_header(db, n)

Stored(b, table) == IF b \in table THEN b ELSE None

\* The state trie is opened at the root in the block's header.
get_account_info_by_hash(b) == Stored(b, db.headers \cap db.states)

get_account_info(n) == get_account_info_by_hash(get_canonical_block_hash(db, n))

get_payload(blocks) == Stored(CHOOSE b \in blocks : TRUE, db.payloads)

\* The block whose row is read for a part, None when there is no such row.
Row(r, part) ==
    LET n == reader[r].number
        header == HeaderOf(r)
    IN  CASE part = "header"         -> get_block_header(db, n)
          [] part = "body"           -> get_block_body(db, n)
          [] part = "receipt"        -> get_receipt(db, n)
          [] part = "total"          -> Stored(header, {b \in Block : db.totals[b] # None})
          [] part = "parent"         -> find_parent_header(header)
          [] part = "header_by_hash" -> get_block_header_by_hash(db, reader[r].block)
          [] part = "body_by_hash"   -> Stored(reader[r].block, db.bodies)
          [] part = "state_by_hash"  -> get_account_info_by_hash(header)
          [] part = "account"        -> get_account_info(n)
          [] part = "payload"        -> get_payload(reader[r].query.blocks)
          [] part = "config"         -> IF db.config THEN Genesis ELSE None

\* The reader after a part: the next part, the next block of the range, or the
\* answer.
Advanced(state) ==
    IF Len(state.todo) > 1
    THEN [state EXCEPT !.todo = Tail(@)]
    ELSE IF state.query.method \in {"getLogs", "feeHistory"} /\ state.number < state.last
    THEN [state EXCEPT
            !.number = @ + 1,
            !.todo = BlockScript(state.query.method, state.number + 1, state.last)]
    ELSE [state EXCEPT !.todo = <<>>]

\* The genesis block has no transactions, and so no receipts and no price to
\* look up in its parent.
Skips(r, part) ==
    /\ HeaderOf(r) = Genesis
    /\ \/ part = "receipt"
       \/ part = "parent" /\ reader[r].query.method # "blobBaseFee"

\* One store call.  A part that is not found ends the answer.
Read(r) ==
    /\ reader[r].todo # <<>>
    /\ LET state == reader[r]
           part == Head(state.todo)
           row == Row(r, part)
       IN  reader' = [reader EXCEPT ![r] =
             IF Skips(r, part) THEN Advanced(state)
             ELSE IF row = None
             THEN [state EXCEPT !.todo = <<>>, !.missing = part]
             ELSE Advanced([state EXCEPT !.found =
                              @ \cup {[part |-> part, at |-> state.number, block |-> row]}])]
    /\ UNCHANGED vars

\* The answer is sent, with what was found or without.
Respond(r) ==
    /\ reader[r] # Idle /\ reader[r].todo = <<>>
    /\ reader' = [reader EXCEPT ![r] = Idle]
    /\ UNCHANGED vars

ReadersInit == Init /\ reader = [r \in Reader |-> Idle]

\* A crash ends what the servers are working on.
ReadersNext ==
    \/ (Boot \/ \E t \in Task : Step(t)) /\ UNCHANGED reader
    \/ (\E t \in Handler : Request(t)) /\ UNCHANGED reader
    \/ Crash /\ reader' = [r \in Reader |-> Idle]
    \/ \E r \in Reader, q \in Queries : Ask(r, q)
    \/ \E r \in Reader : Read(r) \/ Respond(r)

ReadersSpec == ReadersInit /\ [][ReadersNext]_allVars

-----------------------------------------------------------------------------
\* Parts that are written after a block may have become canonical.
LateParts == {"receipt", "total"}

\* Whatever was canonical when it was asked for is answered: no later read of
\* its header, body, parent or accounts comes back empty, for the block itself
\* and for every block of the range below it.  (The genesis block has no parent,
\* and a database may be left without a chain config.)
CanonicalAnswered ==
    \A r \in Reader :
        reader[r].due /\ reader[r].missing # "none" =>
            \/ reader[r].missing \in LateParts \cup {"config", "payload"}
            \/ reader[r].missing = "parent" /\ HeaderOf(r) = Genesis

\* A number that the finalized or the safe tag resolves to is one that answers.
FinalizedAnswered ==
    \A r \in Reader :
        reader[r].query.kind \in {"finalized", "safe"} /\ reader[r].missing # "number" =>
            reader[r].due

\* As long as the node has not died and one request is served at a time, the
\* parts of an answer are of one block, the parent's header of its parent, and
\* the block is the one whose hash or transaction was asked for.
OneBlock ==
    crashes = 0 => \A r \in Reader : \A p, q \in reader[r].found :
        p.at = q.at /\ q.part \notin {"config", "parent"} =>
            /\ p.part \notin {"config", "parent"} => p.block = q.block
            /\ p.part = "parent" => p.block = Parent[q.block]
            /\ reader[r].block # None => q.block = reader[r].block

\* Nor does such a node answer with an error because receipts are missing, or
\* with a total difficulty of zero: newPayload makes a block canonical last.
ReceiptsAnswered ==
    crashes = 0 => \A r \in Reader : reader[r].due => reader[r].missing \notin LateParts

\* No reader is told that something is missing that the node has: what a number
\* or a tag resolves to is there in all its parts, which the handlers write by
\* separate store calls.
Answered == CanonicalAnswered /\ FinalizedAnswered /\ ReceiptsAnswered

\* The tables stay consistent with one another through a death between any two
\* store calls and the restart, an import of blocks the database already has
\* included, and so do the answers given before (Store::add_block,
\* add_initial_state and the import loop of main).
RestartSound == CanonicalComplete /\ AckedDurable /\ PointersResolve

=============================================================================
