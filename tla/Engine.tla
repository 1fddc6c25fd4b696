------------------------------- MODULE Engine -------------------------------
(***************************************************************************)
(* The node around its store: main (add_initial_state, the --import loop,  *)
(* then the two HTTP servers) and the engine-API handlers, which the       *)
(* servers run concurrently on one Store.  A task performs one store call  *)
(* per step; the database survives a crash, the tasks do not.              *)
(***************************************************************************)
EXTENDS Storage, Sequences

CONSTANTS
    Handler,     \* concurrent requests the servers are working on
    Main,        \* the task running main()
    ImportFile,  \* the blocks of the --import file, <<>> without the option
    ForkChoices, \* the fork-choice states the consensus client may send
    Faults,      \* what can be wrong with a payload before it is executed
    MaxCrashes   \* bound: how often the process dies

VARIABLES
    db,       \* the content of the database
    pc,       \* the next store call of every task
    req,      \* the request a task works on
    loc,      \* the values a task has read from the store
    imported, \* how many blocks of the file main has dealt with
    acked,    \* blocks newPayload answered VALID for
    rejected, \* blocks newPayload answered INVALID for
    crashes

Task == Handler \cup {Main}

ASSUME TaskAssumption ==
    /\ Main \notin Handler
    /\ ImportFile \in Seq(Block)
    /\ ForkChoices \subseteq
         [head : OptionBlock, safe : OptionBlock, finalized : OptionBlock,
          build : BOOLEAN]
    /\ Faults \subseteq {"decode", "fork", "mismatch"}
    /\ MaxCrashes \in Nat

vars == <<db, pc, req, loc, imported, acked, rejected, crashes>>

(***************************************************************************)
(* A task: what it was asked (op and the blocks named) and what it read.   *)
(***************************************************************************)
Ops == {"none", "genesis", "import", "newPayload", "forkchoice"}

Requests ==
    [op : Ops, block : OptionBlock, safe : OptionBlock,
     finalized : OptionBlock, build : BOOLEAN, fault : Faults \cup {"none"}]

NoRequest ==
    [op |-> "none", block |-> None, safe |-> None, finalized |-> None,
     build |-> FALSE, fault |-> "none"]

BlockRequest(op, b) == [NoRequest EXCEPT !.op = op, !.block = b]

Values == [hash : OptionBlock, number : Nat, td : Nat]

NoValues == [hash |-> None, number |-> 0, td |-> 0]

Labels ==
    {"idle", "dead",
     \* main
     "start", "genesis_trie", "earliest", "set_config", "import", "serving",
     \* newPayload up to add_block
     "config", "last", "known", "valid_number", "valid_hash",
     \* add_block
     "parent_canonical", "find_parent", "validate", "execute", "apply",
     "root",
     \* Store::add_block and what follows it
     "td", "locations", "body", "header", "number", "latest", "block_td",
     "latest_td", "receipts", "set_canonical",
     \* forkchoiceUpdated
     "fc_head", "fc_difficulty", "fc_canonical", "fc_latest", "fc_current",
     "fc_parent", "fc_set", "fc_final", "fc_final_check", "fc_final_set",
     "fc_safe", "fc_safe_check", "fc_safe_set", "fc_build", "fc_payload"}

TypeOK ==
    /\ db \in Tables
    /\ pc \in [Task -> Labels]
    /\ req \in [Task -> Requests]
    /\ loc \in [Task -> Values]
    /\ imported \in 0 .. Len(ImportFile)
    /\ acked \subseteq Block
    /\ rejected \subseteq Block
    /\ crashes \in 0 .. MaxCrashes

Init ==
    /\ db = EmptyTables
    /\ pc = [t \in Task |-> IF t = Main THEN "start" ELSE "idle"]
    /\ req = [t \in Task |-> NoRequest]
    /\ loc = [t \in Task |-> NoValues]
    /\ imported = 0
    /\ acked = {}
    /\ rejected = {}
    /\ crashes = 0

Goto(t, label) == pc' = [pc EXCEPT ![t] = label]

\* A step that leaves everything but the program counter and the database.
Writes == UNCHANGED <<req, loc, imported, acked, rejected, crashes>>

\* A step that only reads the database, and may branch on what it read.
Reads == UNCHANGED <<db, req, imported, acked, rejected, crashes>>

Branches == Reads /\ UNCHANGED loc

\* The task is done with its request: a handler has answered and its frame
\* is gone, main goes on to the next block of the file.
Finish(t) ==
    /\ pc' = [pc EXCEPT ![t] = IF t = Main THEN "import" ELSE "idle"]
    /\ req' = [req EXCEPT ![t] = NoRequest]
    /\ loc' = [loc EXCEPT ![t] = NoValues]

\* An answer that changes nothing: SYNCING, an RPC error, a fork-choice
\* result; for main, a warning.
Answer(t) ==
    Finish(t) /\ UNCHANGED <<db, imported, acked, rejected, crashes>>

AnswerValid(t, d) ==
    /\ Finish(t)
    /\ db' = d
    /\ acked' = IF req[t].op = "newPayload" THEN acked \cup {req[t].block}
                                            ELSE acked
    /\ UNCHANGED <<imported, rejected, crashes>>

AnswerInvalid(t) ==
    /\ Finish(t)
    /\ rejected' = IF req[t].op = "newPayload"
                   THEN rejected \cup {req[t].block} ELSE rejected
    /\ UNCHANGED <<db, imported, acked, crashes>>

-----------------------------------------------------------------------------
(***************************************************************************)
(* main: Store::add_initial_state, then the import loop, then serving.     *)
(***************************************************************************)

\* The genesis block is canonical already: "nothing to do".
GenesisFound ==
    /\ pc[Main] = "start"
    /\ get_block_header(db, 0) = Genesis
    /\ Goto(Main, "import")
    /\ Branches

GenesisMissing ==
    /\ pc[Main] = "start"
    /\ get_block_header(db, 0) = None
    /\ Goto(Main, "genesis_trie")
    /\ req' = [req EXCEPT ![Main] = BlockRequest("genesis", Genesis)]
    /\ UNCHANGED <<db, loc, imported, acked, rejected, crashes>>

SetupGenesisTrie ==
    /\ pc[Main] = "genesis_trie"
    /\ Goto(Main, "earliest")
    /\ db' = write_state(db, Genesis)
    /\ Writes

UpdateEarliest ==
    /\ pc[Main] = "earliest"
    /\ Goto(Main, "td")
    /\ db' = update_earliest_block_number(db, Number[Genesis])
    /\ Writes

SetChainConfig ==
    /\ pc[Main] = "set_config"
    /\ Finish(Main)
    /\ db' = set_chain_config(db)
    /\ UNCHANGED <<imported, acked, rejected, crashes>>

ImportNext ==
    /\ pc[Main] = "import"
    /\ imported < Len(ImportFile)
    /\ Goto(Main, "parent_canonical")
    /\ req' = [req EXCEPT ![Main] =
                 BlockRequest("import", ImportFile[imported + 1])]
    /\ imported' = imported + 1
    /\ UNCHANGED <<db, loc, acked, rejected, crashes>>

StartApi ==
    /\ pc[Main] = "import"
    /\ imported = Len(ImportFile)
    /\ Goto(Main, "serving")
    /\ Branches

-----------------------------------------------------------------------------
(***************************************************************************)
(* engine_newPayloadV3 up to the call of add_block.                        *)
(***************************************************************************)
NewPayload(t, b, f) ==
    /\ pc[t] = "idle"
    /\ pc[Main] = "serving"
    /\ Goto(t, "config")
    /\ req' = [req EXCEPT ![t] = [BlockRequest("newPayload", b)
                                    EXCEPT !.fault = f]]
    /\ UNCHANGED <<db, loc, imported, acked, rejected, crashes>>

\* into_block, the fork of the timestamp, the block hash and the blob hashes:
\* a faulty payload is answered without looking at the chain, and so is any
\* payload while no chain config is stored.
PayloadRefused(t) ==
    /\ pc[t] = "config"
    /\ req[t].fault # "none" \/ ~db.config
    /\ Answer(t)

PayloadWellFormed(t) ==
    /\ pc[t] = "config"
    /\ req[t].fault = "none" /\ db.config
    /\ Goto(t, "last")
    /\ Branches

\* block.header.number against get_latest_block_number; an absent latest
\* number is an internal error.
PayloadHeight(t) ==
    /\ pc[t] = "last"
    /\ LET n == Number[req[t].block]
       IN  \/ /\ db.latest # None /\ n <= db.latest
              /\ Goto(t, "known")
              /\ Branches
           \/ /\ db.latest # None /\ n = db.latest + 1
              /\ Goto(t, "valid_number")
              /\ Branches

\* Too far ahead (SYNCING), or no latest block number (internal error).
PayloadAhead(t) ==
    /\ pc[t] = "last"
    /\ db.latest = None \/ Number[req[t].block] > db.latest + 1
    /\ Answer(t)

\* Faulty variant: VALID for any block at a taken height.
PayloadKnownUnchecked(t) ==
    pc[t] = "known" /\ AnswerValid(t, db)

\* The height is taken: VALID for a block that is stored, otherwise the
\* reorg that "is not supported yet".
PayloadKnown(t) ==
    /\ pc[t] = "known"
    /\ get_block_number(db, req[t].block) = Number[req[t].block]
    /\ AnswerValid(t, db)

\* Faulty variant: a block at a taken height goes on to add_block.
PayloadReorgAccepted(t) ==
    /\ pc[t] = "known"
    /\ get_block_number(db, req[t].block) = None
    /\ Goto(t, "valid_number")
    /\ Branches

PayloadReorg(t) ==
    /\ pc[t] = "known"
    /\ get_block_number(db, req[t].block) = None
    /\ Answer(t)

\* latest_valid_hash: the latest number, then the header at it.
LatestValidNumber(t) ==
    /\ pc[t] = "valid_number"
    /\ db.latest # None
    /\ Goto(t, "valid_hash")
    /\ loc' = [loc EXCEPT ![t].number = db.latest]
    /\ Reads

LatestValidHash(t) ==
    /\ pc[t] = "valid_hash"
    /\ \/ /\ get_block_header(db, loc[t].number) # None
          /\ Goto(t, "parent_canonical")
          /\ Branches
       \/ /\ get_block_header(db, loc[t].number) = None
          /\ Answer(t)

-----------------------------------------------------------------------------
(***************************************************************************)
(* blockchain::add_block, for newPayload and for the import loop.          *)
(***************************************************************************)

ParentIsCanonical(t) ==
    LET b == req[t].block
        hash == get_canonical_block_hash(db, Pred(Number[b]))
    IN  hash # None /\ hash = Parent[b]

ValidateParentCanonical(t) ==
    /\ pc[t] = "parent_canonical"
    /\ \/ /\ ParentIsCanonical(t)
          /\ Goto(t, "find_parent")
          /\ Branches
       \/ /\ ~ParentIsCanonical(t)
          /\ Answer(t)

\* The header stored for the number of the parent, through the canonical
\* index: not necessarily the header of the parent any more.
FindParentHeader(t) ==
    /\ pc[t] = "find_parent"
    /\ LET n == get_block_number(db, Parent[req[t].block])
           header == IF n = None THEN None ELSE get_block_header(db, n)
       IN  \/ /\ header # None
              /\ Goto(t, "validate")
              /\ loc' = [loc EXCEPT ![t].hash = header]
              /\ Reads
           \/ /\ header = None
              /\ AnswerInvalid(t)

\* validate_block: spec_id panics without a chain config; the header is
\* checked against the header found, its hash included.
ValidateBlock(t) ==
    /\ pc[t] = "validate"
    /\ LET b == req[t].block
           valid == loc[t].hash = Parent[b] /\ Verdict[b] # "header"
       IN  \/ /\ db.config /\ valid
              /\ Goto(t, "execute")
              /\ Branches
           \/ /\ db.config /\ ~valid
              /\ AnswerInvalid(t)
           \/ /\ ~db.config
              /\ Goto(t, "dead")
              /\ Branches

\* execute_block and validate_gas_used, on the state of the parent.
ExecuteBlock(t) ==
    /\ pc[t] = "execute"
    /\ \/ /\ Verdict[req[t].block] \notin {"evm", "gas"}
          /\ Goto(t, "apply")
          /\ Branches
       \/ /\ Verdict[req[t].block] \in {"evm", "gas"}
          /\ AnswerInvalid(t)

\* apply_account_updates writes the new trie before its root is checked.
ApplyAccountUpdates(t) ==
    /\ pc[t] = "apply"
    /\ LET b == req[t].block
       IN  /\ Goto(t, "root")
           /\ db' = IF Verdict[b] = "ok" /\ Parent[b] \in db.states
                    THEN write_state(db, b) ELSE db
           /\ Writes

\* Faulty variant: the root of the new trie is not compared.
StateRootUnchecked(t) ==
    pc[t] = "root" /\ Goto(t, "td") /\ Branches

ValidateStateRoot(t) ==
    /\ pc[t] = "root"
    /\ \/ /\ req[t].block \in db.states
          /\ Goto(t, "td")
          /\ Branches
       \/ /\ req[t].block \notin db.states
          /\ AnswerInvalid(t)

-----------------------------------------------------------------------------
(***************************************************************************)
(* Store::add_block: eight calls, in this order; then the receipts and the *)
(* canonical index.                                                        *)
(***************************************************************************)

ReadLatestTotalDifficulty(t) ==
    /\ pc[t] = "td"
    /\ LET latest == IF db.latestTotal = None THEN 0 ELSE db.latestTotal
       IN  /\ Goto(t, "locations")
           /\ loc' = [loc EXCEPT ![t].td = latest + DifficultyOf(req[t].block)]
           /\ Reads

\* Faulty variant: the body is never written.
BodyForgotten(t) ==
    /\ pc[t] = "locations"
    /\ Goto(t, "header")
    /\ db' = add_transaction_locations(db, req[t].block)
    /\ Writes

AddTransactionLocations(t) ==
    /\ pc[t] = "locations"
    /\ Goto(t, "body")
    /\ db' = add_transaction_locations(db, req[t].block)
    /\ Writes

AddBlockBody(t) ==
    /\ pc[t] = "body"
    /\ Goto(t, "header")
    /\ db' = add_block_body(db, req[t].block)
    /\ Writes

AddBlockHeader(t) ==
    /\ pc[t] = "header"
    /\ Goto(t, "number")
    /\ db' = add_block_header(db, req[t].block)
    /\ Writes

AddBlockNumber(t) ==
    /\ pc[t] = "number"
    /\ Goto(t, "latest")
    /\ db' = add_block_number(db, req[t].block)
    /\ Writes

\* Faulty variant: off by one in the latest number.
LatestUpdatedToParent(t) ==
    /\ pc[t] = "latest"
    /\ Goto(t, "block_td")
    /\ db' = update_latest_block_number(db, Pred(Number[req[t].block]))
    /\ Writes

UpdateLatestBlockNumber(t) ==
    /\ pc[t] = "latest"
    /\ Goto(t, "block_td")
    /\ db' = update_latest_block_number(db, Number[req[t].block])
    /\ Writes

AddBlockTotalDifficulty(t) ==
    /\ pc[t] = "block_td"
    /\ Goto(t, "latest_td")
    /\ db' = add_block_total_difficulty(db, req[t].block, loc[t].td)
    /\ Writes

\* Faulty variant: the receipts are never stored.
ReceiptsForgotten(t) ==
    /\ pc[t] = "latest_td"
    /\ Goto(t, "set_canonical")
    /\ db' = update_latest_total_difficulty(db, loc[t].td)
    /\ Writes

UpdateLatestTotalDifficulty(t) ==
    /\ pc[t] = "latest_td"
    /\ Goto(t, IF req[t].op = "genesis" THEN "set_canonical" ELSE "receipts")
    /\ db' = update_latest_total_difficulty(db, loc[t].td)
    /\ Writes

StoreReceipts(t) ==
    /\ pc[t] = "receipts"
    /\ Goto(t, "set_canonical")
    /\ db' = add_receipts(db, req[t].block)
    /\ Writes

\* Faulty variant: an imported block is not made canonical.
CanonicalForgotten(t) ==
    /\ pc[t] = "set_canonical"
    /\ \/ /\ req[t].op = "genesis"
          /\ Goto(t, "set_config")
          /\ db' = set_canonical_block(db, 0, Genesis)
          /\ Writes
       \/ req[t].op # "genesis" /\ AnswerValid(t, db)

SetCanonical(t) ==
    /\ pc[t] = "set_canonical"
    /\ LET b == req[t].block
           d == set_canonical_block(db, Number[b], b)
       IN  \/ /\ req[t].op = "genesis"
              /\ Goto(t, "set_config")
              /\ db' = d
              /\ Writes
           \/ /\ req[t].op # "genesis"
              /\ AnswerValid(t, d)

-----------------------------------------------------------------------------
(***************************************************************************)
(* engine_forkchoiceUpdatedV3.                                             *)
(***************************************************************************)
ForkchoiceUpdated(t, f) ==
    /\ pc[t] = "idle"
    /\ pc[Main] = "serving"
    /\ Goto(t, "fc_head")
    /\ req' = [req EXCEPT ![t] =
                 [op |-> "forkchoice", block |-> f.head, safe |-> f.safe,
                  finalized |-> f.finalized, build |-> f.build,
                  fault |-> "none"]]
    /\ UNCHANGED <<db, loc, imported, acked, rejected, crashes>>

\* The zero hash is refused, and so is a head that is not stored.
HeadStored(t) ==
    /\ pc[t] = "fc_head"
    /\ LET header == get_block_header_by_hash(db, req[t].block)
       IN  \/ header # None /\ Goto(t, "fc_difficulty") /\ Branches
           \/ header = None /\ Answer(t)

\* total_difficulty_check looks only at the genesis block, the one block with
\* number 0 or a difficulty.
PreMerge(b) ==
    LET total == get_block_total_difficulty(db, b)
    IN  b = Genesis /\ (~db.config \/ TTD = None \/ total = None \/ total < TTD)

TotalDifficultyCheck(t) ==
    /\ pc[t] = "fc_difficulty"
    /\ \/ /\ ~PreMerge(req[t].block)
          /\ Goto(t, "fc_canonical")
          /\ Branches
       \/ /\ PreMerge(req[t].block)
          /\ Answer(t)

ReadCanonicalAtHead(t) ==
    /\ pc[t] = "fc_canonical"
    /\ Goto(t, "fc_latest")
    /\ loc' = [loc EXCEPT ![t].hash =
                 get_canonical_block_hash(db, Number[req[t].block])]
    /\ Reads

ReadLatestAtHead(t) ==
    /\ pc[t] = "fc_latest"
    /\ db.latest # None
    /\ Goto(t, "fc_current")
    /\ loc' = [loc EXCEPT ![t].number = db.latest]
    /\ Reads

HeadReplaces(t) == loc[t].hash # None /\ loc[t].hash # req[t].block

HeadIsBehind(t) ==
    LET current == get_canonical_block_hash(db, loc[t].number)
    IN  current # None /\ current # req[t].block

HeadAdopted(t) ==
    /\ pc[t] = "fc_current"
    /\ HeadReplaces(t) \/ ~HeadIsBehind(t)
    /\ Goto(t, IF HeadReplaces(t) THEN "fc_parent" ELSE "fc_final")
    /\ Branches

\* "If the head block is already in our canonical chain ... Ignore the update."
UpdateIgnored(t) ==
    /\ pc[t] = "fc_current"
    /\ ~HeadReplaces(t) /\ HeadIsBehind(t)
    /\ Answer(t)

HeadParentCanonical(t) ==
    /\ pc[t] = "fc_parent"
    /\ Goto(t, IF ParentIsCanonical(t) THEN "fc_set" ELSE "fc_final")
    /\ Branches

SetCanonicalHead(t) ==
    /\ pc[t] = "fc_set"
    /\ Goto(t, "fc_final")
    /\ db' = set_canonical_block(db, Number[req[t].block], req[t].block)
    /\ Writes

\* set_finalized_block and set_safe_block have the same three calls: the
\* block by hash, the canonical hash at its number, the update.
FindFinalized(t) ==
    /\ pc[t] = "fc_final"
    /\ LET h == req[t].finalized
       IN  \/ /\ h = None \/ get_block_by_hash(db, h) # None
              /\ Goto(t, IF h = None THEN "fc_safe" ELSE "fc_final_check")
              /\ Branches
           \/ /\ h # None /\ get_block_by_hash(db, h) = None
              /\ Answer(t)

\* Faulty variant: the finalized block is not looked up.
FinalizedUnchecked(t) ==
    pc[t] = "fc_final_check" /\ Goto(t, "fc_final_set") /\ Branches

CheckFinalized(t) ==
    /\ pc[t] = "fc_final_check"
    /\ LET h == req[t].finalized
           canonical == get_canonical_block_hash(db, Number[h]) = h
       IN  \/ canonical /\ Goto(t, "fc_final_set") /\ Branches
           \/ ~canonical /\ Answer(t)

UpdateFinalized(t) ==
    /\ pc[t] = "fc_final_set"
    /\ Goto(t, "fc_safe")
    /\ db' = update_finalized_block_number(db, Number[req[t].finalized])
    /\ Writes

FindSafe(t) ==
    /\ pc[t] = "fc_safe"
    /\ LET h == req[t].safe
       IN  \/ /\ h = None \/ get_block_by_hash(db, h) # None
              /\ Goto(t, IF h = None THEN "fc_build" ELSE "fc_safe_check")
              /\ Branches
           \/ /\ h # None /\ get_block_by_hash(db, h) = None
              /\ Answer(t)

CheckSafe(t) ==
    /\ pc[t] = "fc_safe_check"
    /\ LET h == req[t].safe
           canonical == get_canonical_block_hash(db, Number[h]) = h
       IN  \/ canonical /\ Goto(t, "fc_safe_set") /\ Branches
           \/ ~canonical /\ Answer(t)

UpdateSafe(t) ==
    /\ pc[t] = "fc_safe_set"
    /\ Goto(t, "fc_build")
    /\ db' = update_safe_block_number(db, Number[req[t].safe])
    /\ Writes

\* build_payload on the head, then add_payload under the id of the
\* attributes.  Without payload attributes, or without a chain config
\* (an internal error), the call ends here.
BuildPayload(t) ==
    /\ pc[t] = "fc_build"
    /\ \/ req[t].build /\ db.config /\ Goto(t, "fc_payload") /\ Branches
       \/ (~req[t].build \/ ~db.config) /\ Answer(t)

AddPayload(t) ==
    /\ pc[t] = "fc_payload"
    /\ Finish(t)
    /\ db' = add_payload(db, req[t].block)
    /\ UNCHANGED <<imported, acked, rejected, crashes>>

-----------------------------------------------------------------------------
\* The process dies, at any point, and is started again on the same data
\* directory with the same options.
Crash ==
    /\ crashes < MaxCrashes
    /\ crashes' = crashes + 1
    /\ pc' = [t \in Task |-> IF t = Main THEN "start" ELSE "idle"]
    /\ req' = [t \in Task |-> NoRequest]
    /\ loc' = [t \in Task |-> NoValues]
    /\ imported' = 0
    /\ UNCHANGED <<db, acked, rejected>>

Boot ==
    \/ GenesisFound \/ GenesisMissing \/ SetupGenesisTrie \/ UpdateEarliest
    \/ SetChainConfig \/ ImportNext \/ StartApi

AddBlock(t) ==
    \/ ValidateParentCanonical(t) \/ FindParentHeader(t) \/ ValidateBlock(t)
    \/ ExecuteBlock(t) \/ ApplyAccountUpdates(t) \/ ValidateStateRoot(t)

StoreAddBlock(t) ==
    \/ ReadLatestTotalDifficulty(t) \/ AddTransactionLocations(t)
    \/ AddBlockBody(t) \/ AddBlockHeader(t) \/ AddBlockNumber(t)
    \/ UpdateLatestBlockNumber(t) \/ AddBlockTotalDifficulty(t)
    \/ UpdateLatestTotalDifficulty(t) \/ StoreReceipts(t) \/ SetCanonical(t)

NewPayloadStep(t) ==
    \/ PayloadRefused(t) \/ PayloadWellFormed(t) \/ PayloadHeight(t)
    \/ PayloadAhead(t) \/ PayloadKnown(t) \/ PayloadReorg(t)
    \/ LatestValidNumber(t) \/ LatestValidHash(t)

ForkchoiceStep(t) ==
    \/ HeadStored(t) \/ TotalDifficultyCheck(t) \/ ReadCanonicalAtHead(t)
    \/ ReadLatestAtHead(t) \/ HeadAdopted(t) \/ UpdateIgnored(t)
    \/ HeadParentCanonical(t) \/ SetCanonicalHead(t)
    \/ FindFinalized(t) \/ CheckFinalized(t) \/ UpdateFinalized(t)
    \/ FindSafe(t) \/ CheckSafe(t) \/ UpdateSafe(t)
    \/ BuildPayload(t) \/ AddPayload(t)

\* What a task does once it has a request.
Step(t) ==
    AddBlock(t) \/ StoreAddBlock(t) \/ NewPayloadStep(t) \/ ForkchoiceStep(t)

Request(t) ==
    \/ \E b \in Block, f \in Faults \cup {"none"} : NewPayload(t, b, f)
    \/ \E f \in ForkChoices : ForkchoiceUpdated(t, f)

Next ==
    \/ Boot
    \/ \E t \in Task : Step(t)
    \/ \E t \in Handler : Request(t)
    \/ Crash

Spec == Init /\ [][Next]_vars

-----------------------------------------------------------------------------
\* A block reaches the canonical index only after everything a reader of the
\* index follows it to: its own number, a valid verdict, its header, body,
\* transaction locations and post-state.  (Its number row and its receipts
\* may still be missing: fork choice can adopt a block newPayload is storing.)
CanonicalComplete ==
    \A n \in Heights :
        LET b == db.canonical[n]
        IN  b # None =>
              /\ Number[b] = n
              /\ Verdict[b] = "ok"
              /\ b \in db.headers \cap db.bodies \cap db.locations \cap db.states

\* Only valid blocks are stored, and never without their parent: add_block
\* demands a canonical parent, and no table row is ever deleted.
StoredAncestry ==
    \A b \in db.headers :
        /\ Verdict[b] = "ok"
        /\ b # Genesis => Parent[b] \in db.headers

\* A VALID answer of newPayload is durable: the block is stored in full, and
\* stays so through crashes and restarts.
AckedDurable ==
    \A b \in acked :
        b \in db.headers \cap db.bodies \cap db.numbers \cap db.states

\* The numbers in ChainData point at something: the finalized and the safe
\* number at a canonical block, the latest number at a stored one.
PointersResolve ==
    /\ db.finalized # None => db.canonical[db.finalized] # None
    /\ db.safe # None => db.canonical[db.safe] # None
    /\ db.latest # None => \E b \in db.headers \cap db.numbers : Number[b] = db.latest

=============================================================================
