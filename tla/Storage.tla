------------------------------ MODULE Storage ------------------------------
(***************************************************************************)
(* The persistent store of the client (crates/storage): the tables a block *)
(* is spread over, and the calls of the StoreEngine trait as functions     *)
(* from one content of the database to the next.  Every call is one        *)
(* libmdbx transaction (Store::write and Store::read), so one application  *)
(* of an operator below is atomic and durable; a handler is a sequence of  *)
(* them, and that is what module Engine interleaves.                       *)
(*                                                                         *)
(* A block stands for its hash.  What a block is (its parent, its number,  *)
(* its difficulty, what executing it would give) is fixed by its hash and  *)
(* is therefore a constant; what the tables hold about it is state.        *)
(***************************************************************************)
EXTENDS Naturals

CONSTANTS
    Block,      \* the blocks that exist anywhere, by hash
    Genesis,    \* the block of the genesis file
    None,       \* Option::None, the zero hash, an absent row
    Number,     \* header.number
    Parent,     \* header.parent_hash
    Verdict,    \* what validating and executing the block on its parent gives
    MaxNumber,  \* bound: the highest block number in the model
    Difficulty, \* difficulty of the genesis block; all later ones have 0
    TTD         \* terminal_total_difficulty of the chain config, or None

Verdicts == {"ok", "header", "evm", "gas", "root"}

Heights == 0 .. MaxNumber

ASSUME BlockAssumption ==
    /\ Genesis \in Block
    /\ None \notin Block
    /\ None \notin Nat
    /\ MaxNumber \in Nat
    /\ Number \in [Block -> Heights]
    /\ Parent \in [Block -> Block \cup {None}]
    /\ Verdict \in [Block -> Verdicts]

ASSUME GenesisAssumption ==
    /\ Number[Genesis] = 0
    /\ Parent[Genesis] = None
    /\ Verdict[Genesis] = "ok"
    /\ Difficulty \in Nat
    /\ TTD \in Nat \cup {None}

\* validate_block_header: a block that passes against its parent's header
\* is one higher than the parent it names.
ASSUME HeaderAssumption ==
    \A b \in Block \ {Genesis} :
        Verdict[b] # "header" =>
            /\ Parent[b] \in Block
            /\ Number[b] = Number[Parent[b]] + 1

\* header.difficulty: zero for every block after the merge
\* (validate_block_header), whatever the genesis file says for the genesis.
DifficultyOf(b) == IF b = Genesis THEN Difficulty ELSE 0

\* block.header.number.saturating_sub(1)
Pred(n) == IF n = 0 THEN 0 ELSE n - 1

OptionNat == Nat \cup {None}

OptionBlock == Block \cup {None}

(***************************************************************************)
(* The tables.  The rows of a block-keyed table are determined by the      *)
(* block, except the total difficulty, so such a table is the set of its   *)
(* keys.  "states" holds the blocks all of whose state-trie nodes are      *)
(* written; "payloads" the parents that a payload was built on.            *)
(***************************************************************************)
Tables ==
    [headers     : SUBSET Block,
     bodies      : SUBSET Block,
     numbers     : SUBSET Block,
     locations   : SUBSET Block,
     receipts    : SUBSET Block,
     states      : SUBSET Block,
     payloads    : SUBSET Block,
     canonical   : [Heights -> OptionBlock],
     totals      : [Block -> OptionNat],
     earliest    : OptionNat,
     latest      : OptionNat,
     finalized   : OptionNat,
     safe        : OptionNat,
     latestTotal : OptionNat,
     config      : BOOLEAN]

EmptyTables ==
    [headers     |-> {},
     bodies      |-> {},
     numbers     |-> {},
     locations   |-> {},
     receipts    |-> {},
     states      |-> {},
     payloads    |-> {},
     canonical   |-> [n \in Heights |-> None],
     totals      |-> [b \in Block |-> None],
     earliest    |-> None,
     latest      |-> None,
     finalized   |-> None,
     safe        |-> None,
     latestTotal |-> None,
     config      |-> FALSE]

(***************************************************************************)
(* Reads.                                                                  *)
(***************************************************************************)
get_canonical_block_hash(d, n) ==
    IF n \in Heights THEN d.canonical[n] ELSE None

\* The header of a canonical block, through the canonical index.
get_block_header(d, n) ==
    LET hash == get_canonical_block_hash(d, n)
    IN  IF hash \in d.headers THEN hash ELSE None

get_block_body(d, n) ==
    LET hash == get_canonical_block_hash(d, n)
    IN  IF hash \in d.bodies THEN hash ELSE None

get_receipt(d, n) ==
    LET hash == get_canonical_block_hash(d, n)
    IN  IF hash \in d.receipts THEN hash ELSE None

get_block_header_by_hash(d, h) == IF h \in d.headers THEN h ELSE None

\* Needs the header and the body.
get_block_by_hash(d, h) ==
    IF h \in d.headers /\ h \in d.bodies THEN h ELSE None

get_block_number(d, h) == IF h \in d.numbers THEN Number[h] ELSE None

get_block_total_difficulty(d, h) == IF h \in Block THEN d.totals[h] ELSE None

(***************************************************************************)
(* Writes: each is one upsert in a transaction of its own.                 *)
(***************************************************************************)
add_block_header(d, h) == [d EXCEPT !.headers = @ \cup {h}]

add_block_body(d, h) == [d EXCEPT !.bodies = @ \cup {h}]

add_block_number(d, h) == [d EXCEPT !.numbers = @ \cup {h}]

\* One upsert per transaction of the block.
add_transaction_locations(d, h) == [d EXCEPT !.locations = @ \cup {h}]

\* One upsert per receipt of the block.
add_receipts(d, h) == [d EXCEPT !.receipts = @ \cup {h}]

add_block_total_difficulty(d, h, td) == [d EXCEPT !.totals[h] = td]

update_latest_total_difficulty(d, td) == [d EXCEPT !.latestTotal = td]

update_latest_block_number(d, n) == [d EXCEPT !.latest = n]

update_earliest_block_number(d, n) == [d EXCEPT !.earliest = n]

update_finalized_block_number(d, n) == [d EXCEPT !.finalized = n]

update_safe_block_number(d, n) == [d EXCEPT !.safe = n]

set_canonical_block(d, n, h) == [d EXCEPT !.canonical[n] = h]

set_chain_config(d) == [d EXCEPT !.config = TRUE]

add_payload(d, parent) == [d EXCEPT !.payloads = @ \cup {parent}]

\* The trie nodes, codes and storage tries that lead from the state of the
\* parent to the state of h.  They are reached from the root in a stored
\* header only, and the header is written later, so the many upserts of
\* apply_account_updates and setup_genesis_state_trie count as one.
write_state(d, h) == [d EXCEPT !.states = @ \cup {h}]

=============================================================================
