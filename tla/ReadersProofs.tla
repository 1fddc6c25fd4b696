--------------------------- MODULE ReadersProofs ---------------------------
(***************************************************************************)
(* What a reader of the store is answered, for any tree of blocks, any     *)
(* requests and any number of readers.  Readers change nothing, so the     *)
(* node with readers implements module Engine and its theorems hold of it. *)
(*                                                                         *)
(* A reader follows the canonical index from one call to the next while    *)
(* others write.  That it finds what it is led to rests on the order of    *)
(* the writes (Linked): no canonical entry without all those below it, no  *)
(* header without the number row of its parent.  That all it finds is of   *)
(* one block rests on the line that SequentialInv draws (Straight).        *)
(***************************************************************************)
EXTENDS Readers, EngineInvariants, TLAPS

HasParent(d, b) == Parent[b] \in d.numbers /\ d.canonical[Number[Parent[b]]] # None

\* From here on a task has seen the header of the parent.
ParentSeen == {"validate", "execute", "apply", "root"} \cup StateWritten

Linked(d) ==
    /\ \A m, n \in Heights : m <= n /\ d.canonical[n] # None => d.canonical[m] # None
    /\ \A b \in d.headers \ {Genesis} : HasParent(d, b)

LinkedInv ==
    /\ Linked(db)
    /\ \A t \in Task :
         pc[t] \in ParentSeen /\ req[t].block # Genesis => HasParent(db, req[t].block)

-----------------------------------------------------------------------------
Parts ==
    {"header", "body", "receipt", "total", "parent", "header_by_hash", "body_by_hash",
     "state_by_hash", "account", "payload", "config"}

HeaderParts == {"header", "header_by_hash"}
ByHash == {"header_by_hash", "body_by_hash"}

\* Parts that are reached through the header.
NeedsHeader == {"receipt", "total", "parent", "state_by_hash"}

Findings == [part : Parts, at : Nat, block : Block]

ReaderStates ==
    [query : Queries \cup {NoQuery}, number : Nat, last : Nat, block : OptionBlock, todo : Seq(Parts),
     found : SUBSET Findings, missing : Parts \cup {"none", "number"}, due : BOOLEAN]

\* No part of a script comes before the header it needs.
HeaderFirst(todo) ==
    \A i \in 1 .. Len(todo) :
        todo[i] \in NeedsHeader => \E j \in 1 .. i - 1 : todo[j] \in HeaderParts

\* The header of the block being read is among what was found.
HeaderSeen(s) ==
    \E p \in s.found : p.part \in HeaderParts /\ p.at = s.number

\* HeaderOf, of a state of a reader.
HeaderIn(s) ==
    LET headers == {p \in s.found : p.part \in HeaderParts /\ p.at = s.number}
    IN  IF headers = {} THEN None ELSE (CHOOSE p \in headers : TRUE).block

\* What is always so of a reader in state s, while the tables are d.
ReaderOK(s, d) ==
    /\ s \in ReaderStates
    /\ s.todo # <<>> => s.missing = "none" /\ s.number <= s.last
    /\ HeaderSeen(s) \/ HeaderFirst(s.todo)
    /\ \A p \in s.found : p.part \in HeaderParts => p.block \in d.headers
    /\ (\E i \in 1 .. Len(s.todo) : s.todo[i] \in ByHash) => s.block \in d.headers
    /\ s.due => s.last \in Heights /\ d.canonical[s.last] # None
    /\ s.query.kind \in {"finalized", "safe"} /\ s.missing # "number" => s.due
    /\ s.due /\ s.missing # "none" =>
         \/ s.missing \in LateParts \cup {"config", "payload"}
         \/ s.missing = "parent" /\ HeaderIn(s) = Genesis

ReadersInv ==
    /\ reader \in [Reader -> ReaderStates]
    /\ \A r \in Reader : ReaderOK(reader[r], db)

-----------------------------------------------------------------------------
\* What the line of a node without crashes and concurrency means for a reader.
Straight(d) ==
    /\ \A b \in d.headers : d.canonical[Number[b]] \in {None, b}
    /\ \A n \in Heights : d.canonical[n] # None =>
         LET b == d.canonical[n]
         IN  /\ d.totals[b] # None
             /\ b # Genesis => /\ b \in d.receipts
                               /\ Parent[b] \in d.headers
                               /\ d.canonical[Number[Parent[b]]] = Parent[b]

\* A part belongs to the canonical block of the height it was read at.
OnLine(p, s, d) ==
    /\ p.part \notin {"config", "parent", "payload"} =>
         p.at \in Heights /\ p.block = d.canonical[p.at]
    /\ p.part = "parent" =>
         /\ p.at \in Heights /\ d.canonical[p.at] # None
         /\ p.block = Parent[d.canonical[p.at]]
    /\ p.part = "payload" => p.block = CHOOSE b \in s.query.blocks : TRUE

PayloadOnly(s) ==
    /\ s.block = None
    /\ \A i \in 1 .. Len(s.todo) : s.todo[i] = "payload"
    /\ \A p \in s.found : p.part = "payload"

NoPayload(s) ==
    /\ \A i \in 1 .. Len(s.todo) : s.todo[i] # "payload"
    /\ \A p \in s.found : p.part # "payload"

StraightOK(s, d) ==
    /\ \A p \in s.found : OnLine(p, s, d)
    /\ s.block # None =>
         /\ s.block \in d.headers /\ s.number = Number[s.block]
         /\ s.query.method \notin {"getLogs", "feeHistory"}
         /\ \A p \in s.found : p.at = s.number
    /\ (\E i \in 1 .. Len(s.todo) : s.todo[i] \in ByHash) =>
         s.block # None /\ d.canonical[Number[s.block]] = s.block
    /\ IF s.query.kind = "payload" THEN PayloadOnly(s) ELSE NoPayload(s)
    /\ s.due => s.missing \notin LateParts

StraightInv ==
    crashes = 0 => \A r \in Reader : StraightOK(reader[r], db)

-----------------------------------------------------------------------------
(***************************************************************************)
(* LinkedInv is inductive, on top of IInv: with any number of handlers and *)
(* crashes.                                                                *)
(***************************************************************************)
LEMMA HasParentGrows ==
  ASSUME NEW d \in Tables, NEW e \in Tables, Grows(d, e), NEW b, HasParent(d, b)
  PROVE  HasParent(e, b)
  BY BlockAssumption, ZenonT(60) DEF Grows, HasParent, Tables

\* A step that stores no header, makes no block canonical and shows no task the
\* header of a parent.
Plain ==
    /\ db'.headers = db.headers /\ db'.canonical = db.canonical
    /\ \A u \in Task : pc'[u] \in ParentSeen => pc[u] \in ParentSeen /\ req'[u] = req[u]

LEMMA PlainLinked ==
  ASSUME IInv, IInv', LinkedInv, Grows(db, db'), Plain
  PROVE  LinkedInv'
<1>0. db \in Tables /\ db' \in Tables
  BY DEF IInv, TypeOK
<1>1. Linked(db')
  BY <1>0, HasParentGrows DEF LinkedInv, Linked, Plain
<1>2. \A u \in Task : pc'[u] \in ParentSeen /\ req'[u].block # Genesis
                        => HasParent(db', req'[u].block)
  BY <1>0, HasParentGrows DEF LinkedInv, Plain
<1> QED
  BY <1>1, <1>2 DEF LinkedInv

\* The one task that moves to label p; the others stay.
LEMMA TaskMoves ==
  ASSUME TypeOK, NEW t \in Task, NEW p, pc' = [pc EXCEPT ![t] = p]
  PROVE  \A u \in Task : pc'[u] = IF u = t THEN p ELSE pc[u]
  BY DEF TypeOK

LEMMA PlainGoto ==
  ASSUME TypeOK, NEW t \in Task, NEW p, Goto(t, p), UNCHANGED req,
         p \in ParentSeen => pc[t] \in ParentSeen
  PROVE  \A u \in Task : pc'[u] \in ParentSeen => pc[u] \in ParentSeen /\ req'[u] = req[u]
  BY TaskMoves DEF Goto

LEMMA PlainFinish ==
  ASSUME TypeOK, NEW t \in Task, Finish(t)
  PROVE  \A u \in Task : pc'[u] \in ParentSeen => pc[u] \in ParentSeen /\ req'[u] = req[u]
<1>1. \A u \in Task : pc'[u] = IF u = t THEN (IF t = Main THEN "import" ELSE "idle") ELSE pc[u]
  BY DEF Finish, TypeOK
<1>2. \A u \in Task : u # t => req'[u] = req[u]
  BY DEF Finish, TypeOK
<1> QED
  BY <1>1, <1>2 DEF ParentSeen, StateWritten, LocationsWritten, BodyWritten,
     HeaderWritten, NumberWritten

LEMMA PlainRequest ==
  ASSUME TypeOK, NEW t \in Task, NEW p \in {"genesis_trie", "parent_canonical", "config", "fc_head"},
         Goto(t, p), NEW q, req' = [req EXCEPT ![t] = q]
  PROVE  \A u \in Task : pc'[u] \in ParentSeen => pc[u] \in ParentSeen /\ req'[u] = req[u]
<1>1. \A u \in Task : pc'[u] = IF u = t THEN p ELSE pc[u]
  BY TaskMoves, ZenonT(60) DEF Goto
<1>2. \A u \in Task : u # t => req'[u] = req[u]
  BY DEF TypeOK
<1> QED
  BY <1>1, <1>2 DEF ParentSeen, StateWritten, LocationsWritten, BodyWritten,
     HeaderWritten, NumberWritten

LEMMA BootLinked ==
  ASSUME IInv, IInv', LinkedInv, Grows(db, db'), Boot
  PROVE  LinkedInv'
<1> USE DEF ParentSeen, StateWritten, LocationsWritten, BodyWritten, HeaderWritten,
            NumberWritten
<1>0. TypeOK /\ db \in Tables /\ db' \in Tables /\ Main \in Task
  BY DEF IInv, TypeOK, Task
<1>a. db'.headers = db.headers /\ db'.canonical = db.canonical
  BY <1>0 DEF Boot, GenesisFound, GenesisMissing, SetupGenesisTrie, UpdateEarliest,
     SetChainConfig, ImportNext, StartApi, Branches, Reads, write_state,
     update_earliest_block_number, set_chain_config, Tables
<1>1. CASE GenesisFound \/ StartApi \/ SetupGenesisTrie
  <2>1. Plain
    BY <1>0, <1>a, <1>1, PlainGoto
       DEF Plain, GenesisFound, StartApi, SetupGenesisTrie, Branches, Reads, Writes
  <2> QED
    BY <2>1, PlainLinked, ZenonT(60)
<1>2. CASE GenesisMissing \/ ImportNext
  <2>1. Plain
    BY <1>0, <1>a, <1>2, PlainRequest, ZenonT(60) DEF Plain, GenesisMissing, ImportNext
  <2> QED
    BY <2>1, PlainLinked
<1>3. CASE SetChainConfig
  <2>1. Plain
    BY <1>0, <1>a, <1>3, PlainFinish DEF Plain, SetChainConfig
  <2> QED
    BY <2>1, PlainLinked
<1>4. CASE UpdateEarliest
  <2>1. req[Main].block = Genesis /\ req' = req
    BY <1>4, <1>0, ZenonT(60) DEF UpdateEarliest, IInv, TaskOK, Writes
  <2>2. \A u \in Task : pc'[u] = IF u = Main THEN "td" ELSE pc[u]
    BY <1>0, <1>4, TaskMoves, ZenonT(60) DEF UpdateEarliest, Goto
  <2>3. Linked(db')
    BY <1>0, <1>a, HasParentGrows DEF LinkedInv, Linked
  <2>4. \A u \in Task : pc'[u] \in ParentSeen /\ req'[u].block # Genesis
                          => HasParent(db', req'[u].block)
    BY <1>0, <2>1, <2>2, HasParentGrows, ZenonT(60) DEF LinkedInv
  <2> QED
    BY <2>3, <2>4, ZenonT(60) DEF LinkedInv
<1> QED
  BY <1>1, <1>2, <1>3, <1>4 DEF Boot

LEMMA NewPayloadLinked ==
  ASSUME IInv, IInv', LinkedInv, Grows(db, db'), NEW t \in Task, NewPayloadStep(t)
  PROVE  LinkedInv'
<1>0. TypeOK
  BY ZenonT(60) DEF IInv
<1>1. db'.headers = db.headers /\ db'.canonical = db.canonical
  BY DEF NewPayloadStep, PayloadRefused, PayloadWellFormed, PayloadHeight,
     PayloadAhead, PayloadKnown, PayloadReorg, LatestValidNumber, LatestValidHash,
     Branches, Reads, Answer, AnswerValid
<1>2. CASE Finish(t)
  BY <1>0, <1>1, <1>2, PlainFinish, PlainLinked, ZenonT(60) DEF Plain
<1>3. ASSUME NEW p \in {"last", "known", "valid_number", "valid_hash", "parent_canonical"},
             Goto(t, p), UNCHANGED req
      PROVE  LinkedInv'
  <2>1. p \notin ParentSeen
    BY DEF ParentSeen, StateWritten, LocationsWritten, BodyWritten, HeaderWritten,
           NumberWritten
  <2> QED
    BY <1>0, <1>1, <1>3, <2>1, PlainGoto, PlainLinked DEF Plain
<1> QED
  BY <1>2, <1>3 DEF NewPayloadStep, PayloadRefused, PayloadWellFormed, PayloadHeight,
     PayloadAhead, PayloadKnown, PayloadReorg, LatestValidNumber, LatestValidHash,
     Branches, Reads, Answer, AnswerValid

LEMMA AddBlockLinked ==
  ASSUME IInv, IInv', LinkedInv, Grows(db, db'), NEW t \in Task, AddBlock(t)
  PROVE  LinkedInv'
<1> USE DEF ParentSeen, StateWritten, LocationsWritten, BodyWritten, HeaderWritten,
            NumberWritten
<1>0. TypeOK /\ db \in Tables /\ db' \in Tables
  BY DEF IInv, TypeOK
<1>1. db'.headers = db.headers /\ db'.canonical = db.canonical
  BY <1>0, ZenonT(60) DEF AddBlock, ValidateParentCanonical, FindParentHeader, ValidateBlock,
     ExecuteBlock, ApplyAccountUpdates, ValidateStateRoot, Branches, Reads, Answer,
     AnswerInvalid, write_state, Tables
<1>2. CASE Finish(t)
  BY <1>0, <1>1, <1>2, PlainFinish, PlainLinked, ZenonT(60) DEF Plain
<1>3. ASSUME NEW p, Goto(t, p), UNCHANGED req, p \in ParentSeen => pc[t] \in ParentSeen
      PROVE  LinkedInv'
  BY <1>0, <1>1, <1>3, PlainGoto, PlainLinked DEF Plain
<1>4. CASE FindParentHeader(t)
  <2> DEFINE b == req[t].block
             n == get_block_number(db, Parent[b])
             header == IF n = None THEN None ELSE get_block_header(db, n)
  <2>1. CASE header # None
    <3>1. HasParent(db, b)
      BY <2>1, ZenonT(60) DEF get_block_number, get_block_header, get_canonical_block_hash, HasParent
    <3>2. Goto(t, "validate") /\ req' = req
      BY <1>4, <2>1 DEF FindParentHeader, Reads
    <3>3. \A u \in Task : pc'[u] = IF u = t THEN "validate" ELSE pc[u]
      BY <1>0, <3>2, TaskMoves, ZenonT(60) DEF Goto
    <3>4. Linked(db')
      BY <1>0, <1>1, HasParentGrows, ZenonT(60) DEF LinkedInv, Linked
    <3>5. \A u \in Task : pc'[u] \in ParentSeen /\ req'[u].block # Genesis
                            => HasParent(db', req'[u].block)
      BY <1>0, <3>1, <3>2, <3>3, HasParentGrows, ZenonT(60) DEF LinkedInv
    <3> QED
      BY <3>4, <3>5 DEF LinkedInv
  <2>2. CASE header = None
    BY <1>2, <1>4, <2>2 DEF FindParentHeader, AnswerInvalid
  <2> QED
    BY <2>1, <2>2
<1>5. CASE ValidateParentCanonical(t)
  BY <1>2, <1>3, <1>5, ZenonT(60) DEF ValidateParentCanonical, Branches, Reads, Answer
<1>6. CASE ValidateBlock(t)
  BY <1>2, <1>3, <1>6, ZenonT(60) DEF ValidateBlock, Branches, Reads, AnswerInvalid
<1>7. CASE ExecuteBlock(t)
  BY <1>2, <1>3, <1>7 DEF ExecuteBlock, Branches, Reads, AnswerInvalid
<1>8. CASE ApplyAccountUpdates(t)
  BY <1>3, <1>8 DEF ApplyAccountUpdates, Writes
<1>9. CASE ValidateStateRoot(t)
  BY <1>2, <1>3, <1>9, ZenonT(60) DEF ValidateStateRoot, Branches, Reads, AnswerInvalid
<1> QED
  BY <1>4, <1>5, <1>6, <1>7, <1>8, <1>9, ZenonT(60) DEF AddBlock

\* set_canonical_block for a stored block: its parent's height is taken, and so
\* are all heights below.
LEMMA CanonicalLinked ==
  ASSUME NEW d \in Tables, TablesOK(d), Linked(d), NEW b \in d.headers
  PROVE  Linked(set_canonical_block(d, Number[b], b))
<1> DEFINE e == set_canonical_block(d, Number[b], b)
<1>1. b \in Block /\ Number[b] \in Heights /\ Verdict[b] = "ok"
  BY BlockAssumption DEF Tables, TablesOK
<1>2. /\ e.headers = d.headers /\ e.numbers = d.numbers
      /\ \A n \in Heights : e.canonical[n] = IF n = Number[b] THEN b ELSE d.canonical[n]
  BY <1>1, ZenonT(60) DEF set_canonical_block, Tables
<1>3. ASSUME NEW m \in Heights, m <= Number[b] PROVE e.canonical[m] # None
  <2>1. CASE m = Number[b]
    BY <1>1, <1>2, <2>1, BlockAssumption
  <2>2. CASE m < Number[b]
    <3>1. b # Genesis
      BY <2>2, GenesisAssumption DEF Heights
    <3>2. /\ Parent[b] \in Block /\ Number[b] = Number[Parent[b]] + 1
          /\ Number[Parent[b]] \in Heights
      BY <1>1, <3>1, HeaderAssumption, BlockAssumption
    <3>3. d.canonical[Number[Parent[b]]] # None
      BY <3>1 DEF Linked, HasParent
    <3>4. m <= Number[Parent[b]]
      BY <2>2, <3>2, BlockAssumption DEF Heights
    <3>5. d.canonical[m] # None
      BY <3>2, <3>3, <3>4 DEF Linked
    <3> QED
      BY <1>2, <2>2, <3>5 DEF Heights
  <2> QED
    BY <1>1, <1>3, <2>1, <2>2, BlockAssumption DEF Heights
<1>4. ASSUME NEW m \in Heights, NEW n \in Heights, m <= n, e.canonical[n] # None
      PROVE  e.canonical[m] # None
  <2>1. CASE n = Number[b]
    BY <1>3, <1>4, <2>1
  <2>2. CASE n # Number[b]
    <3>1. d.canonical[m] # None
      BY <1>2, <1>4, <2>2, ZenonT(60) DEF Linked
    <3> QED
      BY <1>1, <1>2, <3>1, BlockAssumption
  <2> QED
    BY <2>1, <2>2
<1>5. ASSUME NEW c \in e.headers \ {Genesis} PROVE HasParent(e, c)
  <2>1. HasParent(d, c)
    BY <1>2, ZenonT(60) DEF Linked
  <2>2. Parent[c] \in Block /\ Number[Parent[c]] \in Heights
    BY <2>1, BlockAssumption, ZenonT(60) DEF HasParent, Tables
  <2> QED
    BY <1>1, <1>2, <2>1, <2>2, BlockAssumption, ZenonT(60) DEF HasParent
<1> QED
  BY <1>4, <1>5 DEF Linked

LEMMA GotoLinked ==
  ASSUME IInv, IInv', LinkedInv, Grows(db, db'), NEW t \in Task, NEW p, Goto(t, p),
         UNCHANGED req, p \in ParentSeen => pc[t] \in ParentSeen, Linked(db')
  PROVE  LinkedInv'
<1>0. TypeOK /\ db \in Tables /\ db' \in Tables
  BY DEF IInv, TypeOK
<1>1. \A u \in Task : pc'[u] \in ParentSeen => pc[u] \in ParentSeen /\ req'[u] = req[u]
  BY <1>0, PlainGoto
<1>2. \A u \in Task : pc'[u] \in ParentSeen /\ req'[u].block # Genesis
                        => HasParent(db', req'[u].block)
  BY <1>0, <1>1, HasParentGrows DEF LinkedInv
<1> QED
  BY <1>2, ZenonT(60) DEF LinkedInv

LEMMA FinishLinked ==
  ASSUME IInv, IInv', LinkedInv, Grows(db, db'), NEW t \in Task, Finish(t), Linked(db')
  PROVE  LinkedInv'
<1>0. TypeOK /\ db \in Tables /\ db' \in Tables
  BY DEF IInv, TypeOK
<1>1. \A u \in Task : pc'[u] \in ParentSeen => pc[u] \in ParentSeen /\ req'[u] = req[u]
  BY <1>0, PlainFinish
<1>2. \A u \in Task : pc'[u] \in ParentSeen /\ req'[u].block # Genesis
                        => HasParent(db', req'[u].block)
  BY <1>0, <1>1, HasParentGrows DEF LinkedInv
<1> QED
  BY <1>2 DEF LinkedInv

LEMMA StoreLinked ==
  ASSUME IInv, IInv', LinkedInv, Grows(db, db'), NEW t \in Task, StoreAddBlock(t)
  PROVE  LinkedInv'
<1> USE DEF ParentSeen, StateWritten, LocationsWritten, BodyWritten, HeaderWritten,
            NumberWritten
<1>0. /\ TypeOK /\ db \in Tables /\ db' \in Tables /\ TablesOK(db)
      /\ TaskOK(pc[t], req[t], db)
  BY DEF IInv, TypeOK
<1>1. CASE SetCanonical(t)
  <2> DEFINE b == req[t].block
  <2>1. b \in db.headers /\ db' = set_canonical_block(db, Number[b], b)
    BY <1>0, <1>1, ZenonT(60) DEF SetCanonical, AnswerValid, TaskOK
  <2>2. Linked(db')
    BY <1>0, <2>1, CanonicalLinked DEF LinkedInv
  <2>3. CASE Goto(t, "set_config") /\ UNCHANGED req
    BY <2>2, <2>3, GotoLinked
  <2>4. CASE Finish(t)
    BY <2>2, <2>4, FinishLinked
  <2> QED
    BY <1>1, <2>3, <2>4, ZenonT(60) DEF SetCanonical, AnswerValid, Writes
<1>2. CASE AddBlockHeader(t)
  <2> DEFINE b == req[t].block
  <2>1. /\ db'.headers = db.headers \cup {b} /\ db'.canonical = db.canonical
        /\ Goto(t, "number") /\ UNCHANGED req /\ pc[t] = "header"
    BY <1>0, <1>2, ZenonT(60) DEF AddBlockHeader, add_block_header, Tables, Writes
  <2>2. b # Genesis => HasParent(db', b)
    BY <1>0, <2>1, HasParentGrows, ZenonT(60) DEF LinkedInv
  <2>3. Linked(db')
    BY <1>0, <2>1, <2>2, HasParentGrows, ZenonT(60) DEF LinkedInv, Linked
  <2> QED
    BY <2>1, <2>3, GotoLinked, ZenonT(60)
<1>3. CASE ~SetCanonical(t) /\ ~AddBlockHeader(t)
  <2>1. db'.headers = db.headers /\ db'.canonical = db.canonical /\ UNCHANGED req
    BY <1>0, <1>3, ZenonT(60) DEF StoreAddBlock, ReadLatestTotalDifficulty, AddTransactionLocations,
       AddBlockBody, AddBlockNumber, UpdateLatestBlockNumber, AddBlockTotalDifficulty,
       UpdateLatestTotalDifficulty, StoreReceipts, Reads, Writes,
       add_transaction_locations, add_block_body, add_block_number,
       update_latest_block_number, add_block_total_difficulty,
       update_latest_total_difficulty, add_receipts, Tables
  <2>2. Linked(db')
    BY <1>0, <2>1, HasParentGrows DEF LinkedInv, Linked
  <2>3. /\ pc[t] \in ParentSeen
        /\ \E p \in StateWritten : Goto(t, p)
    BY <1>3 DEF StoreAddBlock, ReadLatestTotalDifficulty, AddTransactionLocations,
       AddBlockBody, AddBlockNumber, UpdateLatestBlockNumber, AddBlockTotalDifficulty,
       UpdateLatestTotalDifficulty, StoreReceipts
  <2> QED
    BY <2>1, <2>2, <2>3, GotoLinked, ZenonT(60)
<1> QED
  BY <1>1, <1>2, <1>3, ZenonT(60)

LEMMA ForkchoiceLinked ==
  ASSUME IInv, IInv', LinkedInv, Grows(db, db'), NEW t \in Task, ForkchoiceStep(t)
  PROVE  LinkedInv'
<1>0. /\ TypeOK /\ db \in Tables /\ db' \in Tables /\ TablesOK(db)
      /\ TaskOK(pc[t], req[t], db)
  BY DEF IInv, TypeOK
<1>1. Linked(db')
  <2>1. CASE SetCanonicalHead(t)
    <3>1. req[t].block \in db.headers
      BY <1>0, <2>1, ZenonT(60) DEF SetCanonicalHead, TaskOK, HeadFound
    <3> QED
      BY <1>0, <2>1, <3>1, CanonicalLinked, ZenonT(60) DEF SetCanonicalHead, LinkedInv
  <2>2. CASE ~SetCanonicalHead(t)
    <3>1. db'.headers = db.headers /\ db'.canonical = db.canonical
      BY <1>0, <2>2, ZenonT(60) DEF ForkchoiceStep, HeadStored, TotalDifficultyCheck,
         ReadCanonicalAtHead, ReadLatestAtHead, HeadAdopted, UpdateIgnored,
         HeadParentCanonical, FindFinalized, CheckFinalized, UpdateFinalized, FindSafe,
         CheckSafe, UpdateSafe, BuildPayload, AddPayload, update_finalized_block_number,
         update_safe_block_number, add_payload, Branches, Reads, Answer, Tables
    <3> QED
      BY <1>0, <3>1, HasParentGrows DEF LinkedInv, Linked
  <2> QED
    BY <2>1, <2>2, ZenonT(60)
<1>2. CASE Finish(t)
  BY <1>1, <1>2, FinishLinked
<1>3. ASSUME NEW p \in HeadFound, Goto(t, p), UNCHANGED req PROVE LinkedInv'
  <2>1. p \notin ParentSeen
    BY DEF HeadFound, ParentSeen, StateWritten, LocationsWritten, BodyWritten,
           HeaderWritten, NumberWritten
  <2> QED
    BY <1>1, <1>3, <2>1, GotoLinked
<1>4. Finish(t) \/ \E p \in HeadFound : Goto(t, p) /\ UNCHANGED req
  <2> USE DEF HeadFound
  <2>1. CASE \/ HeadStored(t) \/ TotalDifficultyCheck(t) \/ ReadCanonicalAtHead(t)
             \/ ReadLatestAtHead(t) \/ HeadAdopted(t) \/ UpdateIgnored(t)
             \/ HeadParentCanonical(t) \/ SetCanonicalHead(t)
    BY <2>1 DEF HeadStored, TotalDifficultyCheck, ReadCanonicalAtHead, ReadLatestAtHead,
       HeadAdopted, UpdateIgnored, HeadParentCanonical, SetCanonicalHead, Branches,
       Reads, Writes, Answer
  <2>2. CASE \/ FindFinalized(t) \/ CheckFinalized(t) \/ UpdateFinalized(t)
             \/ FindSafe(t) \/ CheckSafe(t) \/ UpdateSafe(t)
             \/ BuildPayload(t) \/ AddPayload(t)
    BY <2>2, ZenonT(60) DEF FindFinalized, CheckFinalized, UpdateFinalized, FindSafe, CheckSafe,
       UpdateSafe, BuildPayload, AddPayload, Branches, Reads, Writes, Answer
  <2> QED
    BY <2>1, <2>2, ZenonT(60) DEF ForkchoiceStep
<1> QED
  BY <1>2, <1>3, <1>4

LEMMA RequestLinked ==
  ASSUME IInv, IInv', LinkedInv, NEW t \in Handler, Request(t)
  PROVE  LinkedInv'
<1>1. TypeOK /\ t \in Task /\ db' = db
  BY DEF IInv, Task, Request, NewPayload, ForkchoiceUpdated
<1>2. PICK p, q : p \in {"config", "fc_head"} /\ Goto(t, p) /\ req' = [req EXCEPT ![t] = q]
  BY DEF Request, NewPayload, ForkchoiceUpdated
<1>3. Plain
  BY <1>1, <1>2, PlainRequest, ZenonT(60) DEF Plain
<1> QED
  BY <1>1, <1>3, PlainLinked DEF Grows

LEMMA InitLinked == Init => LinkedInv
<1> SUFFICES ASSUME Init PROVE LinkedInv
  OBVIOUS
<1>1. Linked(db)
  BY DEF Init, EmptyTables, Linked
<1>2. \A t \in Task : pc[t] \notin ParentSeen
  BY DEF Init, ParentSeen, StateWritten, LocationsWritten, BodyWritten, HeaderWritten,
         NumberWritten
<1> QED
  BY <1>1, <1>2 DEF LinkedInv

LEMMA NextLinked ==
  ASSUME IInv, IInv', Grows(db, db'), LinkedInv, [Next]_vars
  PROVE  LinkedInv'
<1>1. CASE Boot
  BY <1>1, BootLinked
<1>2. ASSUME NEW t \in Task, Step(t) PROVE LinkedInv'
  BY <1>2, AddBlockLinked, StoreLinked, NewPayloadLinked, ForkchoiceLinked, ZenonT(60) DEF Step
<1>3. ASSUME NEW t \in Handler, Request(t) PROVE LinkedInv'
  BY <1>3, RequestLinked, ZenonT(60)
<1>4. CASE Crash
  <2>1. \A u \in Task : pc'[u] \notin ParentSeen
    BY <1>4, ZenonT(60) DEF Crash, ParentSeen, StateWritten, LocationsWritten, BodyWritten,
       HeaderWritten, NumberWritten
  <2> QED
    BY <1>4, <2>1 DEF Crash, LinkedInv
<1>5. CASE UNCHANGED vars
  BY <1>5 DEF vars, LinkedInv
<1> QED
  BY <1>1, <1>2, <1>3, <1>4, <1>5 DEF Next

-----------------------------------------------------------------------------
(***************************************************************************)
(* Heights and sequences.                                                  *)
(***************************************************************************)
LEMMA HeightNumber ==
  ASSUME NEW n \in Heights
  PROVE  n \in OptionNat /\ n \in Nat /\ n # None
  BY BlockAssumption DEF OptionNat, Heights

LEMMA SameElements ==
  ASSUME NEW S, NEW s \in Seq(S), NEW t \in Seq(S), Len(s) = Len(t),
         \A i \in 1 .. Len(s) : s[i] = t[i]
  PROVE  s = t
  OBVIOUS

LEMMA Joined ==
  ASSUME NEW S, NEW s \in Seq(S), NEW t \in Seq(S)
  PROVE  /\ s \o t \in Seq(S) /\ Len(s \o t) = Len(s) + Len(t)
         /\ \A i \in 1 .. Len(s) + Len(t) :
              (s \o t)[i] = IF i <= Len(s) THEN s[i] ELSE t[i - Len(s)]
  OBVIOUS

LEMMA ElementOf ==
  ASSUME NEW S, NEW s \in Seq(S), NEW i \in 1 .. Len(s)
  PROVE  s[i] \in S
  OBVIOUS

LEMMA HeadAndTail ==
  ASSUME NEW S, NEW s \in Seq(S), s # <<>>
  PROVE  /\ Head(s) \in S /\ Tail(s) \in Seq(S)
         /\ Len(Tail(s)) = Len(s) - 1
         /\ \A i \in 1 .. Len(Tail(s)) : Tail(s)[i] = s[i + 1]
  OBVIOUS

LEMMA NothingLeft ==
  ASSUME NEW s, s = <<>>
  PROVE  1 .. Len(s) = {}
  OBVIOUS

LEMMA OneBelow ==
  ASSUME NEW n \in Nat, NEW k \in Nat, n < k, n # 0
  PROVE  0 < n /\ n - 1 < k
  OBVIOUS

-----------------------------------------------------------------------------
(***************************************************************************)
(* The readers, whatever the handlers do.                                  *)
(***************************************************************************)
ReceiptScript == <<"header_by_hash", "body_by_hash", "parent", "receipt">>

TransactionMethods == {"getTransaction", "getRawTransaction", "getTransactionReceipt"}

Scripts ==
    {<<>>, <<"header">>, <<"body">>, <<"account">>, <<"config">>,
     <<"header", "body">>, <<"header", "parent">>, <<"body", "header">>,
     <<"header", "state_by_hash">>, <<"config", "header">>,
     <<"header", "body", "total">>, <<"header", "body", "receipt">>,
     <<"body", "header", "receipt">>, <<"account", "account", "account">>,
     <<"header", "body", "parent", "receipt">>,
     <<"header", "config", "account", "state_by_hash">>}

LEMMA JoinOne ==
  ASSUME NEW a, NEW b, NEW c
  PROVE  <<a, b>> \o <<c>> = <<a, b, c>>
<1> DEFINE S == {a, b, c}
           s == <<a, b>> \o <<c>>
           t == <<a, b, c>>
<1>1. <<a, b>> \in Seq(S) /\ <<c>> \in Seq(S) /\ t \in Seq(S)
  OBVIOUS
<1>2. s \in Seq(S) /\ Len(s) = 3 /\ s[1] = a /\ s[2] = b /\ s[3] = c
  BY <1>1, Joined
<1>3. Len(t) = 3 /\ t[1] = a /\ t[2] = b /\ t[3] = c
  OBVIOUS
<1> HIDE DEF S, s, t
<1>4. \A i \in 1 .. 3 : s[i] = t[i]
  BY <1>2, <1>3
<1> QED
  BY <1>1, <1>2, <1>3, <1>4, SameElements, ZenonT(60) DEF s, t

LEMMA JoinTwo ==
  ASSUME NEW a, NEW b, NEW c, NEW e
  PROVE  <<a, b>> \o <<c, e>> = <<a, b, c, e>>
<1> DEFINE S == {a, b, c, e}
           s == <<a, b>> \o <<c, e>>
           t == <<a, b, c, e>>
<1>1. <<a, b>> \in Seq(S) /\ <<c, e>> \in Seq(S) /\ t \in Seq(S)
  OBVIOUS
<1>2. s \in Seq(S) /\ Len(s) = 4 /\ s[1] = a /\ s[2] = b /\ s[3] = c /\ s[4] = e
  BY <1>1, Joined
<1>3. Len(t) = 4 /\ t[1] = a /\ t[2] = b /\ t[3] = c /\ t[4] = e
  OBVIOUS
<1> HIDE DEF S, s, t
<1>4. \A i \in 1 .. 4 : s[i] = t[i]
  BY <1>2, <1>3
<1> QED
  BY <1>1, <1>2, <1>3, <1>4, SameElements, ZenonT(60) DEF s, t

LEMMA ScriptCases ==
  ASSUME NEW m \in DOMAIN Script
  PROVE  /\ m \notin TransactionMethods \cup {"getPayload"} => Script[m] \in Scripts
         /\ m \in {"getTransaction", "getRawTransaction"} => Script[m] = <<"body_by_hash">>
         /\ m = "getTransactionReceipt" => Script[m] = ReceiptScript
         /\ m = "getPayload" => Script[m] = <<"payload">>
<1>1. /\ <<"header", "body">> \o <<"parent", "receipt">>
           = <<"header", "body", "parent", "receipt">>
      /\ <<"header", "body">> \o <<"receipt">> = <<"header", "body", "receipt">>
      /\ <<"header_by_hash", "body_by_hash">> \o <<"parent", "receipt">> = ReceiptScript
  BY JoinOne, JoinTwo DEF ReceiptScript
<1>2. m \in {"getBlock", "getTransactionCount", "getBlockReceipts", "getRawHeader",
             "getRawBlock", "getRawReceipts", "blockNumber", "blobBaseFee",
             "getTransactionAt", "getTransactionAtHash", "getRawTransaction",
             "getTransaction", "getTransactionReceipt", "call", "createAccessList",
             "estimateGas", "getAccount", "getProof", "getLogs", "feeHistory", "chainId",
             "exchangeConfig", "getPayload"}
  BY ZenonT(60) DEF Script
<1>3. /\ Script["getBlock"] = GetBlock /\ Script["getTransactionCount"] = GetBlockTransactionCount
      /\ Script["getBlockReceipts"] = GetBlockReceipts /\ Script["getRawHeader"] = GetRawHeader
      /\ Script["getRawBlock"] = GetRawBlock /\ Script["getRawReceipts"] = GetRawReceipts
      /\ Script["blockNumber"] = BlockNumber /\ Script["blobBaseFee"] = GetBlobBaseFee
  BY DEF Script
<1>4. /\ Script["getTransactionAt"] = GetTransactionByBlockNumberAndIndex
      /\ Script["getTransactionAtHash"] = GetTransactionByBlockHashAndIndex
      /\ Script["getRawTransaction"] = GetRawTransaction
      /\ Script["getTransaction"] = GetTransactionByHash
      /\ Script["getTransactionReceipt"] = GetTransactionReceipt
  BY ZenonT(60) DEF Script
<1>5. /\ Script["call"] = Call /\ Script["createAccessList"] = CreateAccessList
      /\ Script["estimateGas"] = EstimateGas /\ Script["getAccount"] = GetAccount
      /\ Script["getProof"] = GetProof /\ Script["getLogs"] = GetLogs
      /\ Script["feeHistory"] = FeeHistory /\ Script["chainId"] = ChainId
      /\ Script["exchangeConfig"] = ExchangeTransitionConfig /\ Script["getPayload"] = GetPayload
  BY DEF Script
<1> USE DEF Scripts, TransactionMethods
<1>6. CASE m \in {"getBlock", "getTransactionCount", "getBlockReceipts", "getRawHeader"}
  BY <1>6, <1>1, <1>3, ZenonT(60) DEF GetBlock, GetBlockTransactionCount, GetBlockReceipts, GetRawHeader,
     get_all_block_rpc_receipts
<1>7. CASE m \in {"getRawBlock", "getRawReceipts", "blockNumber", "blobBaseFee"}
  BY <1>7, <1>1, <1>3, ZenonT(60) DEF GetRawBlock, GetRawReceipts, BlockNumber, GetBlobBaseFee,
     get_all_block_receipts
<1>8. CASE m \in {"getTransactionAt", "getTransactionAtHash", "getRawTransaction",
                  "getTransaction", "getTransactionReceipt"}
  BY <1>8, <1>1, <1>4 DEF GetTransactionByBlockNumberAndIndex, GetTransactionByBlockHashAndIndex,
     GetTransactionByHash, GetRawTransaction, GetTransactionReceipt,
     get_all_block_rpc_receipts
<1>9. CASE m \in {"call", "createAccessList", "estimateGas", "getAccount", "getProof"}
  BY <1>9, <1>5, ZenonT(60) DEF Call, CreateAccessList, EstimateGas, GetAccount, GetProof
<1>10. CASE m \in {"getLogs", "feeHistory", "chainId", "exchangeConfig", "getPayload"}
  BY <1>10, <1>5, ZenonT(60) DEF GetLogs, FeeHistory, ChainId, ExchangeTransitionConfig, GetPayload
<1> QED
  BY <1>2, <1>6, <1>7, <1>8, <1>9, <1>10, ZenonT(60)

\* Parts a method reads of a block it reaches by its number.
ByNumber == Parts \ (ByHash \cup {"payload"})

LEMMA ShapeOne ==
  ASSUME NEW a \in ByNumber \ NeedsHeader
  PROVE  HeaderFirst(<<a>>) /\ <<a>> \in Seq(ByNumber)
  BY DEF HeaderFirst

LEMMA ShapeTwo ==
  ASSUME NEW a \in ByNumber \ NeedsHeader, NEW b \in ByNumber,
         b \in NeedsHeader => a \in HeaderParts
  PROVE  HeaderFirst(<<a, b>>) /\ <<a, b>> \in Seq(ByNumber)
  BY DEF HeaderFirst

LEMMA ShapeThree ==
  ASSUME NEW a \in ByNumber \ NeedsHeader, NEW b \in ByNumber \ NeedsHeader,
         NEW c \in ByNumber,
         c \in NeedsHeader => a \in HeaderParts \/ b \in HeaderParts
  PROVE  HeaderFirst(<<a, b, c>>) /\ <<a, b, c>> \in Seq(ByNumber)
  BY DEF HeaderFirst

LEMMA ShapeFour ==
  ASSUME NEW a \in HeaderParts \cap ByNumber, a \notin NeedsHeader, NEW b \in ByNumber,
         NEW c \in ByNumber, NEW e \in ByNumber
  PROVE  HeaderFirst(<<a, b, c, e>>) /\ <<a, b, c, e>> \in Seq(ByNumber)
  BY DEF HeaderFirst

LEMMA ScriptShape ==
  ASSUME NEW s \in Scripts
  PROVE  s \in Seq(ByNumber) /\ HeaderFirst(s)
<1> USE DEF ByNumber, Parts, ByHash, NeedsHeader, HeaderParts
<1>1. CASE s = <<>>
  BY <1>1 DEF HeaderFirst
<1>2. CASE s \in {<<"header">>, <<"body">>, <<"account">>, <<"config">>}
  BY <1>2, ShapeOne, ZenonT(60)
<1>3. CASE s \in {<<"header", "body">>, <<"header", "parent">>,
                  <<"header", "state_by_hash">>}
  BY <1>3, ShapeTwo, ZenonT(60)
<1>6. CASE s \in {<<"body", "header">>, <<"config", "header">>}
  BY <1>6, ShapeTwo, ZenonT(60)
<1>4. CASE s \in {<<"header", "body", "total">>, <<"header", "body", "receipt">>,
                  <<"body", "header", "receipt">>, <<"account", "account", "account">>}
  BY <1>4, ShapeThree, ZenonT(60)
<1>5. CASE s \in {<<"header", "body", "parent", "receipt">>,
                  <<"header", "config", "account", "state_by_hash">>}
  BY <1>5, ShapeFour, ZenonT(60)
<1> QED
  BY <1>1, <1>2, <1>3, <1>4, <1>5, <1>6, ZenonT(60) DEF Scripts

LEMMA BlockScriptShape ==
  ASSUME NEW m \in DOMAIN Script, NEW n, NEW last
  PROVE  LET s == BlockScript(m, n, last)
         IN  /\ s \in Seq(Parts) /\ HeaderFirst(s)
             /\ m \notin TransactionMethods =>
                  \A i \in 1 .. Len(s) : s[i] \notin ByHash
             /\ m \notin TransactionMethods \cup {"getPayload"} => s \in Seq(ByNumber)
             /\ m \in TransactionMethods => \A i \in 1 .. Len(s) : s[i] # "payload"
             /\ m = "getPayload" => s = <<"payload">>
<1> DEFINE s == BlockScript(m, n, last)
<1>1. CASE m \notin TransactionMethods \cup {"getPayload"}
  <2>1. s \in Scripts
    BY <1>1, ScriptCases DEF BlockScript, Scripts
  <2>2. s \in Seq(ByNumber) /\ HeaderFirst(s)
    BY <2>1, ScriptShape, ZenonT(60)
  <2>3. s \in Seq(Parts) /\ \A i \in 1 .. Len(s) : s[i] \notin ByHash
    BY <2>2 DEF ByNumber
  <2> QED
    BY <1>1, <2>2, <2>3, ZenonT(60)
<1>2. CASE m \in {"getTransaction", "getRawTransaction"}
  <2>1. s = <<"body_by_hash">>
    BY <1>2, ScriptCases DEF BlockScript
  <2>2. /\ <<"body_by_hash">> \in Seq(Parts) /\ HeaderFirst(<<"body_by_hash">>)
        /\ \A i \in 1 .. Len(<<"body_by_hash">>) : <<"body_by_hash">>[i] # "payload"
    BY DEF Parts, HeaderFirst, NeedsHeader
  <2> QED
    BY <1>2, <2>1, <2>2, ZenonT(60) DEF TransactionMethods
<1>3. CASE m = "getTransactionReceipt"
  <2>1. s = ReceiptScript
    BY <1>3, ScriptCases, ZenonT(60) DEF BlockScript
  <2>2. ReceiptScript \in Seq(Parts) /\ \A i \in 1 .. Len(ReceiptScript) : ReceiptScript[i] # "payload"
    BY DEF ReceiptScript, Parts
  <2>3. HeaderFirst(ReceiptScript)
    BY DEF ReceiptScript, HeaderFirst, NeedsHeader, HeaderParts
  <2> QED
    BY <1>3, <2>1, <2>2, <2>3, ZenonT(60) DEF TransactionMethods
<1>4. CASE m = "getPayload"
  <2>1. s = <<"payload">>
    BY <1>4, ScriptCases, ZenonT(60) DEF BlockScript
  <2>2. /\ <<"payload">> \in Seq(Parts) /\ HeaderFirst(<<"payload">>)
        /\ \A i \in 1 .. Len(<<"payload">>) : <<"payload">>[i] \notin ByHash
    BY DEF Parts, HeaderFirst, NeedsHeader, ByHash
  <2> QED
    BY <1>4, <2>1, <2>2, ZenonT(60) DEF TransactionMethods
<1> QED
  BY <1>1, <1>2, <1>3, <1>4, ZenonT(60) DEF TransactionMethods

\* What is left to read of a block: nothing, or the script of the method.
TodoOK(m, todo) ==
    /\ HeaderFirst(todo)
    /\ m \notin TransactionMethods => \A i \in 1 .. Len(todo) : todo[i] \notin ByHash
    /\ m = "getPayload" => \A i \in 1 .. Len(todo) : todo[i] = "payload"
    /\ m # "getPayload" => \A i \in 1 .. Len(todo) : todo[i] # "payload"

LEMMA TodoShape ==
  ASSUME NEW m \in DOMAIN Script, NEW n, NEW last, NEW todo \in {<<>>, BlockScript(m, n, last)}
  PROVE  TodoOK(m, todo)
<1> USE DEF TodoOK
<1>1. CASE todo = <<>>
  <2>1. 1 .. Len(todo) = {}
    BY <1>1
  <2> QED
    BY <2>1, ZenonT(60) DEF HeaderFirst
<1>2. CASE todo = BlockScript(m, n, last)
  <2>1. /\ HeaderFirst(todo)
        /\ m \notin TransactionMethods => \A i \in 1 .. Len(todo) : todo[i] \notin ByHash
        /\ m \notin TransactionMethods \cup {"getPayload"} => todo \in Seq(ByNumber)
        /\ m \in TransactionMethods => \A i \in 1 .. Len(todo) : todo[i] # "payload"
        /\ m = "getPayload" => todo = <<"payload">>
    BY <1>2, BlockScriptShape, ZenonT(60)
  <2>2. todo \in Seq(ByNumber) => \A i \in 1 .. Len(todo) : todo[i] # "payload"
    BY DEF ByNumber
  <2>3. todo = <<"payload">> => \A i \in 1 .. Len(todo) : todo[i] = "payload"
    OBVIOUS
  <2> QED
    BY <2>1, <2>2, <2>3, ZenonT(60)
<1> QED
  BY <1>1, <1>2, ZenonT(60)

LEMMA QueryType ==
  ASSUME NEW q \in Queries \cup {NoQuery}
  PROVE  /\ q \in Query /\ q.method \in DOMAIN Script /\ q.kind \in Kinds
         /\ q.method \in TransactionMethods <=> q.kind = "transaction"
         /\ q.method = "getPayload" <=> q.kind = "payload"
         /\ q.method \in {"getLogs", "feeHistory"} => q.kind # "hash"
         /\ q.method = "feeHistory" => q.kind = "number"
<1>1. CASE q \in Queries
  <2>1. /\ q \in Query
        /\ q.method \in {"getTransaction", "getRawTransaction", "getTransactionReceipt"}
             <=> q.kind = "transaction"
        /\ q.method = "getPayload" <=> q.kind = "payload"
        /\ q.method = "getLogs" => q.kind # "hash"
        /\ q.method = "feeHistory" => q.kind = "number"
    BY <1>1, QueryAssumption, ZenonT(60)
  <2>2. q.method \in DOMAIN Script /\ q.kind \in Kinds
    BY <2>1, ZenonT(60) DEF Query
  <2> QED
    BY <2>1, <2>2 DEF TransactionMethods
<1>2. CASE q = NoQuery
  <2>1. q.method = "blockNumber" /\ q.kind = "number" /\ q.number = 0 /\ q.blocks = {}
    BY <1>2, ZenonT(60) DEF NoQuery
  <2>2. "blockNumber" \in DOMAIN Script
    BY DEF Script
  <2>3. "number" \in Kinds /\ 0 \in Heights
    BY BlockAssumption DEF Kinds, Heights
  <2>4. q \in Query
    BY <1>2, <2>2, <2>3 DEF NoQuery, Query
  <2> QED
    BY <2>1, <2>2, <2>3, <2>4 DEF TransactionMethods
<1> QED
  BY <1>1, <1>2, ZenonT(60)

LEMMA TailFirst ==
  ASSUME NEW s \in Seq(Parts), s # <<>>, HeaderFirst(s), Head(s) \notin HeaderParts
  PROVE  HeaderFirst(Tail(s))
<1>1. /\ Tail(s) \in Seq(Parts) /\ Len(Tail(s)) = Len(s) - 1 /\ Len(s) \in Nat
      /\ \A i \in 1 .. Len(Tail(s)) : Tail(s)[i] = s[i + 1]
      /\ Head(s) = s[1]
  BY HeadAndTail
<1> SUFFICES ASSUME NEW i \in 1 .. Len(Tail(s)), Tail(s)[i] \in NeedsHeader
             PROVE  \E j \in 1 .. i - 1 : Tail(s)[j] \in HeaderParts
  BY ZenonT(60) DEF HeaderFirst
<1>2. PICK j \in 1 .. (i + 1) - 1 : s[j] \in HeaderParts
  BY <1>1 DEF HeaderFirst
<1>3. j # 1 /\ j - 1 \in 1 .. i - 1 /\ Tail(s)[j - 1] = s[j]
  BY <1>1, <1>2
<1> QED
  BY <1>2, <1>3, ZenonT(60)

LEMMA TailElements ==
  ASSUME NEW s \in Seq(Parts), s # <<>>
  PROVE  \A i \in 1 .. Len(Tail(s)) : \E j \in 1 .. Len(s) : Tail(s)[i] = s[j]
<1>1. /\ Len(Tail(s)) = Len(s) - 1 /\ Len(s) \in Nat
      /\ \A i \in 1 .. Len(Tail(s)) : Tail(s)[i] = s[i + 1]
  BY HeadAndTail
<1>2. \A i \in 1 .. Len(Tail(s)) : i + 1 \in 1 .. Len(s)
  BY <1>1
<1> QED
  BY <1>1, <1>2, ZenonT(60)

LEMMA TailHolds ==
  ASSUME NEW s \in Seq(Parts), s # <<>>, NEW S, \A i \in 1 .. Len(s) : s[i] \notin S
  PROVE  \A i \in 1 .. Len(Tail(s)) : Tail(s)[i] \notin S
  BY TailElements, ZenonT(60)

\* The next part, the next block of the range, or the end.
LEMMA AdvancedCases ==
  ASSUME NEW s \in ReaderStates, s.todo # <<>>
  PROVE  LET e == Advanced(s)
         IN  /\ e \in ReaderStates
             /\ e.query = s.query /\ e.last = s.last /\ e.block = s.block
             /\ e.found = s.found /\ e.missing = s.missing /\ e.due = s.due
             /\ \/ e.number = s.number /\ e.todo = Tail(s.todo)
                \/ /\ s.query.method \in {"getLogs", "feeHistory"} /\ s.number < s.last
                   /\ e.number = s.number + 1
                   /\ e.todo = BlockScript(s.query.method, e.number, s.last)
                \/ e.number = s.number /\ e.todo = <<>>
<1> DEFINE next == BlockScript(s.query.method, s.number + 1, s.last)
<1>1. /\ s.query.method \in DOMAIN Script /\ s.number \in Nat /\ s.last \in Nat
      /\ s.todo \in Seq(Parts)
  BY QueryType, ZenonT(60) DEF ReaderStates
<1>2. next \in Seq(Parts)
  BY <1>1, BlockScriptShape, ZenonT(60)
<1>3. Tail(s.todo) \in Seq(Parts)
  BY <1>1, HeadAndTail, ZenonT(60)
<1> HIDE DEF next
<1>4. CASE Len(s.todo) > 1
  BY <1>1, <1>3, <1>4, ZenonT(60) DEF Advanced, ReaderStates
<1>5. CASE ~(Len(s.todo) > 1) /\ s.query.method \in {"getLogs", "feeHistory"}
           /\ s.number < s.last
  <2>1. Advanced(s) = [s EXCEPT !.number = s.number + 1, !.todo = next]
    BY <1>5 DEF Advanced, next, ReaderStates
  <2>2. Advanced(s).number = s.number + 1 /\ Advanced(s).todo = next
    BY <2>1 DEF ReaderStates
  <2>3. Advanced(s).todo = BlockScript(s.query.method, Advanced(s).number, s.last)
    BY <2>2 DEF next
  <2>4. /\ Advanced(s) \in ReaderStates
        /\ Advanced(s).query = s.query /\ Advanced(s).last = s.last
        /\ Advanced(s).block = s.block /\ Advanced(s).found = s.found
        /\ Advanced(s).missing = s.missing /\ Advanced(s).due = s.due
    <3>1. PICK n \in Nat : n = s.number + 1
      BY <1>1
    <3>2. Advanced(s) = [s EXCEPT !.number = n, !.todo = next]
      BY <2>1, <3>1
    <3> QED
      BY <1>2, <3>2, ZenonT(60) DEF ReaderStates
  <2> QED
    BY <1>5, <2>2, <2>3, <2>4
<1>6. CASE ~(Len(s.todo) > 1) /\ ~(s.query.method \in {"getLogs", "feeHistory"}
                                     /\ s.number < s.last)
  <2>1. Advanced(s) = [s EXCEPT !.todo = <<>>]
    BY <1>6 DEF Advanced
  <2>2. <<>> \in Seq(Parts)
    OBVIOUS
  <2> QED
    BY <2>1, <2>2, ZenonT(60) DEF ReaderStates
<1> QED
  BY <1>4, <1>5, <1>6, ZenonT(60)

LEMMA AdvancedOK ==
  ASSUME NEW s, NEW d, ReaderOK(s, d), s.todo # <<>>,
         HeaderSeen(s) \/ Head(s.todo) \notin HeaderParts
  PROVE  ReaderOK(Advanced(s), d)
<1> DEFINE e == Advanced(s)
<1>1. /\ s \in ReaderStates /\ s.todo \in Seq(Parts) /\ s.missing = "none"
      /\ s.number \in Nat /\ s.last \in Nat /\ s.number <= s.last
      /\ s.query.method \in DOMAIN Script
  BY QueryType, ZenonT(60) DEF ReaderOK, ReaderStates
<1>2. /\ e \in ReaderStates
      /\ e.query = s.query /\ e.last = s.last /\ e.block = s.block
      /\ e.found = s.found /\ e.missing = s.missing /\ e.due = s.due
  BY <1>1, AdvancedCases, ZenonT(60)
<1>3. e.number <= s.last
  BY <1>1, AdvancedCases
<1>4. HeaderSeen(e) \/ HeaderFirst(e.todo)
  <2>1. CASE e.number = s.number /\ e.todo = Tail(s.todo)
    BY <1>1, <1>2, <2>1, TailFirst, ZenonT(60) DEF HeaderSeen, ReaderOK
  <2>2. CASE e.todo = BlockScript(s.query.method, e.number, s.last)
    BY <1>1, <2>2, BlockScriptShape, ZenonT(60)
  <2>3. CASE e.todo = <<>>
    BY <2>3, NothingLeft, ZenonT(60) DEF HeaderFirst
  <2> QED
    BY <1>1, <2>1, <2>2, <2>3, AdvancedCases, ZenonT(60)
<1>5. (\E i \in 1 .. Len(e.todo) : e.todo[i] \in ByHash) => s.block \in d.headers
  <2>1. CASE e.todo = Tail(s.todo)
    BY <1>1, <2>1, TailHolds, ZenonT(60) DEF ReaderOK
  <2>2. CASE /\ s.query.method \in {"getLogs", "feeHistory"}
             /\ e.todo = BlockScript(s.query.method, e.number, s.last)
    BY <1>1, <2>2, BlockScriptShape, ZenonT(60) DEF TransactionMethods
  <2>3. CASE e.todo = <<>>
    BY <2>3
  <2> QED
    BY <1>1, <2>1, <2>2, <2>3, AdvancedCases
<1> HIDE DEF e
<1> QED
  BY <1>1, <1>2, <1>3, <1>4, <1>5, ZenonT(60) DEF ReaderOK, e

LEMMA HeaderOfIsHeaderIn ==
  ASSUME NEW r
  PROVE  HeaderOf(r) = HeaderIn(reader[r])
  BY ZenonT(60) DEF HeaderOf, HeaderIn, HeaderParts

LEMMA HeaderIsStored ==
  ASSUME NEW s, NEW d \in Tables, ReaderOK(s, d)
  PROVE  IF HeaderSeen(s) THEN HeaderIn(s) \in d.headers ELSE HeaderIn(s) = None
<1> DEFINE headers == {p \in s.found : p.part \in HeaderParts /\ p.at = s.number}
<1>1. HeaderIn(s) = IF headers = {} THEN None ELSE (CHOOSE p \in headers : TRUE).block
  BY DEF HeaderIn
<1>2. HeaderSeen(s) <=> headers # {}
  BY DEF HeaderSeen
<1>3. headers # {} => (CHOOSE p \in headers : TRUE) \in headers
  BY ZenonT(60)
<1>4. \A p \in headers : p.block \in d.headers
  BY ZenonT(60) DEF ReaderOK
<1> HIDE DEF headers
<1> QED
  BY <1>1, <1>2, <1>3, <1>4, ZenonT(60)

\* The next part has its header, if it needs one.
LEMMA HeadPart ==
  ASSUME NEW s, NEW d, ReaderOK(s, d), s.todo # <<>>
  PROVE  /\ Head(s.todo) \in Parts /\ Head(s.todo) = s.todo[1] /\ 1 \in 1 .. Len(s.todo)
         /\ Head(s.todo) \in NeedsHeader => HeaderSeen(s)
<1>1. s.todo \in Seq(Parts)
  BY DEF ReaderOK, ReaderStates
<1>2. /\ Head(s.todo) \in Parts /\ Head(s.todo) = s.todo[1] /\ 1 \in 1 .. Len(s.todo)
  BY <1>1, HeadAndTail, ElementOf
<1>3. 1 .. 1 - 1 = {}
  OBVIOUS
<1> QED
  BY <1>2, <1>3, ZenonT(60) DEF ReaderOK, HeaderFirst

LEMMA RowType ==
  ASSUME IInv, NEW r \in Reader, ReaderOK(reader[r], db), NEW part \in Parts
  PROVE  /\ Row(r, part) \in OptionBlock
         /\ part \in HeaderParts /\ Row(r, part) # None => Row(r, part) \in db.headers
<1>0. /\ db \in Tables /\ TablesOK(db) /\ HeaderOf(r) \in OptionBlock
      /\ reader[r] \in ReaderStates
  BY HeaderOfIsHeaderIn, HeaderIsStored, ZenonT(60) DEF IInv, TypeOK, Tables, OptionBlock, ReaderOK
<1>1. CASE part \in {"header", "body", "receipt", "account"}
  BY <1>0, <1>1, ZenonT(60) DEF Row, get_block_header, get_block_body, get_receipt,
     get_account_info, get_account_info_by_hash, Stored, OptionBlock, Tables, HeaderParts
<1>2. CASE part \in {"total", "parent", "state_by_hash"}
  BY <1>0, <1>2 DEF Row, find_parent_header, get_block_header, get_account_info_by_hash,
     Stored, OptionBlock, Tables, HeaderParts
<1>3. CASE part \in {"header_by_hash", "body_by_hash"}
  <2>1. Row(r, part) \in {reader[r].block, None}
        /\ (Row(r, part) # None => Row(r, part) \in db.headers \cup db.bodies)
        /\ (part = "header_by_hash" /\ Row(r, part) # None => Row(r, part) \in db.headers)
    <3>1. CASE part = "header_by_hash"
      BY <3>1 DEF Row, get_block_header_by_hash
    <3>2. CASE part = "body_by_hash"
      BY <3>2 DEF Row, Stored
    <3> QED
      BY <1>3, <3>1, <3>2
  <2> QED
    BY <1>0, <1>3, <2>1, ZenonT(60) DEF OptionBlock, Tables, HeaderParts
<1>4. CASE part = "payload"
  BY <1>0, <1>4 DEF Row, get_payload, Stored, OptionBlock, Tables, HeaderParts
<1>5. CASE part = "config"
  BY <1>0, <1>5, BlockAssumption, ZenonT(60) DEF Row, OptionBlock, HeaderParts
<1> QED
  BY <1>1, <1>2, <1>3, <1>4, <1>5 DEF Parts

\* What the block of a reader that is due has a row for.
LEMMA RowThere ==
  ASSUME IInv, LinkedInv, NEW r \in Reader, ReaderOK(reader[r], db),
         reader[r].todo # <<>>, reader[r].due,
         NEW part, part = Head(reader[r].todo), Row(r, part) = None
  PROVE  \/ part \in LateParts \cup {"config", "payload"}
         \/ part = "parent" /\ HeaderIn(reader[r]) = Genesis
<1> DEFINE s == reader[r]
           n == s.number
<1>0. db \in Tables /\ TablesOK(db) /\ Linked(db)
  BY ZenonT(60) DEF IInv, TypeOK, LinkedInv
<1>1. part \in Parts /\ part = s.todo[1] /\ 1 \in 1 .. Len(s.todo)
      /\ (part \in NeedsHeader => HeaderSeen(s))
  BY HeadPart, ZenonT(60)
<1>2. n \in Heights /\ db.canonical[n] # None /\ db.canonical[n] \in db.headers
  <2>1. n \in Nat /\ s.last \in Heights /\ n <= s.last /\ db.canonical[s.last] # None
    BY ZenonT(60) DEF ReaderOK, ReaderStates
  <2>2. n \in Heights
    BY <2>1, BlockAssumption DEF Heights
  <2> QED
    BY <1>0, <2>1, <2>2, ZenonT(60) DEF Linked, TablesOK
<1>3. part \in NeedsHeader => HeaderIn(s) \in db.headers
  BY <1>0, <1>1, HeaderIsStored, ZenonT(60)
<1>4. HeaderOf(r) = HeaderIn(s)
  BY HeaderOfIsHeaderIn, ZenonT(60)
<1>5. part \notin {"header", "body", "account"}
  BY <1>0, <1>2, BlockAssumption, ZenonT(60) DEF Row, get_block_header, get_block_body,
     get_account_info, get_account_info_by_hash, get_canonical_block_hash, Stored,
     TablesOK, Tables
<1>6. part \notin ByHash
  <2>1. part \in ByHash => s.block \in db.headers
    BY <1>1, ZenonT(60) DEF ReaderOK
  <2> QED
    <3>1. db.headers \subseteq db.bodies /\ None \notin db.headers
      BY <1>0, BlockAssumption, ZenonT(60) DEF TablesOK, Tables
    <3>2. CASE part = "header_by_hash"
      BY <2>1, <3>1, <3>2, ZenonT(60) DEF Row, ByHash, get_block_header_by_hash
    <3>3. CASE part = "body_by_hash"
      BY <2>1, <3>1, <3>3, ZenonT(60) DEF Row, ByHash, Stored
    <3> QED
      BY <3>2, <3>3, ZenonT(60) DEF ByHash
<1>7. part # "state_by_hash"
  <2>1. db.headers \subseteq db.states /\ None \notin db.headers
    BY <1>0, BlockAssumption, ZenonT(60) DEF TablesOK, Tables
  <2> SUFFICES ASSUME part = "state_by_hash" PROVE FALSE
    BY ZenonT(60)
  <2>2. HeaderOf(r) \in db.headers
    BY <1>3, <1>4, ZenonT(60) DEF NeedsHeader
  <2>3. Row(r, part) = get_account_info_by_hash(HeaderOf(r))
    BY ZenonT(60) DEF Row, HeaderOf
  <2> QED
    BY <2>1, <2>2, <2>3, ZenonT(60) DEF get_account_info_by_hash, Stored
<1>8. part = "parent" => HeaderIn(s) = Genesis
  <2> SUFFICES ASSUME part = "parent", HeaderIn(s) # Genesis PROVE FALSE
    BY ZenonT(60)
  <2> DEFINE p == Parent[HeaderIn(s)]
  <2>1. p \in db.numbers /\ db.canonical[Number[p]] # None
    BY <1>0, <1>3, ZenonT(60) DEF Linked, HasParent, NeedsHeader
  <2>2. p \in Block /\ Number[p] \in Heights /\ Number[p] # None
    BY <1>0, <2>1, BlockAssumption DEF Tables, Heights
  <2>3. db.canonical[Number[p]] \in db.headers
    BY <1>0, <2>1, <2>2, ZenonT(60) DEF TablesOK
  <2>4. Row(r, part) = db.canonical[Number[p]]
    BY <1>4, <2>1, <2>2, <2>3, ZenonT(60) DEF Row, find_parent_header, get_block_number,
       get_block_header, get_canonical_block_hash
  <2> QED
    BY <2>1, <2>4, ZenonT(60)
<1> QED
  BY <1>1, <1>5, <1>6, <1>7, <1>8, ZenonT(60) DEF Parts, LateParts, ByHash

LEMMA IdleOK ==
  ASSUME NEW d
  PROVE  Idle \in ReaderStates /\ ReaderOK(Idle, d)
<1>2. Idle \in ReaderStates
  BY DEF Idle, ReaderStates, OptionBlock
<1>3. HeaderFirst(Idle.todo) /\ Idle.todo = <<>> /\ Idle.found = {} /\ Idle.due = FALSE
      /\ Idle.missing = "none" /\ Idle.query.kind = "number"
  BY DEF Idle, HeaderFirst, NoQuery
<1> QED
  BY <1>2, <1>3 DEF ReaderOK

LEMMA OneReaderMoves ==
  ASSUME ReadersInv, NEW r \in Reader, NEW s, reader' = [reader EXCEPT ![r] = s],
         ReaderOK(s, db), UNCHANGED db
  PROVE  ReadersInv'
<1>1. s \in ReaderStates
  BY DEF ReaderOK
<1> QED
  BY <1>1, ZenonT(60) DEF ReadersInv

LEMMA ReadKeeps ==
  ASSUME IInv, LinkedInv, ReadersInv, NEW r \in Reader, Read(r)
  PROVE  ReadersInv'
<1> DEFINE s == reader[r]
           part == Head(s.todo)
           row == Row(r, part)
           e == [s EXCEPT !.todo = <<>>, !.missing = part]
           f == [s EXCEPT !.found = s.found \cup
                   {[part |-> part, at |-> s.number, block |-> row]}]
<1>1. /\ db \in Tables /\ UNCHANGED db /\ s.todo # <<>>
      /\ s \in ReaderStates /\ ReaderOK(s, db)
  BY DEF IInv, TypeOK, Read, vars, ReadersInv
<1>2. part \in Parts /\ (part \in NeedsHeader => HeaderSeen(s))
  BY <1>1, HeadPart, ZenonT(60)
<1>3. /\ row \in OptionBlock
      /\ part \in HeaderParts /\ row # None => row \in db.headers
  BY <1>1, <1>2, RowType
<1>4. reader' = [reader EXCEPT ![r] = IF Skips(r, part) THEN Advanced(s)
                                      ELSE IF row = None THEN e ELSE Advanced(f)]
  BY ZenonT(60) DEF Read
<1>5. row = None /\ s.due =>
        \/ part \in LateParts \cup {"config", "payload"}
        \/ part = "parent" /\ HeaderIn(s) = Genesis
  BY <1>1, RowThere
<1> HIDE DEF part, row
<1>6. CASE Skips(r, part)
  <2>1. part \notin HeaderParts
    BY <1>6, ZenonT(60) DEF Skips, HeaderParts
  <2>2. ReaderOK(Advanced(s), db)
    BY <1>1, <2>1, AdvancedOK DEF part
  <2> QED
    BY <1>1, <1>4, <1>6, <2>2, OneReaderMoves, ZenonT(60)
<1>7. CASE ~Skips(r, part) /\ row = None
  <2>1. /\ e \in ReaderStates /\ e.todo = <<>> /\ e.missing = part
        /\ e.query = s.query /\ e.number = s.number /\ e.last = s.last
        /\ e.block = s.block /\ e.found = s.found /\ e.due = s.due
    <3>1. <<>> \in Seq(Parts)
      OBVIOUS
    <3> QED
      BY <1>1, <1>2, <3>1, ZenonT(60) DEF ReaderStates
  <2>2. HeaderIn(e) = HeaderIn(s)
    BY <2>1 DEF HeaderIn
  <2>3. HeaderFirst(e.todo)
    BY <2>1 DEF HeaderFirst
  <2>4. part # "number" /\ s.missing = "none"
    BY <1>1, <1>2, ZenonT(60) DEF Parts, ReaderOK
  <2> HIDE DEF e
  <2>5. ReaderOK(e, db)
    <3>1. 1 .. Len(e.todo) = {}
      BY <2>1, NothingLeft, ZenonT(60)
    <3>2. /\ \A p \in e.found : p.part \in HeaderParts => p.block \in db.headers
          /\ e.due => e.last \in Heights /\ db.canonical[e.last] # None
          /\ e.query.kind \in {"finalized", "safe"} => e.due
      BY <1>1, <2>1, <2>4, ZenonT(60) DEF ReaderOK
    <3>3. e.due => \/ e.missing \in LateParts \cup {"config", "payload"}
                   \/ e.missing = "parent" /\ HeaderIn(e) = Genesis
      BY <1>5, <1>7, <2>1, <2>2, ZenonT(60)
    <3> QED
      BY <2>1, <2>3, <3>1, <3>2, <3>3, ZenonT(60) DEF ReaderOK
  <2>6. reader' = [reader EXCEPT ![r] = e]
    BY <1>4, <1>7
  <2> QED
    BY <1>1, <2>5, <2>6, OneReaderMoves, ZenonT(60)
<1>8. CASE ~Skips(r, part) /\ row # None
  <2> DEFINE p == [part |-> part, at |-> s.number, block |-> row]
  <2>1. p \in Findings /\ p.part = part /\ p.at = s.number /\ p.block = row
    BY <1>1, <1>2, <1>3, <1>8, ZenonT(60) DEF Findings, OptionBlock, ReaderStates
  <2>2. /\ f \in ReaderStates /\ f.found = s.found \cup {p} /\ f.todo = s.todo
        /\ f.query = s.query /\ f.number = s.number /\ f.last = s.last
        /\ f.block = s.block /\ f.missing = s.missing /\ f.due = s.due
    BY <1>1, <2>1, ZenonT(60) DEF ReaderStates
  <2> HIDE DEF p, f
  <2>3. HeaderSeen(s) => HeaderSeen(f)
    BY <2>2, ZenonT(60) DEF HeaderSeen
  <2>4. part \in HeaderParts => HeaderSeen(f)
    BY <2>1, <2>2, ZenonT(60) DEF HeaderSeen
  <2>5. s.missing = "none"
    BY <1>1, ZenonT(60) DEF ReaderOK
  <2>6. \A x \in f.found : x.part \in HeaderParts => x.block \in db.headers
    BY <1>1, <1>3, <1>8, <2>1, <2>2, ZenonT(60) DEF ReaderOK
  <2>7. ReaderOK(f, db)
    BY <1>1, <2>2, <2>3, <2>5, <2>6, ZenonT(60) DEF ReaderOK
  <2>8. ReaderOK(Advanced(f), db)
    BY <1>1, <2>2, <2>4, <2>7, AdvancedOK, ZenonT(60) DEF part
  <2>9. reader' = [reader EXCEPT ![r] = Advanced(f)]
    BY <1>4, <1>8
  <2> QED
    BY <1>1, <2>8, <2>9, OneReaderMoves, ZenonT(60)
<1> QED
  BY <1>6, <1>7, <1>8

LEMMA Resolved ==
  ASSUME IInv, NEW q \in Queries, NEW found \in resolve_block_number(q), found[1] # None
  PROVE  /\ found[1] \in Nat /\ found[2] \in OptionBlock
         /\ q.method = "feeHistory" => db.earliest \in Nat /\ db.latest \in Nat
         /\ q.kind = "transaction" => found[2] \in db.headers
         /\ q.kind \in {"finalized", "safe"} =>
              found[1] \in Heights /\ db.canonical[found[1]] # None
<1>0. /\ db \in Tables /\ TablesOK(db) /\ q \in Query
  BY QueryAssumption, ZenonT(60) DEF IInv, TypeOK
<1>1. /\ q.kind \in Kinds /\ q.number \in Heights /\ q.blocks \subseteq Block
      /\ q.method = "feeHistory" => q.kind = "number"
  BY <1>0, QueryAssumption, ZenonT(60) DEF Query
<1>2. db.earliest \in OptionNat /\ db.latest \in OptionNat /\ db.finalized \in OptionNat
      /\ db.safe \in OptionNat
  BY <1>0 DEF Tables
<1>3. ~(q.method = "feeHistory" /\ None \in {db.earliest, db.latest})
  BY DEF resolve_block_number
<1>4. CASE q.kind \in {"number", "payload"}
  <2>1. found = <<q.number, None>>
    BY <1>3, <1>4, ZenonT(60) DEF resolve_block_number
  <2> QED
    BY <1>1, <1>2, <1>3, <1>4, <2>1, HeightNumber, ZenonT(60) DEF OptionBlock, OptionNat
<1>5. CASE q.kind = "hash"
  <2>1. PICK b \in q.blocks : found = <<get_block_number(db, b), b>>
    BY <1>3, <1>5, ZenonT(60) DEF resolve_block_number
  <2>2. b \in Block /\ Number[b] \in Heights
    BY <1>1, <2>1, BlockAssumption, ZenonT(60)
  <2> QED
    BY <1>1, <1>5, <2>1, <2>2, HeightNumber, ZenonT(60) DEF OptionBlock, get_block_number
<1>6. CASE q.kind = "transaction"
  <2>1. PICK b \in get_transaction_location(q.blocks) : found = <<Number[b], b>>
    BY <1>3, <1>6, ZenonT(60) DEF resolve_block_number
  <2>2. b \in Block /\ Number[b] \in Heights /\ db.canonical[Number[b]] = b
    BY <1>1, <2>1, BlockAssumption, ZenonT(60) DEF get_transaction_location, get_canonical_block_hash
  <2>3. b \in db.headers
    <3>1. b # None
      BY <2>2, BlockAssumption, ZenonT(60)
    <3> QED
      BY <1>0, <2>2, <3>1, ZenonT(60) DEF TablesOK
  <2> QED
    BY <1>1, <1>6, <2>1, <2>2, <2>3, HeightNumber, ZenonT(60) DEF OptionBlock
<1>7. CASE q.kind \in {"earliest", "finalized", "safe", "latest", "pending"}
  <2>1. found = <<TagNumber(q.kind), None>>
    BY <1>3, <1>7 DEF resolve_block_number
  <2>2. TagNumber(q.kind) \in OptionNat
    BY <1>2, <1>7, ZenonT(60) DEF TagNumber, OptionNat
  <2>3. q.kind \in {"finalized", "safe"} /\ TagNumber(q.kind) # None =>
          TagNumber(q.kind) \in Heights /\ db.canonical[TagNumber(q.kind)] # None
    BY <1>0, ZenonT(60) DEF TagNumber, TablesOK
  <2> QED
    BY <1>1, <1>7, <2>1, <2>2, <2>3, ZenonT(60) DEF OptionBlock, OptionNat
<1> QED
  BY <1>1, <1>4, <1>5, <1>6, <1>7, ZenonT(60) DEF Kinds

LEMMA RangeType ==
  ASSUME IInv, NEW q \in Queries, NEW n \in Nat,
         q.method = "feeHistory" => db.earliest \in Nat /\ db.latest \in Nat
  PROVE  /\ RangeOf(q, n).first \in Nat /\ RangeOf(q, n).last \in Nat
         /\ q.method # "feeHistory" => RangeOf(q, n).last = n
         /\ q.method \notin {"feeHistory", "getLogs"} => RangeOf(q, n).first = n
<1>1. q.number \in Nat
  BY QueryAssumption, HeightNumber DEF Query
<1>2. CASE q.method = "feeHistory"
  BY <1>2 DEF RangeOf, get_range
<1>3. CASE q.method = "getLogs"
  BY <1>1, <1>3 DEF RangeOf
<1>4. CASE q.method \notin {"feeHistory", "getLogs"}
  BY <1>4 DEF RangeOf
<1> QED
  BY <1>2, <1>3, <1>4, ZenonT(60)

\* The state of a reader whose request resolved to a number.
Asked(q, range, block) ==
    [Idle EXCEPT
       !.query = q, !.number = range.first, !.last = range.last, !.block = block,
       !.todo = IF range.first > range.last THEN <<>>
                ELSE BlockScript(q.method, range.first, range.last),
       !.due = get_canonical_block_hash(db, range.last) # None]

\* The request of a reader that has just been given a range and a block.
AskedAs(e, q, range, block) ==
    /\ e \in ReaderStates
    /\ e.query = q /\ e.number = range.first /\ e.last = range.last
    /\ e.block = block /\ e.found = {} /\ e.missing = "none"
    /\ e.due <=> get_canonical_block_hash(db, range.last) # None
    /\ HeaderFirst(e.todo)
    /\ q.kind # "transaction" => \A i \in 1 .. Len(e.todo) : e.todo[i] \notin ByHash
    /\ q.kind = "payload" => \A i \in 1 .. Len(e.todo) : e.todo[i] = "payload"
    /\ q.kind # "payload" => \A i \in 1 .. Len(e.todo) : e.todo[i] # "payload"
    /\ e.todo = <<>> \/ e.number <= e.last

LEMMA AskedFields ==
  ASSUME NEW q \in Queries, NEW range, range.first \in Nat, range.last \in Nat,
         NEW block \in OptionBlock
  PROVE  AskedAs(Asked(q, range, block), q, range, block)
<1> DEFINE todo == IF range.first > range.last THEN <<>>
                   ELSE BlockScript(q.method, range.first, range.last)
           due == get_canonical_block_hash(db, range.last) # None
           e == Asked(q, range, block)
<1>1. /\ q.method \in DOMAIN Script
      /\ q.method \in TransactionMethods <=> q.kind = "transaction"
      /\ q.method = "getPayload" <=> q.kind = "payload"
  BY QueryType, ZenonT(60)
<1>2. todo \in Seq(Parts) /\ due \in BOOLEAN
  BY <1>1, BlockScriptShape
<1>3. todo = <<>> \/ (range.first <= range.last
                        /\ todo = BlockScript(q.method, range.first, range.last))
  OBVIOUS
<1>7. /\ HeaderFirst(todo)
      /\ q.kind # "transaction" => \A i \in 1 .. Len(todo) : todo[i] \notin ByHash
      /\ q.kind = "payload" => \A i \in 1 .. Len(todo) : todo[i] = "payload"
      /\ q.kind # "payload" => \A i \in 1 .. Len(todo) : todo[i] # "payload"
  <2> DEFINE m == q.method
             first == range.first
             last == range.last
  <2>1. todo \in {<<>>, BlockScript(m, first, last)}
    BY <1>3, ZenonT(60)
  <2> HIDE DEF todo, first, last
  <2>2. TodoOK(m, todo)
    BY <1>1, <2>1, TodoShape, ZenonT(60)
  <2> QED
    BY <1>1, <2>2, ZenonT(60) DEF TodoOK
<1>a. e = [Idle EXCEPT !.query = q, !.number = range.first, !.last = range.last,
                       !.block = block, !.todo = todo, !.due = due]
  BY DEF Asked
<1> HIDE DEF todo, due, e
<1>4. e = [query |-> q, number |-> range.first, last |-> range.last, block |-> block,
           todo |-> todo, found |-> {}, missing |-> "none", due |-> due]
  BY <1>a, ZenonT(60) DEF Idle
<1>5. /\ e.query = q /\ e.number = range.first /\ e.last = range.last
      /\ e.block = block /\ e.found = {} /\ e.missing = "none" /\ e.due = due
      /\ e.todo = todo
  BY <1>4, ZenonT(60)
<1>6. e \in ReaderStates
  BY <1>2, <1>4 DEF ReaderStates
<1> QED
  BY <1>3, <1>5, <1>6, <1>7, ZenonT(60) DEF due, e, AskedAs

LEMMA AskKeeps ==
  ASSUME IInv, ReadersInv, NEW r \in Reader, NEW q \in Queries, Ask(r, q)
  PROVE  ReadersInv'
<1>1. db \in Tables /\ UNCHANGED db
  BY ZenonT(60) DEF IInv, TypeOK, Ask, vars
<1>2. ASSUME NEW found \in resolve_block_number(q), found[1] # None,
             reader' = [reader EXCEPT ![r] = Asked(q, RangeOf(q, found[1]), found[2])]
      PROVE  ReadersInv'
  <2> DEFINE range == RangeOf(q, found[1])
             e == Asked(q, range, found[2])
  <2>1. /\ found[1] \in Nat /\ found[2] \in OptionBlock
        /\ q.method = "feeHistory" => db.earliest \in Nat /\ db.latest \in Nat
        /\ q.kind = "transaction" => found[2] \in db.headers
        /\ q.kind \in {"finalized", "safe"} =>
             found[1] \in Heights /\ db.canonical[found[1]] # None
    BY <1>2, Resolved, ZenonT(60)
  <2>2. range.first \in Nat /\ range.last \in Nat
        /\ (q.method # "feeHistory" => range.last = found[1])
    BY <2>1, RangeType, ZenonT(60)
  <2> HIDE DEF range
  <2>3. AskedAs(e, q, range, found[2])
    BY <2>1, <2>2, AskedFields, ZenonT(60)
  <2>4. q.method = "feeHistory" => q.kind = "number"
    BY QueryType, ZenonT(60)
  <2> HIDE DEF e
  <2>5. /\ e \in ReaderStates /\ e.query = q /\ e.last = range.last
        /\ e.block = found[2] /\ e.found = {} /\ e.missing = "none"
        /\ e.due <=> get_canonical_block_hash(db, range.last) # None
        /\ HeaderFirst(e.todo)
        /\ e.todo = <<>> \/ e.number <= e.last
    BY <2>3, ZenonT(60) DEF AskedAs
  <2>6. (\E i \in 1 .. Len(e.todo) : e.todo[i] \in ByHash) => e.block \in db.headers
    BY <2>1, <2>3, <2>5, ZenonT(60) DEF AskedAs
  <2>7. e.due => e.last \in Heights /\ db.canonical[e.last] # None
    BY <2>5, ZenonT(60) DEF get_canonical_block_hash
  <2>8. q.kind \in {"finalized", "safe"} => e.due
    BY <2>1, <2>2, <2>4, <2>5, ZenonT(60) DEF get_canonical_block_hash
  <2>9. ReaderOK(e, db)
    BY <2>5, <2>6, <2>7, <2>8, ZenonT(60) DEF ReaderOK
  <2> QED
    BY <1>1, <1>2, <2>9, OneReaderMoves, ZenonT(60) DEF e, range
<1>3. CASE reader' = [reader EXCEPT ![r] = [Idle EXCEPT !.query = q, !.missing = "number"]]
  <2> DEFINE e == [Idle EXCEPT !.query = q, !.missing = "number"]
  <2>1. /\ e \in ReaderStates /\ e.todo = <<>> /\ e.found = {} /\ ~e.due
        /\ e.missing = "number"
    BY <1>1, IdleOK, ZenonT(60) DEF Idle, ReaderStates
  <2> HIDE DEF e
  <2>2. ReaderOK(e, db)
    <3>1. 1 .. Len(e.todo) = {}
      BY <2>1, NothingLeft, ZenonT(60)
    <3>2. HeaderFirst(e.todo)
      BY <3>1, ZenonT(60) DEF HeaderFirst
    <3> QED
      BY <2>1, <3>1, <3>2, ZenonT(60) DEF ReaderOK
  <2> QED
    BY <1>1, <1>3, <2>2, OneReaderMoves, ZenonT(60) DEF e
<1> QED
  BY <1>2, <1>3, ZenonT(60) DEF Ask, Asked

LEMMA RespondKeeps ==
  ASSUME ReadersInv, NEW r \in Reader, Respond(r)
  PROVE  ReadersInv'
  BY IdleOK, OneReaderMoves, ZenonT(60) DEF Respond, vars

\* Rows are only added, so a reader finds what it would have found before.
LEMMA ReaderOKGrows ==
  ASSUME NEW s, NEW d \in Tables, NEW e \in Tables, Grows(d, e), ReaderOK(s, d)
  PROVE  ReaderOK(s, e)
  BY ZenonT(60) DEF ReaderOK, Grows

LEMMA EngineKeepsReaders ==
  ASSUME IInv, IInv', ReadersInv, Grows(db, db'), UNCHANGED reader
  PROVE  ReadersInv'
  BY ReaderOKGrows, ZenonT(60) DEF IInv, TypeOK, ReadersInv

\* The readers leave the variables of module Engine alone.
LEMMA ReadersImplementEngine ==
  ASSUME [ReadersNext]_allVars
  PROVE  [Next]_vars
  BY ZenonT(60) DEF ReadersNext, allVars, Next, Ask, Read, Respond

LEMMA NextReaders ==
  ASSUME IInv, IInv', Grows(db, db'), LinkedInv, ReadersInv, [ReadersNext]_allVars
  PROVE  ReadersInv'
<1>1. CASE UNCHANGED reader
  BY <1>1, EngineKeepsReaders, ZenonT(60)
<1>2. CASE reader' = [r \in Reader |-> Idle]
  BY <1>2, IdleOK DEF ReadersInv
<1>3. ASSUME NEW r \in Reader, NEW q \in Queries, Ask(r, q) PROVE ReadersInv'
  BY <1>3, AskKeeps, ZenonT(60)
<1>4. ASSUME NEW r \in Reader, Read(r) \/ Respond(r) PROVE ReadersInv'
  BY <1>4, ReadKeeps, RespondKeeps, ZenonT(60)
<1> QED
  BY <1>1, <1>2, <1>3, <1>4, ZenonT(60) DEF ReadersNext, allVars

-----------------------------------------------------------------------------
(***************************************************************************)
(* One request at a time and no crash: the line is straight.               *)
(***************************************************************************)
LEMMA LineIsStraight ==
  ASSUME NEW d \in Tables, TablesOK(d), NEW k \in Nat, Line(d, k),
         \A b \in d.headers : b \in Canon(d) \/ d.canonical[Number[b]] = None
  PROVE  Straight(d)
<1>1. \A b \in d.headers : d.canonical[Number[b]] \in {None, b}
  BY ZenonT(60) DEF Canon
<1>2. ASSUME NEW n \in Heights, d.canonical[n] # None, NEW b, b = d.canonical[n]
      PROVE  /\ d.totals[b] # None
             /\ b # Genesis => /\ b \in d.receipts
                               /\ Parent[b] \in d.headers
                               /\ d.canonical[Number[Parent[b]]] = Parent[b]
  <2>1. b \in d.headers /\ b \in Block /\ Number[b] = n /\ n < k /\ n \in Nat
    <3>1. b \in d.headers /\ Number[b] = n /\ n < k
      BY <1>2, ZenonT(60) DEF TablesOK, Line
    <3>2. b \in Block
      BY <3>1, ZenonT(60) DEF Tables
    <3>3. n \in Nat
      BY BlockAssumption DEF Heights
    <3> QED
      BY <3>1, <3>2, <3>3, ZenonT(60)
  <2>2. b \in Canon(d)
    BY <1>2, <2>1, ZenonT(60) DEF Canon
  <2>3. d.totals[b] # None /\ (b # Genesis => b \in d.receipts)
    BY <2>2, ZenonT(60) DEF Line
  <2>4. ASSUME b # Genesis
        PROVE  Parent[b] \in d.headers /\ d.canonical[Number[Parent[b]]] = Parent[b]
    <3>1. n # 0
      BY <1>2, <2>1, <2>4, ZenonT(60) DEF Line
    <3>2. n - 1 \in Heights /\ n - 1 < k /\ Parent[b] = d.canonical[n - 1]
      <4>1. 0 < n /\ n - 1 < k
        BY <2>1, <3>1, OneBelow, ZenonT(60)
      <4>2. n - 1 \in Heights
        BY <4>1, BlockAssumption DEF Heights
      <4>3. Parent[d.canonical[n]] = d.canonical[n - 1]
        BY <2>1, <4>1, ZenonT(60) DEF Line
      <4> QED
        BY <1>2, <4>1, <4>2, <4>3, ZenonT(60)
    <3>3. d.canonical[n - 1] # None
      BY <3>2, ZenonT(60) DEF Line
    <3>4. Parent[b] \in d.headers /\ Number[Parent[b]] = n - 1
      BY <3>2, <3>3, ZenonT(60) DEF TablesOK
    <3> QED
      BY <3>2, <3>4, ZenonT(60)
  <2> QED
    BY <2>3, <2>4, ZenonT(60)
<1> QED
  BY <1>1, <1>2, ZenonT(60) DEF Straight

LEMMA SequentialStraight ==
  ASSUME IInv, SInv
  PROVE  Straight(db)
<1>0. db \in Tables /\ TablesOK(db) /\ pc \in [Task -> Labels]
  BY ZenonT(60) DEF IInv, TypeOK
<1>1. ASSUME Settled(db) PROVE Straight(db)
  <2>1. db.latest + 1 \in Nat /\ Line(db, db.latest + 1) /\ db.headers \subseteq Canon(db)
    BY <1>1, BlockAssumption DEF Settled, Heights
  <2>2. PICK k \in Nat : Line(db, k)
    BY <2>1
  <2> QED
    BY <1>0, <2>1, <2>2, LineIsStraight, ZenonT(60)
<1>2. ASSUME NEW t \in Task, pc[t] \notin Parked PROVE Straight(db)
  <2>0. Stage(pc[t], req[t], loc[t], db)
    BY <1>2, ZenonT(60) DEF SInv
  <2>1. CASE pc[t] \notin Founding \cup StateWritten
    BY <1>1, <2>0, <2>1, ZenonT(60) DEF Stage
  <2>2. CASE pc[t] \in StateWritten
    <3> DEFINE b == req[t].block
    <3>1. Joining(db, b)
      BY <2>0, <2>2, ZenonT(60) DEF Stage
    <3>2. b \in Block /\ Number[b] \in Heights /\ Number[b] \in Nat
      <4>1. TaskOK(pc[t], req[t], db)
        BY ZenonT(60) DEF IInv
      <4>2. b \in Block
        BY <2>2, <4>1, ZenonT(60) DEF TaskOK, BlockNamed
      <4>3. Number[b] \in Heights
        BY <4>2, BlockAssumption, ZenonT(60)
      <4> QED
        BY <4>2, <4>3, BlockAssumption DEF Heights
    <3>3. Line(db, Number[b]) /\ db.canonical[Number[b]] = None
      <4>1. ~(Number[b] < Number[b])
        BY <3>2
      <4> QED
        BY <3>1, <3>2, <4>1, ZenonT(60) DEF Joining, Line
    <3>4. \A c \in db.headers : c \in Canon(db) \/ db.canonical[Number[c]] = None
      BY <3>1, <3>3, ZenonT(60) DEF Joining
    <3> QED
      BY <1>0, <3>2, <3>3, <3>4, LineIsStraight, ZenonT(60)
  <2>3. CASE pc[t] = "start"
    <3>1. db.headers = {} /\ \A n \in Heights : db.canonical[n] = None
      <4>1. db = EmptyTables
        BY <2>0, <2>3, ZenonT(60) DEF Stage
      <4> QED
        BY <4>1, ZenonT(60) DEF EmptyTables
    <3> QED
      BY <3>1, ZenonT(60) DEF Straight
  <2>4. CASE pc[t] \in {"genesis_trie", "earliest"}
    <3>1. Line(db, 0) /\ db.headers = {}
      BY <2>0, <2>4, ZenonT(60) DEF Stage
    <3> QED
      BY <1>0, <3>1, LineIsStraight, ZenonT(60)
  <2>5. CASE pc[t] = "set_config"
    <3>1. Line(db, 1) /\ db.headers \subseteq Canon(db)
      BY <2>0, <2>5, ZenonT(60) DEF Stage
    <3> QED
      BY <1>0, <3>1, LineIsStraight, ZenonT(60)
  <2> QED
    BY <2>1, <2>2, <2>3, <2>4, <2>5, ZenonT(60) DEF Founding
<1> QED
  BY <1>1, <1>2, ZenonT(60) DEF SInv

LEMMA StraightNext == (IInv /\ SInv)' => Straight(db)'
<1>1. IInv /\ SInv => Straight(db)
  BY SequentialStraight
<1> QED
  BY <1>1, PTL

\* No canonical block is replaced.
LEMMA StraightStays ==
  ASSUME NEW d \in Tables, TablesOK(d), NEW e \in Tables, Grows(d, e), Straight(e),
         NEW n \in Heights, d.canonical[n] # None
  PROVE  e.canonical[n] = d.canonical[n]
<1>1. d.canonical[n] \in e.headers /\ Number[d.canonical[n]] = n /\ e.canonical[n] # None
  BY ZenonT(60) DEF TablesOK, Grows
<1> QED
  BY <1>1, ZenonT(60) DEF Straight

LEMMA StraightOKGrows ==
  ASSUME NEW s, s \in ReaderStates, NEW d \in Tables, TablesOK(d), NEW e \in Tables,
         Grows(d, e), Straight(e), StraightOK(s, d)
  PROVE  StraightOK(s, e)
<1>1. \A p \in s.found : OnLine(p, s, e)
  <2> SUFFICES ASSUME NEW p \in s.found PROVE OnLine(p, s, e)
    BY ZenonT(60)
  <2>1. OnLine(p, s, d) /\ p.block # None
    BY BlockAssumption, ZenonT(60) DEF StraightOK, ReaderStates, Findings
  <2>2. p.at \in Heights /\ d.canonical[p.at] # None => e.canonical[p.at] = d.canonical[p.at]
    BY StraightStays, ZenonT(60)
  <2> QED
    BY <2>1, <2>2, ZenonT(60) DEF OnLine
<1>2. s.block # None => s.block \in e.headers
  BY ZenonT(60) DEF StraightOK, Grows
<1>3. (\E i \in 1 .. Len(s.todo) : s.todo[i] \in ByHash) =>
        s.block # None /\ e.canonical[Number[s.block]] = s.block
  <2> SUFFICES ASSUME \E i \in 1 .. Len(s.todo) : s.todo[i] \in ByHash
               PROVE  s.block # None /\ e.canonical[Number[s.block]] = s.block
    BY ZenonT(60)
  <2>1. s.block # None /\ d.canonical[Number[s.block]] = s.block
    BY ZenonT(60) DEF StraightOK
  <2>2. Number[s.block] \in Heights
    BY <2>1, BlockAssumption, ZenonT(60) DEF ReaderStates, OptionBlock
  <2> QED
    BY <2>1, <2>2, StraightStays, ZenonT(60)
<1> QED
  BY <1>1, <1>2, <1>3, ZenonT(60) DEF StraightOK

LEMMA IdleStraight ==
  ASSUME NEW d
  PROVE  StraightOK(Idle, d)
<1>1. /\ Idle.todo = <<>> /\ Idle.found = {} /\ Idle.due = FALSE /\ Idle.block = None
      /\ Idle.query.kind = "number"
  BY ZenonT(60) DEF Idle, NoQuery
<1>2. 1 .. Len(Idle.todo) = {}
  BY <1>1
<1> QED
  BY <1>1, <1>2, ZenonT(60) DEF StraightOK, NoPayload

LEMMA AdvancedStraight ==
  ASSUME NEW s \in ReaderStates, NEW d, StraightOK(s, d), s.todo # <<>>,
         s.missing = "none"
  PROVE  StraightOK(Advanced(s), d)
<1> DEFINE e == Advanced(s)
<1>1. /\ s.todo \in Seq(Parts) /\ s.query.method \in DOMAIN Script
      /\ s.query.method = "getPayload" <=> s.query.kind = "payload"
  BY QueryType, ZenonT(60) DEF ReaderStates
<1>2. /\ e.query = s.query /\ e.last = s.last /\ e.block = s.block
      /\ e.found = s.found /\ e.missing = s.missing /\ e.due = s.due
  BY AdvancedCases, ZenonT(60)
<1>3. \/ e.number = s.number /\ e.todo = Tail(s.todo)
      \/ /\ s.query.method \in {"getLogs", "feeHistory"}
         /\ e.todo = BlockScript(s.query.method, e.number, s.last)
      \/ e.number = s.number /\ e.todo = <<>>
  BY AdvancedCases, ZenonT(60)
<1>4. s.query.method \in {"getLogs", "feeHistory"} =>
        \A i \in 1 .. Len(BlockScript(s.query.method, e.number, s.last)) :
            BlockScript(s.query.method, e.number, s.last)[i] \notin ByHash \cup {"payload"}
  <2> SUFFICES ASSUME s.query.method \in {"getLogs", "feeHistory"},
                      NEW x, x = BlockScript(s.query.method, e.number, s.last)
               PROVE  \A i \in 1 .. Len(x) : x[i] \notin ByHash \cup {"payload"}
    BY ZenonT(60)
  <2> HIDE DEF e
  <2>1. s.query.method \notin TransactionMethods \cup {"getPayload"}
    BY ZenonT(60) DEF TransactionMethods
  <2>2. x \in Seq(ByNumber)
    BY <1>1, <2>1, BlockScriptShape, ZenonT(60)
  <2>3. \A i \in 1 .. Len(x) : x[i] \in ByNumber
    BY <2>2, ElementOf, ZenonT(60)
  <2> QED
    BY <2>3, ZenonT(60) DEF ByNumber
<1> HIDE DEF e
<1>5. s.block # None => e.number = s.number
  BY <1>3, ZenonT(60) DEF StraightOK
<1>6. (\E i \in 1 .. Len(e.todo) : e.todo[i] \in ByHash) =>
        \E i \in 1 .. Len(s.todo) : s.todo[i] \in ByHash
  <2>1. CASE e.todo = Tail(s.todo)
    BY <1>1, <2>1, TailHolds, ZenonT(60)
  <2>2. CASE /\ s.query.method \in {"getLogs", "feeHistory"}
             /\ e.todo = BlockScript(s.query.method, e.number, s.last)
    BY <1>4, <2>2, ZenonT(60)
  <2>3. CASE e.todo = <<>>
    BY <2>3, NothingLeft, ZenonT(60)
  <2> QED
    BY <1>3, <2>1, <2>2, <2>3, ZenonT(60)
<1>7. ASSUME s.query.kind = "payload" PROVE PayloadOnly(e)
  <2>1. PayloadOnly(s) /\ s.query.method \notin {"getLogs", "feeHistory"}
    BY <1>1, <1>7, ZenonT(60) DEF StraightOK
  <2>2. \A i \in 1 .. Len(e.todo) : e.todo[i] = "payload"
    <3>1. CASE e.todo = Tail(s.todo)
      <4>1. \A i \in 1 .. Len(e.todo) : \E j \in 1 .. Len(s.todo) : e.todo[i] = s.todo[j]
        BY <1>1, <3>1, TailElements, ZenonT(60)
      <4> QED
        BY <2>1, <4>1, ZenonT(60) DEF PayloadOnly
    <3>2. CASE e.todo = <<>>
      BY <3>2, NothingLeft, ZenonT(60)
    <3> QED
      BY <1>3, <2>1, <3>1, <3>2, ZenonT(60)
  <2> QED
    BY <1>2, <2>1, <2>2, ZenonT(60) DEF PayloadOnly
<1>8. ASSUME s.query.kind # "payload" PROVE NoPayload(e)
  <2>1. \A i \in 1 .. Len(s.todo) : s.todo[i] \notin {"payload"}
    BY <1>8, ZenonT(60) DEF StraightOK, NoPayload
  <2>2. \A i \in 1 .. Len(e.todo) : e.todo[i] # "payload"
    <3>1. CASE e.todo = Tail(s.todo)
      <4>1. \A i \in 1 .. Len(Tail(s.todo)) : Tail(s.todo)[i] \notin {"payload"}
        BY <1>1, <2>1, TailHolds, ZenonT(60)
      <4> QED
        BY <3>1, <4>1, ZenonT(60)
    <3>2. CASE e.todo = <<>>
      BY <3>2, NothingLeft, ZenonT(60)
    <3>3. CASE /\ s.query.method \in {"getLogs", "feeHistory"}
               /\ e.todo = BlockScript(s.query.method, e.number, s.last)
      BY <1>4, <3>3, ZenonT(60)
    <3> QED
      BY <1>3, <3>1, <3>2, <3>3, ZenonT(60)
  <2> QED
    BY <1>2, <1>8, <2>2, ZenonT(60) DEF StraightOK, NoPayload
<1>9. \A p \in s.found : OnLine(p, e, d)
  BY <1>2, ZenonT(60) DEF StraightOK, OnLine
<1> QED
  BY <1>2, <1>5, <1>6, <1>7, <1>8, <1>9, ZenonT(60) DEF StraightOK, e

\* The header a reader has found is that of the canonical block.
LEMMA HeaderOnLine ==
  ASSUME NEW s \in ReaderStates, NEW d, StraightOK(s, d), HeaderSeen(s)
  PROVE  s.number \in Heights /\ HeaderIn(s) = d.canonical[s.number]
<1> DEFINE headers == {p \in s.found : p.part \in HeaderParts /\ p.at = s.number}
<1>1. headers # {} /\ HeaderIn(s) = (CHOOSE p \in headers : TRUE).block
  BY ZenonT(60) DEF HeaderIn, HeaderSeen
<1>2. (CHOOSE p \in headers : TRUE) \in headers
  BY <1>1, ZenonT(60)
<1>3. \A p \in headers : s.number \in Heights /\ p.block = d.canonical[s.number]
  BY ZenonT(60) DEF StraightOK, OnLine, HeaderParts
<1> HIDE DEF headers
<1> QED
  BY <1>1, <1>2, <1>3, ZenonT(60)

LEMMA RowOnLine ==
  ASSUME IInv, Straight(db), NEW r \in Reader, ReaderOK(reader[r], db),
         StraightOK(reader[r], db), reader[r].todo # <<>>,
         NEW part, part = Head(reader[r].todo), Row(r, part) # None,
         NEW p, p = [part |-> part, at |-> reader[r].number, block |-> Row(r, part)]
  PROVE  OnLine(p, reader[r], db)
<1> DEFINE s == reader[r]
           n == s.number
<1>0. /\ db \in Tables /\ s \in ReaderStates
      /\ p.part = part /\ p.at = n /\ p.block = Row(r, part)
  BY ZenonT(60) DEF IInv, TypeOK, ReaderOK
<1>1. /\ part \in Parts /\ part = s.todo[1] /\ 1 \in 1 .. Len(s.todo)
      /\ part \in NeedsHeader => HeaderSeen(s)
  BY HeadPart, ZenonT(60)
<1>2. HeaderOf(r) = HeaderIn(s)
  BY HeaderOfIsHeaderIn, ZenonT(60)
<1>3. part \in NeedsHeader => n \in Heights /\ HeaderIn(s) = db.canonical[n]
  BY <1>0, <1>1, HeaderOnLine, ZenonT(60)
<1>4. HeaderSeen(s) => HeaderIn(s) \in db.headers
  BY <1>0, HeaderIsStored, ZenonT(60)
<1>5. CASE part \in {"header", "body", "receipt", "account"}
  <2>1. Row(r, part) = get_canonical_block_hash(db, n)
    BY <1>5, ZenonT(60) DEF Row, get_block_header, get_block_body, get_receipt,
       get_account_info, get_account_info_by_hash, Stored
  <2>2. n \in Heights /\ Row(r, part) = db.canonical[n]
    BY <2>1, ZenonT(60) DEF get_canonical_block_hash
  <2> QED
    BY <1>0, <1>5, <2>2, ZenonT(60) DEF OnLine
<1>6. CASE part \in {"total", "state_by_hash"}
  <2>1. Row(r, part) = HeaderIn(s)
    BY <1>2, <1>6, ZenonT(60) DEF Row, get_account_info_by_hash, Stored
  <2> QED
    BY <1>0, <1>3, <1>6, <2>1, ZenonT(60) DEF OnLine, NeedsHeader
<1>7. CASE part = "parent"
  <2> DEFINE b == HeaderIn(s)
  <2>1. n \in Heights /\ b = db.canonical[n] /\ b \in db.headers
    BY <1>1, <1>3, <1>4, <1>7, ZenonT(60) DEF NeedsHeader
  <2>2. b # None
    BY <1>0, <2>1, BlockAssumption, ZenonT(60) DEF Tables
  <2>3. Parent[b] \in db.numbers
    BY <1>2, <1>7, BlockAssumption, ZenonT(60) DEF Row, find_parent_header, get_block_number
  <2>4. b # Genesis
    BY <1>0, <2>3, GenesisAssumption, BlockAssumption, ZenonT(60) DEF Tables
  <2>5. db.canonical[Number[Parent[b]]] = Parent[b]
    BY <2>1, <2>2, <2>4, ZenonT(60) DEF Straight
  <2>6. Number[Parent[b]] \in Heights /\ Number[Parent[b]] # None
    BY <1>0, <2>3, BlockAssumption, HeightNumber, ZenonT(60) DEF Tables
  <2>7. Row(r, part) = Parent[b]
    BY <1>2, <1>7, <2>3, <2>5, <2>6, ZenonT(60) DEF Row, find_parent_header, get_block_number,
       get_block_header, get_canonical_block_hash
  <2> QED
    BY <1>0, <1>7, <2>1, <2>2, <2>7, ZenonT(60) DEF OnLine
<1>8. CASE part \in {"header_by_hash", "body_by_hash"}
  <2>1. Row(r, part) = s.block
    <3>1. CASE part = "header_by_hash"
      BY <3>1, ZenonT(60) DEF Row, get_block_header_by_hash
    <3>2. CASE part = "body_by_hash"
      BY <3>2, ZenonT(60) DEF Row, Stored
    <3> QED
      BY <1>8, <3>1, <3>2, ZenonT(60)
  <2>2. s.block # None /\ db.canonical[Number[s.block]] = s.block /\ n = Number[s.block]
    BY <1>1, <1>8, ZenonT(60) DEF StraightOK, ByHash
  <2>3. n \in Heights
    BY <1>0, <2>2, BlockAssumption, ZenonT(60) DEF ReaderStates, OptionBlock
  <2> QED
    BY <1>0, <1>8, <2>1, <2>2, <2>3, ZenonT(60) DEF OnLine
<1>9. CASE part = "payload"
  <2>1. Row(r, part) = CHOOSE b \in s.query.blocks : TRUE
    BY <1>9, ZenonT(60) DEF Row, get_payload, Stored
  <2> QED
    BY <1>0, <1>9, <2>1, ZenonT(60) DEF OnLine
<1>10. CASE part = "config"
  BY <1>0, <1>10, ZenonT(60) DEF OnLine
<1> QED
  BY <1>1, <1>5, <1>6, <1>7, <1>8, <1>9, <1>10, ZenonT(60) DEF Parts

\* Receipts and total difficulty of a canonical block are there.
LEMMA LateThere ==
  ASSUME IInv, LinkedInv, Straight(db), NEW r \in Reader, ReaderOK(reader[r], db),
         StraightOK(reader[r], db), reader[r].todo # <<>>, reader[r].due,
         NEW part, part = Head(reader[r].todo), Row(r, part) = None, ~Skips(r, part)
  PROVE  part \notin LateParts
<1> DEFINE s == reader[r]
           n == s.number
           b == db.canonical[n]
<1> SUFFICES ASSUME part \in {"receipt", "total"} PROVE FALSE
  BY DEF LateParts
<1>0. db \in Tables /\ s \in ReaderStates /\ HeaderSeen(s)
  BY HeadPart, ZenonT(60) DEF IInv, TypeOK, ReaderOK, NeedsHeader
<1>1. n \in Heights /\ HeaderOf(r) = b /\ b \in db.headers
  BY <1>0, HeaderOfIsHeaderIn, HeaderOnLine, HeaderIsStored, ZenonT(60)
<1>2. b \in Block /\ b # None
  BY <1>0, <1>1, BlockAssumption, ZenonT(60) DEF Tables
<1>3. db.totals[b] # None /\ (b # Genesis => b \in db.receipts)
  BY <1>1, <1>2, ZenonT(60) DEF Straight
<1>4. part # "total"
  BY <1>1, <1>2, <1>3, ZenonT(60) DEF Row, Stored
<1>5. part # "receipt"
  BY <1>1, <1>2, <1>3, ZenonT(60) DEF Row, get_receipt, get_canonical_block_hash, Skips
<1> QED
  BY <1>4, <1>5, ZenonT(60)

LEMMA ReadStraight ==
  ASSUME IInv, LinkedInv, Straight(db), ReadersInv, NEW r \in Reader,
         StraightOK(reader[r], db), Read(r)
  PROVE  StraightOK(reader'[r], db)
<1> DEFINE s == reader[r]
           part == Head(s.todo)
           row == Row(r, part)
           p == [part |-> part, at |-> s.number, block |-> row]
           e == [s EXCEPT !.todo = <<>>, !.missing = part]
           f == [s EXCEPT !.found = s.found \cup {p}]
<1>1. /\ s.todo # <<>> /\ s \in ReaderStates /\ ReaderOK(s, db) /\ s.missing = "none"
  BY ZenonT(60) DEF Read, ReadersInv, ReaderOK
<1>2. /\ part \in Parts /\ part = s.todo[1] /\ 1 \in 1 .. Len(s.todo)
  BY <1>1, HeadPart, ZenonT(60)
<1>3. row \in OptionBlock
  BY <1>1, <1>2, RowType, ZenonT(60)
<1>4. reader'[r] = IF Skips(r, part) THEN Advanced(s)
                   ELSE IF row = None THEN e ELSE Advanced(f)
  BY DEF Read, ReadersInv
<1>5. row = None /\ s.due /\ ~Skips(r, part) => part \notin LateParts
  BY <1>1, LateThere, ZenonT(60)
<1>6. row # None => OnLine(p, s, db)
  BY <1>1, RowOnLine, ZenonT(60)
<1>7. s.query.kind = "payload" <=> part = "payload"
  BY <1>2, ZenonT(60) DEF StraightOK, PayloadOnly, NoPayload
<1> HIDE DEF part, row
<1>8. CASE Skips(r, part)
  BY <1>1, <1>4, <1>8, AdvancedStraight
<1>9. CASE ~Skips(r, part) /\ row = None
  <2>1. /\ e.todo = <<>> /\ e.missing = part
        /\ e.query = s.query /\ e.number = s.number /\ e.last = s.last
        /\ e.block = s.block /\ e.found = s.found /\ e.due = s.due
    BY <1>1 DEF ReaderStates
  <2> HIDE DEF e
  <2>2. \A x \in s.found : OnLine(x, e, db)
    BY <2>1, ZenonT(60) DEF StraightOK, OnLine
  <2>3. IF e.query.kind = "payload" THEN PayloadOnly(e) ELSE NoPayload(e)
    <3>1. 1 .. Len(e.todo) = {}
      BY <2>1
    <3>2. IF s.query.kind = "payload" THEN PayloadOnly(s) ELSE NoPayload(s)
      BY ZenonT(60) DEF StraightOK
    <3> QED
      BY <2>1, <3>1, <3>2, ZenonT(60) DEF PayloadOnly, NoPayload
  <2>4. StraightOK(e, db)
    <3>1. ~ \E i \in 1 .. Len(e.todo) : e.todo[i] \in ByHash
      BY <2>1
    <3>2. e.block # None =>
            /\ e.block \in db.headers /\ e.number = Number[e.block]
            /\ e.query.method \notin {"getLogs", "feeHistory"}
            /\ \A x \in e.found : x.at = e.number
      BY <2>1, ZenonT(60) DEF StraightOK
    <3>3. e.due => e.missing \notin LateParts
      BY <1>5, <1>9, <2>1, ZenonT(60)
    <3> QED
      BY <2>1, <2>2, <2>3, <3>1, <3>2, <3>3, ZenonT(60) DEF StraightOK
  <2> QED
    BY <1>4, <1>9, <2>4, ZenonT(60)
<1>10. CASE ~Skips(r, part) /\ row # None
  <2>1. p \in Findings /\ p.part = part /\ p.at = s.number /\ p.block = row
    BY <1>1, <1>2, <1>3, <1>10, ZenonT(60) DEF Findings, OptionBlock, ReaderStates
  <2>2. /\ f \in ReaderStates /\ f.found = s.found \cup {p} /\ f.todo = s.todo
        /\ f.query = s.query /\ f.number = s.number /\ f.last = s.last
        /\ f.block = s.block /\ f.missing = s.missing /\ f.due = s.due
    BY <1>1, <2>1 DEF ReaderStates
  <2> HIDE DEF p, f
  <2>3. \A x \in f.found : OnLine(x, f, db)
    BY <1>6, <1>10, <2>2, ZenonT(60) DEF StraightOK, OnLine
  <2>4. IF s.query.kind = "payload" THEN PayloadOnly(f) ELSE NoPayload(f)
    BY <1>7, <2>1, <2>2, ZenonT(60) DEF StraightOK, PayloadOnly, NoPayload
  <2>5. s.block # None => \A x \in f.found : x.at = s.number
    BY <2>1, <2>2, ZenonT(60) DEF StraightOK
  <2>6. StraightOK(f, db)
    BY <1>1, <2>2, <2>3, <2>4, <2>5, ZenonT(60) DEF StraightOK
  <2>7. StraightOK(Advanced(f), db)
    BY <1>1, <2>2, <2>6, AdvancedStraight, ZenonT(60)
  <2> QED
    BY <1>4, <1>10, <2>7, ZenonT(60)
<1> QED
  BY <1>8, <1>9, <1>10, ZenonT(60)

LEMMA ResolvedBlock ==
  ASSUME IInv, NEW q \in Queries, NEW found \in resolve_block_number(q), found[1] # None
  PROVE  /\ found[2] # None =>
              /\ q.kind \in {"hash", "transaction"}
              /\ found[2] \in db.headers /\ found[1] = Number[found[2]]
         /\ q.kind = "transaction" =>
              found[2] # None /\ db.canonical[Number[found[2]]] = found[2]
<1>0. /\ db \in Tables /\ TablesOK(db) /\ q.kind \in Kinds /\ q.blocks \subseteq Block
  BY QueryAssumption, ZenonT(60) DEF IInv, TypeOK, Query
<1>1. ~(q.method = "feeHistory" /\ None \in {db.earliest, db.latest})
  BY DEF resolve_block_number
<1>2. CASE q.kind \in {"number", "payload"}
  <2>1. found = <<q.number, None>>
    BY <1>1, <1>2 DEF resolve_block_number
  <2> QED
    BY <1>2, <2>1
<1>3. CASE q.kind = "hash"
  <2>1. PICK b \in q.blocks : found = <<get_block_number(db, b), b>>
    BY <1>1, <1>3 DEF resolve_block_number
  <2>2. b \in db.numbers /\ found[1] = Number[b] /\ found[2] = b
    BY <2>1, ZenonT(60) DEF get_block_number
  <2> QED
    BY <1>0, <1>3, <2>2, ZenonT(60) DEF TablesOK
<1>4. CASE q.kind = "transaction"
  <2>1. PICK b \in get_transaction_location(q.blocks) : found = <<Number[b], b>>
    BY <1>1, <1>4, ZenonT(60) DEF resolve_block_number
  <2>2. b \in Block /\ Number[b] \in Heights /\ db.canonical[Number[b]] = b
    BY <1>0, <2>1, BlockAssumption, ZenonT(60) DEF get_transaction_location, get_canonical_block_hash
  <2>3. b \in db.headers
    <3>1. b # None
      BY <2>2, BlockAssumption, ZenonT(60)
    <3> QED
      BY <1>0, <2>2, <3>1, ZenonT(60) DEF TablesOK
  <2> QED
    BY <1>4, <2>1, <2>2, <2>3, BlockAssumption, ZenonT(60)
<1>5. CASE q.kind \in {"earliest", "finalized", "safe", "latest", "pending"}
  <2>1. found = <<TagNumber(q.kind), None>>
    BY <1>1, <1>5 DEF resolve_block_number
  <2> QED
    BY <1>5, <2>1
<1> QED
  BY <1>0, <1>2, <1>3, <1>4, <1>5, ZenonT(60) DEF Kinds

LEMMA AskStraight ==
  ASSUME IInv, ReadersInv, NEW r \in Reader, NEW q \in Queries, Ask(r, q)
  PROVE  StraightOK(reader'[r], db)
<1>1. ASSUME NEW found \in resolve_block_number(q), found[1] # None,
             reader' = [reader EXCEPT ![r] = Asked(q, RangeOf(q, found[1]), found[2])]
      PROVE  StraightOK(reader'[r], db)
  <2> DEFINE range == RangeOf(q, found[1])
             e == Asked(q, range, found[2])
  <2>1. /\ found[1] \in Nat /\ found[2] \in OptionBlock
        /\ q.method = "feeHistory" => db.earliest \in Nat /\ db.latest \in Nat
    BY <1>1, Resolved, ZenonT(60)
  <2>2. /\ range.first \in Nat /\ range.last \in Nat
        /\ q.method \notin {"feeHistory", "getLogs"} => range.first = found[1]
    BY <2>1, RangeType, ZenonT(60)
  <2>3. /\ found[2] # None =>
             /\ q.kind \in {"hash", "transaction"}
             /\ found[2] \in db.headers /\ found[1] = Number[found[2]]
        /\ q.kind = "transaction" =>
             found[2] # None /\ db.canonical[Number[found[2]]] = found[2]
    BY <1>1, ResolvedBlock
  <2> HIDE DEF range
  <2>4. AskedAs(e, q, range, found[2])
    BY <2>1, <2>2, AskedFields, ZenonT(60)
  <2>5. q.method \in {"getLogs", "feeHistory"} => q.kind # "hash" /\ q.kind # "transaction"
    BY QueryType, ZenonT(60) DEF TransactionMethods
  <2> HIDE DEF e
  <2>6. /\ e.query = q /\ e.number = range.first
        /\ e.block = found[2] /\ e.found = {} /\ e.missing = "none"
        /\ (\E i \in 1 .. Len(e.todo) : e.todo[i] \in ByHash) => q.kind = "transaction"
    BY <2>4, ZenonT(60) DEF AskedAs
  <2>7. CASE q.kind = "payload"
    <3>1. \A i \in 1 .. Len(e.todo) : e.todo[i] = "payload"
      BY <2>4, <2>7, ZenonT(60) DEF AskedAs
    <3>2. PayloadOnly(e)
      BY <2>3, <2>6, <2>7, <3>1, ZenonT(60) DEF PayloadOnly
    <3> QED
      BY <1>1, <2>3, <2>6, <2>7, <3>2, ZenonT(60) DEF StraightOK, LateParts, e, range, ReadersInv
  <2>8. CASE q.kind # "payload"
    <3>1. \A i \in 1 .. Len(e.todo) : e.todo[i] # "payload"
      BY <2>4, <2>8, ZenonT(60) DEF AskedAs
    <3>2. NoPayload(e)
      BY <2>6, <3>1, ZenonT(60) DEF NoPayload
    <3>3. e.block # None => e.number = Number[e.block]
                            /\ q.method \notin {"getLogs", "feeHistory"}
      BY <2>2, <2>3, <2>5, <2>6, ZenonT(60)
    <3>4. StraightOK(e, db)
      BY <2>3, <2>6, <2>8, <3>2, <3>3, ZenonT(60) DEF StraightOK, LateParts
    <3> QED
      BY <1>1, <3>4, ZenonT(60) DEF e, range, ReadersInv
  <2> QED
    BY <2>7, <2>8
<1>2. CASE reader' = [reader EXCEPT ![r] = [Idle EXCEPT !.query = q, !.missing = "number"]]
  <2> DEFINE e == [Idle EXCEPT !.query = q, !.missing = "number"]
  <2>1. /\ e.todo = <<>> /\ e.found = {} /\ ~e.due /\ e.block = None
    BY ZenonT(60) DEF Idle
  <2> HIDE DEF e
  <2>2. StraightOK(e, db)
    BY <2>1 DEF StraightOK, PayloadOnly, NoPayload
  <2> QED
    BY <1>2, <2>2 DEF e, ReadersInv
<1> QED
  BY <1>1, <1>2, ZenonT(60) DEF Ask, Asked

\* No step but the death of the process counts one.
LEMMA OnlyCrashCounts ==
  ASSUME Boot \/ (\E t \in Task : Step(t)) \/ (\E t \in Handler : Request(t))
  PROVE  UNCHANGED crashes
<1> USE DEF Branches, Reads, Writes, Answer, AnswerValid, AnswerInvalid
<1>1. CASE Boot
  BY <1>1, ZenonT(60) DEF Boot, GenesisFound, GenesisMissing, SetupGenesisTrie, UpdateEarliest,
     SetChainConfig, ImportNext, StartApi
<1>2. ASSUME NEW t \in Task, AddBlock(t) PROVE UNCHANGED crashes
  BY <1>2, ZenonT(60) DEF AddBlock, ValidateParentCanonical, FindParentHeader, ValidateBlock,
     ExecuteBlock, ApplyAccountUpdates, ValidateStateRoot
<1>3. ASSUME NEW t \in Task, StoreAddBlock(t) PROVE UNCHANGED crashes
  BY <1>3, ZenonT(60) DEF StoreAddBlock, ReadLatestTotalDifficulty, AddTransactionLocations,
     AddBlockBody, AddBlockHeader, AddBlockNumber, UpdateLatestBlockNumber,
     AddBlockTotalDifficulty, UpdateLatestTotalDifficulty, StoreReceipts, SetCanonical
<1>4. ASSUME NEW t \in Task, NewPayloadStep(t) PROVE UNCHANGED crashes
  BY <1>4, ZenonT(60) DEF NewPayloadStep, PayloadRefused, PayloadWellFormed, PayloadHeight,
     PayloadAhead, PayloadKnown, PayloadReorg, LatestValidNumber, LatestValidHash
<1>5. ASSUME NEW t \in Task, ForkchoiceStep(t) PROVE UNCHANGED crashes
  BY <1>5, ZenonT(60) DEF ForkchoiceStep, HeadStored, TotalDifficultyCheck, ReadCanonicalAtHead,
     ReadLatestAtHead, HeadAdopted, UpdateIgnored, HeadParentCanonical, SetCanonicalHead,
     FindFinalized, CheckFinalized, UpdateFinalized, FindSafe, CheckSafe, UpdateSafe,
     BuildPayload, AddPayload
<1>6. ASSUME NEW t \in Handler, Request(t) PROVE UNCHANGED crashes
  BY <1>6, ZenonT(60) DEF Request, NewPayload, ForkchoiceUpdated
<1> QED
  BY <1>1, <1>2, <1>3, <1>4, <1>5, <1>6, ZenonT(60) DEF Step

LEMMA NextStraight ==
  ASSUME IInv, IInv', Grows(db, db'), SequentialInv, SequentialInv', LinkedInv,
         ReadersInv, StraightInv, [ReadersNext]_allVars
  PROVE  StraightInv'
<1> SUFFICES ASSUME crashes' = 0 PROVE \A r \in Reader : StraightOK(reader'[r], db')
  BY DEF StraightInv
<1>1. crashes \in Nat
  <2>1. crashes \in 0 .. MaxCrashes /\ MaxCrashes \in Nat
    BY TaskAssumption, ZenonT(60) DEF IInv, TypeOK
  <2> QED
    BY <2>1
<1>2. Straight(db')
  BY StraightNext DEF SequentialInv
<1>3. ASSUME crashes = 0, UNCHANGED reader
      PROVE  \A r \in Reader : StraightOK(reader'[r], db')
  <2>1. /\ db \in Tables /\ db' \in Tables /\ TablesOK(db)
        /\ \A r \in Reader : reader[r] \in ReaderStates /\ StraightOK(reader[r], db)
    BY <1>1, <1>3, ZenonT(60) DEF IInv, TypeOK, ReadersInv, StraightInv
  <2> QED
    BY <1>1, <1>2, <1>3, <2>1, StraightOKGrows, ZenonT(60)
<1>4. CASE reader' = [r \in Reader |-> Idle]
  BY <1>4, IdleStraight, ZenonT(60)
<1>5. ASSUME crashes = 0, UNCHANGED vars, NEW r \in Reader, StraightOK(reader'[r], db),
             NEW s, reader' = [reader EXCEPT ![r] = s]
      PROVE  \A u \in Reader : StraightOK(reader'[u], db')
  <2>1. \A u \in Reader : u # r => reader'[u] = reader[u]
    BY <1>5, ZenonT(60) DEF ReadersInv
  <2> QED
    BY <1>5, <2>1, ZenonT(60) DEF StraightInv, vars
<1>6. ASSUME NEW r \in Reader, NEW q \in Queries, Ask(r, q)
      PROVE  \A u \in Reader : StraightOK(reader'[u], db')
  <2>1. crashes = 0 /\ UNCHANGED vars /\ StraightOK(reader'[r], db)
    BY <1>6, AskStraight, ZenonT(60) DEF Ask, vars
  <2>2. PICK s : reader' = [reader EXCEPT ![r] = s]
    BY <1>6, ZenonT(60) DEF Ask
  <2> QED
    BY <1>5, <2>1, <2>2, ZenonT(60)
<1>7. ASSUME NEW r \in Reader, Read(r)
      PROVE  \A u \in Reader : StraightOK(reader'[u], db')
  <2>1. crashes = 0 /\ UNCHANGED vars /\ Straight(db)
    BY <1>7, SequentialStraight, ZenonT(60) DEF Read, vars, SequentialInv
  <2>2. StraightOK(reader'[r], db)
    BY <1>7, <2>1, ReadStraight DEF StraightInv
  <2>3. PICK s : reader' = [reader EXCEPT ![r] = s]
    BY <1>7, ZenonT(60) DEF Read
  <2> QED
    BY <1>5, <2>1, <2>2, <2>3, ZenonT(60)
<1>8. ASSUME NEW r \in Reader, Respond(r)
      PROVE  \A u \in Reader : StraightOK(reader'[u], db')
  <2>1. crashes = 0 /\ UNCHANGED vars /\ reader' = [reader EXCEPT ![r] = Idle]
    BY <1>8 DEF Respond, vars
  <2>2. StraightOK(reader'[r], db)
    BY <2>1, IdleStraight, ZenonT(60) DEF ReadersInv
  <2> QED
    BY <1>5, <2>1, <2>2, ZenonT(60)
<1>9. CASE UNCHANGED reader /\ (Boot \/ (\E t \in Task : Step(t))
                                  \/ (\E t \in Handler : Request(t)))
  <2>1. UNCHANGED crashes
    BY <1>9, OnlyCrashCounts, ZenonT(60)
  <2> QED
    BY <1>3, <1>9, <2>1
<1>10. CASE UNCHANGED allVars
  BY <1>3, <1>10 DEF allVars, vars
<1> QED
  BY <1>4, <1>6, <1>7, <1>8, <1>9, <1>10, ZenonT(60) DEF ReadersNext

-----------------------------------------------------------------------------
(***************************************************************************)
(* What the invariants say of the answers.                                 *)
(***************************************************************************)
LEMMA RestartFollows == IInv => RestartSound
  BY ZenonT(60) DEF IInv, TypeOK, Tables, TablesOK, RestartSound, CanonicalComplete, AckedDurable,
     PointersResolve

LEMMA AnsweredFollows ==
  /\ ReadersInv => CanonicalAnswered /\ FinalizedAnswered
  /\ StraightInv => ReceiptsAnswered
<1>1. ReadersInv => CanonicalAnswered /\ FinalizedAnswered
  BY HeaderOfIsHeaderIn, ZenonT(60)
     DEF ReadersInv, ReaderOK, CanonicalAnswered, FinalizedAnswered
<1>2. StraightInv => ReceiptsAnswered
  BY ZenonT(60) DEF StraightInv, StraightOK, ReceiptsAnswered
<1> QED
  BY <1>1, <1>2

LEMMA OneBlockFollows ==
  ASSUME IInv, ReadersInv, SequentialInv, StraightInv
  PROVE  OneBlock
<1> SUFFICES ASSUME crashes = 0, NEW r \in Reader, NEW p \in reader[r].found,
                    NEW q \in reader[r].found, p.at = q.at,
                    q.part \notin {"config", "parent"}
             PROVE  /\ p.part \notin {"config", "parent"} => p.block = q.block
                    /\ p.part = "parent" => p.block = Parent[q.block]
                    /\ reader[r].block # None => q.block = reader[r].block
  BY DEF OneBlock
<1> DEFINE s == reader[r]
<1>1. /\ s \in ReaderStates /\ StraightOK(s, db) /\ Straight(db)
      /\ OnLine(p, s, db) /\ OnLine(q, s, db) /\ q.block # None
  <2>1. s \in ReaderStates /\ StraightOK(s, db) /\ Straight(db)
    BY SequentialStraight, ZenonT(60) DEF ReadersInv, SequentialInv, StraightInv
  <2>2. OnLine(p, s, db) /\ OnLine(q, s, db)
    BY <2>1, ZenonT(60) DEF StraightOK
  <2>3. q \in Findings
    BY <2>1, ZenonT(60) DEF ReaderStates
  <2>4. q.block # None
    BY <2>3, BlockAssumption, ZenonT(60) DEF Findings
  <2> QED
    BY <2>1, <2>2, <2>4, ZenonT(60)
<1>2. CASE s.query.kind = "payload"
  BY <1>1, <1>2, ZenonT(60) DEF StraightOK, PayloadOnly, OnLine
<1>3. CASE s.query.kind # "payload"
  <2>1. p.part # "payload" /\ q.part # "payload"
    BY <1>1, <1>3, ZenonT(60) DEF StraightOK, NoPayload
  <2>2. q.block = db.canonical[q.at]
    BY <1>1, <2>1 DEF OnLine
  <2>3. s.block # None => q.block = s.block
    BY <1>1, <2>2, ZenonT(60) DEF StraightOK, Straight
  <2> QED
    BY <1>1, <2>1, <2>2, <2>3, ZenonT(60) DEF OnLine
<1> QED
  BY <1>2, <1>3, ZenonT(60)
=============================================================================
