---------------------------- MODULE EngineProofs ----------------------------
(***************************************************************************)
(* For any tree of blocks, any number of concurrent handlers, any import   *)
(* file and any number of crashes: the tables of the store stay consistent *)
(* with one another.  IInv of module EngineInvariants is inductive.        *)
(***************************************************************************)
EXTENDS EngineInvariants, TLAPS

-----------------------------------------------------------------------------
(***************************************************************************)
(* The store calls: each keeps the tables well typed and only adds.        *)
(***************************************************************************)
LEMMA GrowsReflexive == ASSUME NEW d PROVE Grows(d, d)
  BY DEF Grows

LEMMA TaskOKGrows ==
  ASSUME NEW p, NEW r \in Requests, NEW d \in Tables, NEW e \in Tables,
         TaskOK(p, r, d), Grows(d, e)
  PROVE  TaskOK(p, r, e)
  BY BlockAssumption DEF TaskOK, Grows, Heights

LEMMA HeightIsNat ==
  ASSUME NEW n \in Heights
  PROVE  n \in OptionNat /\ n \in Nat /\ n # None
  BY BlockAssumption DEF OptionNat, Heights

LEMMA WriteState ==
  ASSUME NEW d \in Tables, TablesOK(d), NEW h \in Block, Verdict[h] = "ok"
  PROVE  LET e == write_state(d, h)
         IN  e \in Tables /\ Grows(d, e) /\ TablesOK(e) /\ h \in e.states
  BY DEF write_state, Tables, Grows, TablesOK

LEMMA WriteLocations ==
  ASSUME NEW d \in Tables, TablesOK(d), NEW h \in Block
  PROVE  LET e == add_transaction_locations(d, h)
         IN  e \in Tables /\ Grows(d, e) /\ TablesOK(e) /\ h \in e.locations
  BY DEF add_transaction_locations, Tables, Grows, TablesOK

LEMMA WriteBody ==
  ASSUME NEW d \in Tables, TablesOK(d), NEW h \in Block
  PROVE  LET e == add_block_body(d, h)
         IN  e \in Tables /\ Grows(d, e) /\ TablesOK(e) /\ h \in e.bodies
  BY DEF add_block_body, Tables, Grows, TablesOK

LEMMA WriteHeader ==
  ASSUME NEW d \in Tables, TablesOK(d), NEW h \in Block,
         h \in d.states, h \in d.locations, h \in d.bodies,
         h # Genesis => Parent[h] \in d.headers
  PROVE  LET e == add_block_header(d, h)
         IN  e \in Tables /\ Grows(d, e) /\ TablesOK(e) /\ h \in e.headers
  BY DEF add_block_header, Tables, Grows, TablesOK

LEMMA WriteNumber ==
  ASSUME NEW d \in Tables, TablesOK(d), NEW h \in Block, h \in d.headers
  PROVE  LET e == add_block_number(d, h)
         IN  e \in Tables /\ Grows(d, e) /\ TablesOK(e) /\ h \in e.numbers
  BY DEF add_block_number, Tables, Grows, TablesOK

LEMMA WriteReceipts ==
  ASSUME NEW d \in Tables, TablesOK(d), NEW h \in Block
  PROVE  LET e == add_receipts(d, h)
         IN  e \in Tables /\ Grows(d, e) /\ TablesOK(e)
  BY DEF add_receipts, Tables, Grows, TablesOK

LEMMA WriteTotal ==
  ASSUME NEW d \in Tables, TablesOK(d), NEW h \in Block, NEW td \in Nat
  PROVE  LET e == add_block_total_difficulty(d, h, td)
         IN  e \in Tables /\ Grows(d, e) /\ TablesOK(e)
<1> DEFINE e == add_block_total_difficulty(d, h, td)
<1>1. e \in Tables /\ e = [d EXCEPT !.totals[h] = td]
  BY DEF add_block_total_difficulty, Tables, OptionNat
<1>2. Grows(d, e)
  BY <1>1 DEF Tables, Grows
<1>3. TablesOK(e)
  BY <1>1 DEF Tables, TablesOK
<1> QED
  BY <1>1, <1>2, <1>3

LEMMA WriteLatestTotal ==
  ASSUME NEW d \in Tables, TablesOK(d), NEW td \in Nat
  PROVE  LET e == update_latest_total_difficulty(d, td)
         IN  e \in Tables /\ Grows(d, e) /\ TablesOK(e)
<1> DEFINE e == update_latest_total_difficulty(d, td)
<1>1. e \in Tables /\ e = [d EXCEPT !.latestTotal = td]
  BY DEF update_latest_total_difficulty, Tables, OptionNat
<1>2. Grows(d, e)
  BY <1>1 DEF Tables, Grows
<1>3. TablesOK(e)
  BY <1>1 DEF Tables, TablesOK
<1> QED
  BY <1>1, <1>2, <1>3

LEMMA WriteLatest ==
  ASSUME NEW d \in Tables, TablesOK(d), NEW h \in Block, h \in d.numbers
  PROVE  LET e == update_latest_block_number(d, Number[h])
         IN  e \in Tables /\ Grows(d, e) /\ TablesOK(e)
<1> DEFINE e == update_latest_block_number(d, Number[h])
<1>1. e \in Tables /\ e = [d EXCEPT !.latest = Number[h]]
  BY BlockAssumption, HeightIsNat DEF update_latest_block_number, Tables
<1>2. Grows(d, e)
  BY <1>1 DEF Tables, Grows
<1>3. TablesOK(e)
  BY <1>1 DEF Tables, TablesOK
<1> QED
  BY <1>1, <1>2, <1>3

LEMMA WriteEarliest ==
  ASSUME NEW d \in Tables, TablesOK(d), NEW n \in Nat
  PROVE  LET e == update_earliest_block_number(d, n)
         IN  e \in Tables /\ Grows(d, e) /\ TablesOK(e)
  BY BlockAssumption, ZenonT(60) DEF update_earliest_block_number, Tables, OptionNat, Heights, Grows,
     TablesOK

LEMMA WriteFinalized ==
  ASSUME NEW d \in Tables, TablesOK(d), NEW n \in Heights, d.canonical[n] # None
  PROVE  LET e == update_finalized_block_number(d, n)
         IN  e \in Tables /\ Grows(d, e) /\ TablesOK(e)
<1> DEFINE e == update_finalized_block_number(d, n)
<1>1. e \in Tables /\ e = [d EXCEPT !.finalized = n]
  BY BlockAssumption, HeightIsNat DEF update_finalized_block_number, Tables
<1>2. Grows(d, e)
  BY <1>1 DEF Tables, Grows
<1>3. TablesOK(e)
  BY <1>1 DEF Tables, TablesOK
<1> QED
  BY <1>1, <1>2, <1>3

LEMMA WriteSafe ==
  ASSUME NEW d \in Tables, TablesOK(d), NEW n \in Heights, d.canonical[n] # None
  PROVE  LET e == update_safe_block_number(d, n)
         IN  e \in Tables /\ Grows(d, e) /\ TablesOK(e)
<1> DEFINE e == update_safe_block_number(d, n)
<1>1. e \in Tables /\ e = [d EXCEPT !.safe = n]
  BY BlockAssumption, HeightIsNat DEF update_safe_block_number, Tables
<1>2. Grows(d, e)
  BY <1>1 DEF Tables, Grows
<1>3. TablesOK(e)
  BY <1>1 DEF Tables, TablesOK
<1> QED
  BY <1>1, <1>2, <1>3

LEMMA WriteCanonical ==
  ASSUME NEW d \in Tables, TablesOK(d), NEW h \in Block, h \in d.headers
  PROVE  LET e == set_canonical_block(d, Number[h], h)
         IN  e \in Tables /\ Grows(d, e) /\ TablesOK(e)
<1> DEFINE n == Number[h]
           c == [d.canonical EXCEPT ![n] = h]
           e == set_canonical_block(d, n, h)
<1>1. n \in Heights /\ c \in [Heights -> OptionBlock]
  BY BlockAssumption DEF Tables, OptionBlock
<1>2. e = [d EXCEPT !.canonical = c]
  BY DEF set_canonical_block, Tables
<1>3. e \in Tables
  BY <1>1, <1>2 DEF Tables
<1>4. Grows(d, e)
  BY <1>1, <1>2, BlockAssumption DEF Tables, Grows
<1>5. TablesOK(e)
  BY <1>1, <1>2, <1>4, BlockAssumption DEF Tables, TablesOK, Grows
<1> QED
  BY <1>3, <1>4, <1>5

LEMMA WriteConfig ==
  ASSUME NEW d \in Tables, TablesOK(d)
  PROVE  LET e == set_chain_config(d)
         IN  e \in Tables /\ Grows(d, e) /\ TablesOK(e)
  BY ZenonT(60) DEF set_chain_config, Tables, Grows, TablesOK

LEMMA WritePayload ==
  ASSUME NEW d \in Tables, TablesOK(d), NEW h \in Block
  PROVE  LET e == add_payload(d, h)
         IN  e \in Tables /\ Grows(d, e) /\ TablesOK(e)
  BY DEF add_payload, Tables, Grows, TablesOK

-----------------------------------------------------------------------------
(***************************************************************************)
(* The four shapes of step.                                                *)
(***************************************************************************)
LEMMA RequestStep ==
  ASSUME IInv, NEW t \in Task, NEW p \in Labels, NEW r \in Requests,
         Goto(t, p), req' = [req EXCEPT ![t] = r], TaskOK(p, r, db),
         imported' \in 0 .. Len(ImportFile),
         UNCHANGED <<db, loc, acked, rejected, crashes>>
  PROVE  IInv'
<1>1. TypeOK'
  BY DEF IInv, TypeOK, Goto
<1>2. \A u \in Task : TaskOK(pc'[u], req'[u], db')
  BY DEF IInv, TypeOK, Goto
<1> QED
  BY <1>1, <1>2 DEF IInv

LEMMA ReadStep ==
  ASSUME IInv, NEW t \in Task, NEW p \in Labels, Goto(t, p), Reads,
         loc' \in [Task -> Values], TaskOK(p, req[t], db)
  PROVE  IInv'
<1>1. TypeOK'
  BY ZenonT(60) DEF IInv, TypeOK, Goto, Reads
<1>2. \A u \in Task : TaskOK(pc'[u], req'[u], db')
  BY DEF IInv, TypeOK, Goto, Reads
<1> QED
  BY <1>1, <1>2 DEF IInv, Reads

\* A step that only branches changes nothing but its label.
LEMMA BranchStep ==
  ASSUME IInv, NEW t \in Task, NEW p \in Labels, Goto(t, p), Branches,
         TaskOK(p, req[t], db)
  PROVE  IInv'
<1>1. Reads /\ loc' \in [Task -> Values]
  BY ZenonT(60) DEF Branches, IInv, TypeOK
<1> QED
  BY <1>1, ReadStep, ZenonT(60)

LEMMA WriteStep ==
  ASSUME IInv, NEW t \in Task, NEW p \in Labels, Goto(t, p), Writes,
         db' \in Tables, Grows(db, db'), TablesOK(db'),
         TaskOK(p, req[t], db')
  PROVE  IInv'
<1>1. TypeOK'
  BY DEF IInv, TypeOK, Goto, Writes
<1>2. \A u \in Task : TaskOK(pc[u], req[u], db')
  BY TaskOKGrows DEF IInv, TypeOK
<1>3. \A u \in Task : TaskOK(pc'[u], req'[u], db')
  BY <1>2 DEF IInv, TypeOK, Goto, Writes
<1>4. acked' \subseteq db'.numbers
  BY DEF IInv, Writes, Grows
<1> QED
  BY <1>1, <1>3, <1>4 DEF IInv

LEMMA FinishStep ==
  ASSUME IInv, NEW t \in Task, Finish(t),
         db' \in Tables, Grows(db, db'), TablesOK(db'),
         acked' \subseteq db'.numbers, rejected' \subseteq Block,
         UNCHANGED <<imported, crashes>>
  PROVE  IInv'
<1> DEFINE p == IF t = Main THEN "import" ELSE "idle"
<1>1. NoRequest \in Requests /\ NoValues \in Values
  BY DEF NoRequest, Requests, NoValues, Values, OptionBlock, Ops
<1>2. p \in Labels /\ TaskOK(p, NoRequest, db')
  BY DEF Labels, TaskOK, BlockNamed, ParentChecked, StateWritten,
         LocationsWritten, BodyWritten, HeaderWritten, NumberWritten, HeadFound
<1>3. TypeOK'
  BY <1>1, <1>2 DEF IInv, TypeOK, Finish, Tables
<1>4. \A u \in Task : TaskOK(pc[u], req[u], db')
  BY TaskOKGrows DEF IInv, TypeOK
<1>5. \A u \in Task : TaskOK(pc'[u], req'[u], db')
  BY <1>2, <1>4 DEF IInv, TypeOK, Finish
<1> QED
  BY <1>3, <1>5 DEF IInv

LEMMA AnswerStep ==
  ASSUME IInv, NEW t \in Task, Answer(t)
  PROVE  IInv'
  BY FinishStep, GrowsReflexive DEF IInv, TypeOK, Answer

LEMMA AnswerInvalidStep ==
  ASSUME IInv, NEW t \in Task, AnswerInvalid(t), req[t].block \in Block
  PROVE  IInv'
  BY FinishStep, GrowsReflexive DEF IInv, TypeOK, AnswerInvalid

LEMMA AnswerValidStep ==
  ASSUME IInv, NEW t \in Task, NEW d \in Tables, AnswerValid(t, d),
         Grows(db, d), TablesOK(d), req[t].block \in d.numbers
  PROVE  IInv'
<1>1. acked' \subseteq db'.numbers
  BY DEF IInv, AnswerValid, Grows
<1> QED
  BY <1>1, FinishStep DEF IInv, TypeOK, AnswerValid

-----------------------------------------------------------------------------
(***************************************************************************)
(* One lemma per group of actions, one step per action.                    *)
(***************************************************************************)
LEMMA BlockRequestType ==
  ASSUME NEW b \in Block, NEW op \in Ops
  PROVE  /\ BlockRequest(op, b) \in Requests
         /\ BlockRequest(op, b).block = b
  BY ZenonT(60) DEF BlockRequest, NoRequest, Requests, OptionBlock

\* Reading and answering leave what the task knows; the label sets decide
\* what it has to know next.
LEMMA BootKeeps ==
  ASSUME IInv, Boot
  PROVE  IInv'
<1> USE DEF BlockNamed, ParentChecked, StateWritten, LocationsWritten,
            BodyWritten, HeaderWritten, NumberWritten, HeadFound
<1>0. /\ Main \in Task /\ req[Main] \in Requests /\ db \in Tables
      /\ TablesOK(db) /\ TaskOK(pc[Main], req[Main], db)
      /\ loc \in [Task -> Values]
  BY DEF IInv, TypeOK, Task
<1>1. CASE GenesisFound
  <2>1. TaskOK("import", req[Main], db) /\ "import" \in Labels
    BY <1>0, ZenonT(60) DEF TaskOK, Labels
  <2> QED
    BY <1>0, <1>1, <2>1, BranchStep, ZenonT(60) DEF GenesisFound
<1>2. CASE GenesisMissing
  <2>1. BlockRequest("genesis", Genesis) \in Requests
        /\ BlockRequest("genesis", Genesis).block = Genesis
    BY BlockRequestType, BlockAssumption DEF Ops
  <2>2. TaskOK("genesis_trie", BlockRequest("genesis", Genesis), db)
    BY <2>1 DEF TaskOK
  <2> QED
    BY <1>0, <1>2, <2>1, <2>2, RequestStep, ZenonT(60)
       DEF GenesisMissing, Labels, IInv, TypeOK
<1>3. CASE SetupGenesisTrie
  <2>1. /\ db' \in Tables /\ Grows(db, db') /\ TablesOK(db')
        /\ Genesis \in db'.states
    BY <1>0, <1>3, WriteState, BlockAssumption, GenesisAssumption
       DEF SetupGenesisTrie
  <2>2. TaskOK("earliest", req[Main], db')
    BY <1>0, <1>3, <2>1 DEF SetupGenesisTrie, TaskOK
  <2> QED
    BY <1>0, <1>3, <2>1, <2>2, WriteStep DEF SetupGenesisTrie, Labels
<1>4. CASE UpdateEarliest
  <2>1. db' \in Tables /\ Grows(db, db') /\ TablesOK(db')
    BY <1>0, <1>4, WriteEarliest, GenesisAssumption DEF UpdateEarliest
  <2>2. TaskOK("td", req[Main], db')
    BY <1>0, <1>4, <2>1, BlockAssumption DEF UpdateEarliest, TaskOK, Grows
  <2> QED
    BY <1>0, <1>4, <2>1, <2>2, WriteStep DEF UpdateEarliest, Labels
<1>5. CASE SetChainConfig
  <2>1. db' \in Tables /\ Grows(db, db') /\ TablesOK(db')
    BY <1>0, <1>5, WriteConfig DEF SetChainConfig
  <2> QED
    BY <1>0, <1>5, <2>1, FinishStep
       DEF SetChainConfig, IInv, TypeOK, Grows
<1>6. CASE ImportNext
  <2> DEFINE b == ImportFile[imported + 1]
  <2>1. b \in Block /\ imported' \in 0 .. Len(ImportFile)
    BY <1>6, TaskAssumption DEF ImportNext, IInv, TypeOK
  <2>2. BlockRequest("import", b) \in Requests
        /\ BlockRequest("import", b).block = b
    BY <2>1, BlockRequestType DEF Ops
  <2>3. TaskOK("parent_canonical", BlockRequest("import", b), db)
    BY <2>1, <2>2, ZenonT(60) DEF TaskOK
  <2> QED
    BY <1>0, <1>6, <2>1, <2>2, <2>3, RequestStep, ZenonT(60) DEF ImportNext, Labels
<1>7. CASE StartApi
  <2>1. TaskOK("serving", req[Main], db) /\ "serving" \in Labels
    BY ZenonT(60) DEF TaskOK, Labels
  <2> QED
    BY <1>0, <1>7, <2>1, BranchStep, ZenonT(60) DEF StartApi
<1> QED
  BY <1>1, <1>2, <1>3, <1>4, <1>5, <1>6, <1>7 DEF Boot

LEMMA RequestKeeps ==
  ASSUME IInv, NEW t \in Handler, Request(t)
  PROVE  IInv'
<1> USE DEF BlockNamed, ParentChecked, StateWritten, LocationsWritten,
            BodyWritten, HeaderWritten, NumberWritten, HeadFound
<1>0. t \in Task
  BY DEF Task
<1>1. ASSUME NEW b \in Block, NEW f \in Faults \cup {"none"}, NewPayload(t, b, f)
      PROVE  IInv'
  <2> DEFINE r == [BlockRequest("newPayload", b) EXCEPT !.fault = f]
  <2>1. r \in Requests /\ r.block = b
    BY <1>1, BlockRequestType DEF Ops, Requests
  <2>2. TaskOK("config", r, db)
    BY <2>1 DEF TaskOK
  <2> QED
    BY <1>0, <1>1, <2>1, <2>2, RequestStep, ZenonT(60)
       DEF NewPayload, Labels, IInv, TypeOK
<1>2. ASSUME NEW f \in ForkChoices, ForkchoiceUpdated(t, f)
      PROVE  IInv'
  <2> DEFINE r == [op |-> "forkchoice", block |-> f.head, safe |-> f.safe,
                   finalized |-> f.finalized, build |-> f.build,
                   fault |-> "none"]
  <2>1. r \in Requests
    BY TaskAssumption DEF Requests, Ops
  <2>2. TaskOK("fc_head", r, db)
    BY DEF TaskOK
  <2> QED
    BY <1>0, <1>2, <2>1, <2>2, RequestStep, ZenonT(60)
       DEF ForkchoiceUpdated, Labels, IInv, TypeOK
<1> QED
  BY <1>1, <1>2 DEF Request


LEMMA NewPayloadKeeps ==
  ASSUME IInv, NEW t \in Task, NewPayloadStep(t)
  PROVE  IInv'
<1> USE DEF BlockNamed, ParentChecked, StateWritten, LocationsWritten,
            BodyWritten, HeaderWritten, NumberWritten, HeadFound
<1>0. /\ req[t] \in Requests /\ db \in Tables /\ TablesOK(db)
      /\ TaskOK(pc[t], req[t], db) /\ loc \in [Task -> Values]
  BY DEF IInv, TypeOK
<1>1. CASE PayloadRefused(t)
  BY <1>1, AnswerStep, ZenonT(60) DEF PayloadRefused
<1>2. CASE PayloadWellFormed(t)
  BY <1>0, <1>2, ReadStep, ZenonT(60) DEF PayloadWellFormed, Branches, Reads, TaskOK, Labels
<1>3. CASE PayloadHeight(t)
  <2>1. \A p \in {"known", "valid_number"} : TaskOK(p, req[t], db) /\ p \in Labels
    <3>1. req[t].block \in Block
      BY <1>0, <1>3, ZenonT(60) DEF PayloadHeight, TaskOK
    <3> QED
      BY <3>1, ZenonT(60) DEF TaskOK, Labels
  <2>2. Branches /\ \E p \in {"known", "valid_number"} : Goto(t, p)
    BY <1>3, ZenonT(60) DEF PayloadHeight
  <2> QED
    BY <2>1, <2>2, BranchStep, ZenonT(60)
<1>4. CASE PayloadAhead(t)
  BY <1>4, AnswerStep DEF PayloadAhead
<1>5. CASE PayloadKnown(t)
  <2>1. req[t].block \in Block /\ Number[req[t].block] # None
    BY <1>0, <1>5, BlockAssumption, HeightIsNat, ZenonT(60) DEF PayloadKnown, TaskOK
  <2>2. req[t].block \in db.numbers
    BY <1>5, <2>1 DEF PayloadKnown, get_block_number
  <2> QED
    BY <1>0, <1>5, <2>2, AnswerValidStep, GrowsReflexive DEF PayloadKnown
<1>6. CASE PayloadReorg(t)
  BY <1>6, AnswerStep DEF PayloadReorg
<1>7. CASE LatestValidNumber(t)
  <2>1. loc' \in [Task -> Values]
    BY <1>0, <1>7 DEF LatestValidNumber, Tables, OptionNat, Values
  <2> QED
    <3>1. TaskOK("valid_hash", req[t], db) /\ "valid_hash" \in Labels
      BY <1>0, <1>7, ZenonT(60) DEF LatestValidNumber, TaskOK, Labels
    <3> QED
      BY <1>7, <2>1, <3>1, ReadStep, ZenonT(60) DEF LatestValidNumber
<1>8. CASE LatestValidHash(t)
  <2>1. TaskOK("parent_canonical", req[t], db) /\ "parent_canonical" \in Labels
    BY <1>0, <1>8, ZenonT(60) DEF LatestValidHash, TaskOK, Labels
  <2> QED
    BY <1>8, <2>1, BranchStep, AnswerStep, ZenonT(60) DEF LatestValidHash
<1> QED
  BY <1>1, <1>2, <1>3, <1>4, <1>5, <1>6, <1>7, <1>8 DEF NewPayloadStep

\* validate_parent_canonical: the parent is stored, whatever others write.
LEMMA ParentStored ==
  ASSUME NEW t, db \in Tables, TablesOK(db), req[t].block \in Block,
         ParentIsCanonical(t)
  PROVE  Parent[req[t].block] \in db.headers
  BY DEF ParentIsCanonical, get_canonical_block_hash, TablesOK

LEMMA AddBlockKeeps ==
  ASSUME IInv, NEW t \in Task, AddBlock(t)
  PROVE  IInv'
<1> USE DEF BlockNamed, ParentChecked, StateWritten, LocationsWritten,
            BodyWritten, HeaderWritten, NumberWritten, HeadFound
<1>0. /\ req[t] \in Requests /\ db \in Tables /\ TablesOK(db)
      /\ TaskOK(pc[t], req[t], db) /\ loc \in [Task -> Values]
  BY DEF IInv, TypeOK
<1>1. CASE ValidateParentCanonical(t)
  <2>1. CASE ParentIsCanonical(t)
    <3>1. TaskOK("find_parent", req[t], db)
      BY <1>0, <1>1, <2>1, ParentStored DEF ValidateParentCanonical, TaskOK
    <3> QED
      BY <1>0, <1>1, <2>1, <3>1, ReadStep
         DEF ValidateParentCanonical, Branches, Reads, Labels
  <2>2. CASE ~ParentIsCanonical(t)
    BY <1>1, <2>2, AnswerStep DEF ValidateParentCanonical
  <2> QED
    BY <2>1, <2>2
<1>2. CASE FindParentHeader(t)
  <2> DEFINE n == get_block_number(db, Parent[req[t].block])
             header == IF n = None THEN None ELSE get_block_header(db, n)
  <2>1. header \in OptionBlock /\ req[t].block \in Block
    BY <1>0, <1>2 DEF FindParentHeader, get_block_header, Tables, OptionBlock,
                      TaskOK
  <2>2. CASE header # None
    <3>1. Goto(t, "validate") /\ Reads /\ loc' \in [Task -> Values]
      BY <1>0, <1>2, <2>1, <2>2 DEF FindParentHeader, Values
    <3> QED
      BY <1>0, <1>2, <3>1, ReadStep, ZenonT(60) DEF FindParentHeader, TaskOK, Labels
  <2>3. CASE header = None
    BY <1>2, <2>1, <2>3, AnswerInvalidStep DEF FindParentHeader
  <2> QED
    BY <2>2, <2>3
<1>3. CASE ValidateBlock(t)
  <2>1. req[t].block \in Block
    BY <1>0, <1>3 DEF ValidateBlock, TaskOK
  <2>2. CASE Goto(t, "execute") /\ Branches
    <3>1. TaskOK("execute", req[t], db) /\ "execute" \in Labels
      BY <1>0, <1>3, ZenonT(60) DEF ValidateBlock, TaskOK, Labels
    <3> QED
      BY <2>2, <3>1, BranchStep, ZenonT(60)
  <2>3. CASE AnswerInvalid(t)
    BY <2>1, <2>3, AnswerInvalidStep
  <2>4. CASE Goto(t, "dead") /\ Branches
    <3>1. TaskOK("dead", req[t], db) /\ "dead" \in Labels
      BY ZenonT(60) DEF TaskOK, Labels
    <3> QED
      BY <2>4, <3>1, BranchStep, ZenonT(60)
  <2> QED
    BY <1>3, <2>2, <2>3, <2>4 DEF ValidateBlock
<1>4. CASE ExecuteBlock(t)
  <2>1. CASE Goto(t, "apply") /\ Branches
    <3>1. TaskOK("apply", req[t], db) /\ "apply" \in Labels
      BY <1>0, <1>4, ZenonT(60) DEF ExecuteBlock, TaskOK, Labels
    <3> QED
      BY <2>1, <3>1, BranchStep, ZenonT(60)
  <2>2. CASE AnswerInvalid(t)
    BY <1>0, <1>4, <2>2, AnswerInvalidStep DEF ExecuteBlock, TaskOK
  <2> QED
    BY <1>4, <2>1, <2>2 DEF ExecuteBlock
<1>5. CASE ApplyAccountUpdates(t)
  <2>1. db' \in Tables /\ Grows(db, db') /\ TablesOK(db')
    BY <1>0, <1>5, WriteState, GrowsReflexive DEF ApplyAccountUpdates, TaskOK
  <2>2. TaskOK("root", req[t], db')
    BY <1>0, <1>5, <2>1, ZenonT(60) DEF ApplyAccountUpdates, TaskOK, Grows
  <2> QED
    BY <1>0, <1>5, <2>1, <2>2, WriteStep, ZenonT(60) DEF ApplyAccountUpdates, Labels
<1>6. CASE ValidateStateRoot(t)
  <2>1. CASE req[t].block \in db.states
    BY <1>0, <1>6, <2>1, ReadStep, ZenonT(60)
       DEF ValidateStateRoot, Branches, Reads, TaskOK, Labels
  <2>2. CASE req[t].block \notin db.states
    BY <1>0, <1>6, <2>2, AnswerInvalidStep DEF ValidateStateRoot, TaskOK
  <2> QED
    BY <2>1, <2>2
<1> QED
  BY <1>1, <1>2, <1>3, <1>4, <1>5, <1>6 DEF AddBlock

LEMMA StoreAddBlockKeeps ==
  ASSUME IInv, NEW t \in Task, StoreAddBlock(t)
  PROVE  IInv'
<1> USE DEF BlockNamed, ParentChecked, StateWritten, LocationsWritten,
            BodyWritten, HeaderWritten, NumberWritten, HeadFound
<1>0. /\ req[t] \in Requests /\ db \in Tables /\ TablesOK(db)
      /\ TaskOK(pc[t], req[t], db) /\ loc \in [Task -> Values]
  BY DEF IInv, TypeOK
<1>a. StoreAddBlock(t) => req[t].block \in Block
  BY <1>0 DEF StoreAddBlock, TaskOK, ReadLatestTotalDifficulty,
     AddTransactionLocations, AddBlockBody, AddBlockHeader, AddBlockNumber,
     UpdateLatestBlockNumber, AddBlockTotalDifficulty,
     UpdateLatestTotalDifficulty, StoreReceipts, SetCanonical
<1>b. loc[t].td \in Nat
  BY <1>0, ZenonT(60) DEF Values
<1>1. CASE ReadLatestTotalDifficulty(t)
  <2>1. loc' \in [Task -> Values]
    BY <1>0, <1>1, GenesisAssumption
       DEF ReadLatestTotalDifficulty, DifficultyOf, Tables, OptionNat, Values
  <2> QED
    BY <1>0, <1>1, <2>1, ReadStep, ZenonT(60) DEF ReadLatestTotalDifficulty, TaskOK, Labels
<1>2. CASE AddTransactionLocations(t)
  <2>1. /\ db' \in Tables /\ Grows(db, db') /\ TablesOK(db')
        /\ req[t].block \in db'.locations
    BY <1>0, <1>a, <1>b, <1>2, WriteLocations DEF AddTransactionLocations, TaskOK
  <2>2. TaskOK("locations", req[t], db')
    BY <1>0, <1>2, <2>1, TaskOKGrows DEF AddTransactionLocations
  <2>3. TaskOK("body", req[t], db')
    BY <1>0, <2>1, <2>2, ZenonT(60) DEF TaskOK
  <2> QED
    BY <1>0, <1>2, <2>1, <2>3, WriteStep, ZenonT(60) DEF AddTransactionLocations, Labels
<1>3. CASE AddBlockBody(t)
  <2>1. /\ db' \in Tables /\ Grows(db, db') /\ TablesOK(db')
        /\ req[t].block \in db'.bodies
    BY <1>0, <1>a, <1>b, <1>3, WriteBody DEF AddBlockBody, TaskOK
  <2>2. TaskOK("body", req[t], db')
    BY <1>0, <1>3, <2>1, TaskOKGrows DEF AddBlockBody
  <2>3. TaskOK("header", req[t], db')
    BY <1>0, <2>1, <2>2, ZenonT(60) DEF TaskOK
  <2> QED
    BY <1>0, <1>3, <2>1, <2>3, WriteStep, ZenonT(60) DEF AddBlockBody, Labels
<1>4. CASE AddBlockHeader(t)
  <2>1. /\ db' \in Tables /\ Grows(db, db') /\ TablesOK(db')
        /\ req[t].block \in db'.headers
    BY <1>0, <1>a, <1>b, <1>4, WriteHeader DEF AddBlockHeader, TaskOK
  <2>2. TaskOK("header", req[t], db')
    BY <1>0, <1>4, <2>1, TaskOKGrows DEF AddBlockHeader
  <2>3. TaskOK("number", req[t], db')
    BY <1>0, <2>1, <2>2, ZenonT(60) DEF TaskOK
  <2> QED
    BY <1>0, <1>4, <2>1, <2>3, WriteStep, ZenonT(60) DEF AddBlockHeader, Labels
<1>5. CASE AddBlockNumber(t)
  <2>1. /\ db' \in Tables /\ Grows(db, db') /\ TablesOK(db')
        /\ req[t].block \in db'.numbers
    BY <1>0, <1>a, <1>b, <1>5, WriteNumber DEF AddBlockNumber, TaskOK
  <2>2. TaskOK("number", req[t], db')
    BY <1>0, <1>5, <2>1, TaskOKGrows DEF AddBlockNumber
  <2>3. TaskOK("latest", req[t], db')
    BY <1>0, <2>1, <2>2, ZenonT(60) DEF TaskOK
  <2> QED
    BY <1>0, <1>5, <2>1, <2>3, WriteStep, ZenonT(60) DEF AddBlockNumber, Labels
<1>6. CASE UpdateLatestBlockNumber(t)
  <2>1. /\ db' \in Tables /\ Grows(db, db') /\ TablesOK(db')
    BY <1>0, <1>a, <1>b, <1>6, WriteLatest DEF UpdateLatestBlockNumber, TaskOK
  <2>2. TaskOK("latest", req[t], db')
    BY <1>0, <1>6, <2>1, TaskOKGrows DEF UpdateLatestBlockNumber
  <2>3. TaskOK("block_td", req[t], db')
    BY <1>0, <2>1, <2>2, ZenonT(60) DEF TaskOK
  <2> QED
    BY <1>0, <1>6, <2>1, <2>3, WriteStep, ZenonT(60) DEF UpdateLatestBlockNumber, Labels
<1>7. CASE AddBlockTotalDifficulty(t)
  <2>1. /\ db' \in Tables /\ Grows(db, db') /\ TablesOK(db')
    BY <1>0, <1>a, <1>b, <1>7, WriteTotal DEF AddBlockTotalDifficulty, TaskOK
  <2>2. TaskOK("block_td", req[t], db')
    BY <1>0, <1>7, <2>1, TaskOKGrows DEF AddBlockTotalDifficulty
  <2>3. TaskOK("latest_td", req[t], db')
    BY <1>0, <2>1, <2>2, ZenonT(60) DEF TaskOK
  <2> QED
    BY <1>0, <1>7, <2>1, <2>3, WriteStep, ZenonT(60) DEF AddBlockTotalDifficulty, Labels
<1>8. CASE UpdateLatestTotalDifficulty(t)
  <2> DEFINE next == IF req[t].op = "genesis" THEN "set_canonical" ELSE "receipts"
  <2>1. db' \in Tables /\ Grows(db, db') /\ TablesOK(db')
    BY <1>0, <1>b, <1>8, WriteLatestTotal DEF UpdateLatestTotalDifficulty
  <2>2. TaskOK("latest_td", req[t], db')
    BY <1>0, <1>8, <2>1, TaskOKGrows DEF UpdateLatestTotalDifficulty
  <2>3. TaskOK(next, req[t], db') /\ next \in Labels
    BY <2>2, ZenonT(60) DEF TaskOK, Labels
  <2> QED
    BY <1>8, <2>1, <2>3, WriteStep DEF UpdateLatestTotalDifficulty
<1>9. CASE StoreReceipts(t)
  <2>1. /\ db' \in Tables /\ Grows(db, db') /\ TablesOK(db')
    BY <1>0, <1>a, <1>b, <1>9, WriteReceipts DEF StoreReceipts, TaskOK
  <2>2. TaskOK("receipts", req[t], db')
    BY <1>0, <1>9, <2>1, TaskOKGrows DEF StoreReceipts
  <2>3. TaskOK("set_canonical", req[t], db')
    BY <1>0, <2>1, <2>2, ZenonT(60) DEF TaskOK
  <2> QED
    BY <1>0, <1>9, <2>1, <2>3, WriteStep, ZenonT(60) DEF StoreReceipts, Labels
<1>10. CASE SetCanonical(t)
  <2> DEFINE d == set_canonical_block(db, Number[req[t].block], req[t].block)
  <2>1. d \in Tables /\ Grows(db, d) /\ TablesOK(d)
    BY <1>0, <1>a, <1>10, WriteCanonical, ZenonT(60) DEF SetCanonical, TaskOK
  <2>2. req[t].block \in d.numbers
    BY <1>0, <1>10, <2>1, ZenonT(60) DEF SetCanonical, TaskOK, Grows
  <2>3. CASE Goto(t, "set_config") /\ db' = d /\ Writes
    BY <1>0, <2>1, <2>3, WriteStep, ZenonT(60) DEF TaskOK, Labels
  <2>4. CASE AnswerValid(t, d)
    BY <2>1, <2>2, <2>4, AnswerValidStep, ZenonT(60)
  <2> QED
    BY <1>10, <2>3, <2>4, ZenonT(60) DEF SetCanonical
<1> QED
  BY <1>1, <1>2, <1>3, <1>4, <1>5, <1>6, <1>7, <1>8, <1>9, <1>10
     DEF StoreAddBlock


LEMMA ForkchoiceKeeps ==
  ASSUME IInv, NEW t \in Task, ForkchoiceStep(t)
  PROVE  IInv'
<1> USE DEF BlockNamed, ParentChecked, StateWritten, LocationsWritten,
            BodyWritten, HeaderWritten, NumberWritten, HeadFound
<1>0. /\ req[t] \in Requests /\ db \in Tables /\ TablesOK(db)
      /\ TaskOK(pc[t], req[t], db) /\ loc \in [Task -> Values]
  BY DEF IInv, TypeOK
<1>a. pc[t] \in HeadFound => req[t].block \in db.headers /\ req[t].block \in Block
  BY <1>0, ZenonT(60) DEF TaskOK, Tables
<1>1. CASE HeadStored(t)
  <2>1. CASE get_block_header_by_hash(db, req[t].block) # None
    <3>1. TaskOK("fc_difficulty", req[t], db)
      BY <2>1, ZenonT(60) DEF get_block_header_by_hash, TaskOK
    <3> QED
      BY <1>0, <1>1, <2>1, <3>1, ReadStep DEF HeadStored, Branches, Reads, Labels
  <2>2. CASE get_block_header_by_hash(db, req[t].block) = None
    BY <1>1, <2>2, AnswerStep DEF HeadStored
  <2> QED
    BY <2>1, <2>2, ZenonT(60)
<1>2. CASE TotalDifficultyCheck(t)
  <2>1. TaskOK("fc_canonical", req[t], db) /\ "fc_canonical" \in Labels
    BY <1>0, <1>2, ZenonT(60) DEF TotalDifficultyCheck, TaskOK, Labels
  <2> QED
    BY <1>2, <2>1, BranchStep, AnswerStep, ZenonT(60) DEF TotalDifficultyCheck
<1>3. CASE ReadCanonicalAtHead(t)
  <2>1. get_canonical_block_hash(db, Number[req[t].block]) \in OptionBlock
    BY <1>0 DEF get_canonical_block_hash, Tables, OptionBlock
  <2>2. loc' \in [Task -> Values]
    BY <1>0, <1>3, <2>1, ZenonT(60) DEF ReadCanonicalAtHead, Values
  <2> QED
    <3>1. TaskOK("fc_latest", req[t], db) /\ "fc_latest" \in Labels
      BY <1>0, <1>3, ZenonT(60) DEF ReadCanonicalAtHead, TaskOK, Labels
    <3> QED
      BY <1>3, <2>2, <3>1, ReadStep, ZenonT(60) DEF ReadCanonicalAtHead
<1>4. CASE ReadLatestAtHead(t)
  <2>1. loc' \in [Task -> Values]
    BY <1>0, <1>4 DEF ReadLatestAtHead, Tables, OptionNat, Values
  <2> QED
    <3>1. TaskOK("fc_current", req[t], db) /\ "fc_current" \in Labels
      BY <1>0, <1>4, ZenonT(60) DEF ReadLatestAtHead, TaskOK, Labels
    <3> QED
      BY <1>4, <2>1, <3>1, ReadStep, ZenonT(60) DEF ReadLatestAtHead
<1>5. CASE HeadAdopted(t)
  <2>1. \A p \in {"fc_parent", "fc_final"} : TaskOK(p, req[t], db) /\ p \in Labels
    BY <1>0, <1>5, ZenonT(60) DEF HeadAdopted, TaskOK, Labels
  <2>2. Branches /\ \E p \in {"fc_parent", "fc_final"} : Goto(t, p)
    BY <1>5, ZenonT(60) DEF HeadAdopted
  <2> QED
    BY <2>1, <2>2, BranchStep, ZenonT(60)
<1>6. CASE UpdateIgnored(t)
  BY <1>6, AnswerStep DEF UpdateIgnored
<1>7. CASE HeadParentCanonical(t)
  <2>1. \A p \in {"fc_set", "fc_final"} : TaskOK(p, req[t], db) /\ p \in Labels
    BY <1>0, <1>7, ZenonT(60) DEF HeadParentCanonical, TaskOK, Labels
  <2>2. Branches /\ \E p \in {"fc_set", "fc_final"} : Goto(t, p)
    BY <1>7, ZenonT(60) DEF HeadParentCanonical
  <2> QED
    BY <2>1, <2>2, BranchStep, ZenonT(60)
<1>8. CASE SetCanonicalHead(t)
  <2>1. db' \in Tables /\ Grows(db, db') /\ TablesOK(db')
    BY <1>0, <1>a, <1>8, WriteCanonical, ZenonT(60) DEF SetCanonicalHead
  <2>2. TaskOK("fc_final", req[t], db')
    BY <1>0, <1>8, <2>1, ZenonT(60) DEF SetCanonicalHead, TaskOK, Grows
  <2> QED
    BY <1>8, <2>1, <2>2, WriteStep, ZenonT(60) DEF SetCanonicalHead, Labels
<1>9. CASE FindFinalized(t)
  <2>1. CASE req[t].finalized = None
    BY <1>0, <1>9, <2>1, ReadStep, AnswerStep, ZenonT(60)
       DEF FindFinalized, Branches, Reads, TaskOK, Labels
  <2>2. CASE req[t].finalized # None
    <3>1. TaskOK("fc_final_check", req[t], db)
      BY <1>0, <1>9, <2>2, ZenonT(60) DEF FindFinalized, TaskOK, Requests, OptionBlock
    <3> QED
      BY <1>0, <1>9, <2>2, <3>1, ReadStep, AnswerStep, ZenonT(60)
         DEF FindFinalized, Branches, Reads, Labels
  <2> QED
    BY <2>1, <2>2
<1>10. CASE CheckFinalized(t)
  <2> DEFINE h == req[t].finalized
  <2>1. CASE get_canonical_block_hash(db, Number[h]) = h
    <3>1. TaskOK("fc_final_set", req[t], db)
      BY <1>0, <1>10, <2>1, BlockAssumption, ZenonT(60)
         DEF CheckFinalized, get_canonical_block_hash, TaskOK
    <3> QED
      BY <1>0, <1>10, <2>1, <3>1, ReadStep, ZenonT(60) DEF CheckFinalized, Branches, Reads, Labels
  <2>2. CASE get_canonical_block_hash(db, Number[h]) # h
    BY <1>10, <2>2, AnswerStep DEF CheckFinalized
  <2> QED
    BY <2>1, <2>2
<1>11. CASE UpdateFinalized(t)
  <2>1. Number[req[t].finalized] \in Heights /\ db.canonical[Number[req[t].finalized]] # None
    BY <1>0, <1>11, BlockAssumption, ZenonT(60) DEF UpdateFinalized, TaskOK
  <2>2. db' \in Tables /\ Grows(db, db') /\ TablesOK(db')
    BY <1>0, <1>11, <2>1, WriteFinalized DEF UpdateFinalized
  <2>3. TaskOK("fc_safe", req[t], db')
    BY <1>0, <1>11, <2>2, ZenonT(60) DEF UpdateFinalized, TaskOK, Grows
  <2> QED
    BY <1>11, <2>2, <2>3, WriteStep, ZenonT(60) DEF UpdateFinalized, Labels
<1>12. CASE FindSafe(t)
  <2>1. CASE req[t].safe = None
    BY <1>0, <1>12, <2>1, ReadStep, AnswerStep, ZenonT(60)
       DEF FindSafe, Branches, Reads, TaskOK, Labels
  <2>2. CASE req[t].safe # None
    <3>1. TaskOK("fc_safe_check", req[t], db)
      BY <1>0, <1>12, <2>2, ZenonT(60) DEF FindSafe, TaskOK, Requests, OptionBlock
    <3> QED
      BY <1>0, <1>12, <2>2, <3>1, ReadStep, AnswerStep, ZenonT(60)
         DEF FindSafe, Branches, Reads, Labels
  <2> QED
    BY <2>1, <2>2
<1>13. CASE CheckSafe(t)
  <2> DEFINE h == req[t].safe
  <2>1. CASE get_canonical_block_hash(db, Number[h]) = h
    <3>1. TaskOK("fc_safe_set", req[t], db)
      BY <1>0, <1>13, <2>1, BlockAssumption, ZenonT(60)
         DEF CheckSafe, get_canonical_block_hash, TaskOK
    <3> QED
      BY <1>0, <1>13, <2>1, <3>1, ReadStep, ZenonT(60) DEF CheckSafe, Branches, Reads, Labels
  <2>2. CASE get_canonical_block_hash(db, Number[h]) # h
    BY <1>13, <2>2, AnswerStep, ZenonT(60) DEF CheckSafe
  <2> QED
    BY <2>1, <2>2
<1>14. CASE UpdateSafe(t)
  <2>1. Number[req[t].safe] \in Heights /\ db.canonical[Number[req[t].safe]] # None
    BY <1>0, <1>14, BlockAssumption, ZenonT(60) DEF UpdateSafe, TaskOK
  <2>2. db' \in Tables /\ Grows(db, db') /\ TablesOK(db')
    BY <1>0, <1>14, <2>1, WriteSafe, ZenonT(60) DEF UpdateSafe
  <2>3. TaskOK("fc_build", req[t], db')
    BY <1>0, <1>14, <2>2, ZenonT(60) DEF UpdateSafe, TaskOK, Grows
  <2> QED
    BY <1>14, <2>2, <2>3, WriteStep, ZenonT(60) DEF UpdateSafe, Labels
<1>15. CASE BuildPayload(t)
  <2>1. CASE Goto(t, "fc_payload") /\ Branches
    <3>1. TaskOK("fc_payload", req[t], db)
      BY <1>0, <1>15, ZenonT(60) DEF BuildPayload, TaskOK
    <3> QED
      BY <1>0, <2>1, <3>1, ReadStep, ZenonT(60) DEF Branches, Reads, Labels
  <2>2. CASE Answer(t)
    BY <2>2, AnswerStep
  <2> QED
    BY <1>15, <2>1, <2>2, ZenonT(60) DEF BuildPayload
<1>16. CASE AddPayload(t)
  <2>1. db' \in Tables /\ Grows(db, db') /\ TablesOK(db')
    BY <1>0, <1>a, <1>16, WritePayload, ZenonT(60) DEF AddPayload
  <2> QED
    BY <1>0, <1>16, <2>1, FinishStep, ZenonT(60) DEF AddPayload, IInv, TypeOK, Grows
<1> QED
  BY <1>1, <1>2, <1>3, <1>4, <1>5, <1>6, <1>7, <1>8, <1>9, <1>10, <1>11,
     <1>12, <1>13, <1>14, <1>15, <1>16 DEF ForkchoiceStep

LEMMA CrashKeeps ==
  ASSUME IInv, Crash
  PROVE  IInv'
<1> USE DEF BlockNamed, ParentChecked, StateWritten, LocationsWritten,
            BodyWritten, HeaderWritten, NumberWritten, HeadFound
<1>1. NoRequest \in Requests /\ NoValues \in Values
  BY DEF NoRequest, Requests, NoValues, Values, OptionBlock, Ops
<1>2. TypeOK'
  BY <1>1, TaskAssumption DEF IInv, TypeOK, Crash, Labels
<1>3. \A u \in Task : TaskOK(pc'[u], req'[u], db')
  BY DEF Crash, TaskOK
<1> QED
  BY <1>2, <1>3, ZenonT(60) DEF IInv, Crash

-----------------------------------------------------------------------------
LEMMA InitIInv == Init => IInv
<1> SUFFICES ASSUME Init PROVE IInv
  OBVIOUS
<1> USE DEF BlockNamed, ParentChecked, StateWritten, LocationsWritten,
            BodyWritten, HeaderWritten, NumberWritten, HeadFound
<1>1. NoRequest \in Requests /\ NoValues \in Values
  BY DEF NoRequest, Requests, NoValues, Values, OptionBlock, Ops
<1>2. EmptyTables \in Tables /\ TablesOK(EmptyTables)
  BY ZenonT(60) DEF EmptyTables, Tables, TablesOK, OptionNat, OptionBlock
<1>3. TypeOK
  BY <1>1, <1>2, TaskAssumption DEF Init, TypeOK, Labels
<1>4. \A u \in Task : TaskOK(pc[u], req[u], db)
  BY DEF Init, TaskOK
<1> QED
  BY <1>2, <1>3, <1>4 DEF Init, IInv

LEMMA NextIInv == IInv /\ [Next]_vars => IInv'
<1> SUFFICES ASSUME IInv, [Next]_vars PROVE IInv'
  OBVIOUS
<1>1. CASE Boot
  BY <1>1, BootKeeps
<1>2. ASSUME NEW t \in Task, Step(t) PROVE IInv'
  BY <1>2, AddBlockKeeps, StoreAddBlockKeeps, NewPayloadKeeps, ForkchoiceKeeps
     DEF Step
<1>3. ASSUME NEW t \in Handler, Request(t) PROVE IInv'
  BY <1>3, RequestKeeps
<1>4. CASE Crash
  BY <1>4, CrashKeeps
<1>5. CASE UNCHANGED vars
  BY <1>5 DEF vars, IInv, TypeOK
<1> QED
  BY <1>1, <1>2, <1>3, <1>4, <1>5 DEF Next

-----------------------------------------------------------------------------
(***************************************************************************)
(* Nothing is ever deleted.                                                *)
(***************************************************************************)
LEMMA BootGrows ==
  ASSUME db \in Tables, Boot
  PROVE  Grows(db, db')
  BY DEF Boot, GenesisFound, GenesisMissing, SetupGenesisTrie, UpdateEarliest,
     SetChainConfig, ImportNext, StartApi, Branches, Reads, write_state,
     update_earliest_block_number, set_chain_config, Tables, Grows

LEMMA NewPayloadGrows ==
  ASSUME db \in Tables, NEW t, NewPayloadStep(t)
  PROVE  Grows(db, db')
  BY DEF NewPayloadStep, PayloadRefused, PayloadWellFormed, PayloadHeight,
     PayloadAhead, PayloadKnown, PayloadReorg, LatestValidNumber, LatestValidHash,
     Branches, Reads, Answer, AnswerValid, Grows

LEMMA AddBlockGrows ==
  ASSUME db \in Tables, NEW t, AddBlock(t)
  PROVE  Grows(db, db')
  BY DEF AddBlock, ValidateParentCanonical, FindParentHeader, ValidateBlock,
     ExecuteBlock, ApplyAccountUpdates, ValidateStateRoot, Branches, Reads, Answer,
     AnswerInvalid, write_state, Tables, Grows

LEMMA StoreAddBlockGrows ==
  ASSUME IInv, NEW t \in Task, StoreAddBlock(t)
  PROVE  Grows(db, db')
<1>0. db \in Tables /\ TablesOK(db) /\ TaskOK(pc[t], req[t], db)
  BY DEF IInv, TypeOK
<1>1. CASE SetCanonical(t)
  <2> DEFINE d == set_canonical_block(db, Number[req[t].block], req[t].block)
  <2>1. db' = d
    BY <1>1 DEF SetCanonical, AnswerValid
  <2>2. req[t].block \in Block /\ req[t].block \in db.headers
    BY <1>0, <1>1, ZenonT(60) DEF SetCanonical, TaskOK, BlockNamed, StateWritten, LocationsWritten,
                      BodyWritten, HeaderWritten, NumberWritten
  <2>3. Grows(db, d)
    BY <1>0, <2>2, WriteCanonical
  <2> QED
    BY <2>1, <2>3
<1>2. CASE ~SetCanonical(t)
  BY <1>0, <1>2 DEF StoreAddBlock, ReadLatestTotalDifficulty, AddTransactionLocations,
     AddBlockBody, AddBlockHeader, AddBlockNumber, UpdateLatestBlockNumber,
     AddBlockTotalDifficulty, UpdateLatestTotalDifficulty, StoreReceipts, Reads,
     add_transaction_locations, add_block_body, add_block_header, add_block_number,
     update_latest_block_number, add_block_total_difficulty,
     update_latest_total_difficulty, add_receipts, Tables, Grows
<1> QED
  BY <1>1, <1>2

LEMMA ForkchoiceGrows ==
  ASSUME IInv, NEW t \in Task, ForkchoiceStep(t)
  PROVE  Grows(db, db')
<1>0. db \in Tables /\ TablesOK(db) /\ TaskOK(pc[t], req[t], db)
  BY DEF IInv, TypeOK
<1>1. CASE SetCanonicalHead(t)
  <2>1. req[t].block \in Block /\ req[t].block \in db.headers
    BY <1>0, <1>1, ZenonT(60) DEF SetCanonicalHead, TaskOK, HeadFound, Tables
  <2> QED
    BY <1>0, <1>1, <2>1, WriteCanonical DEF SetCanonicalHead
<1>2. CASE ~SetCanonicalHead(t)
  BY <1>0, <1>2, ZenonT(60) DEF ForkchoiceStep, HeadStored, TotalDifficultyCheck, ReadCanonicalAtHead,
     ReadLatestAtHead, HeadAdopted, UpdateIgnored, HeadParentCanonical, FindFinalized,
     CheckFinalized, UpdateFinalized, FindSafe, CheckSafe, UpdateSafe, BuildPayload,
     AddPayload, update_finalized_block_number, update_safe_block_number, add_payload,
     Branches, Reads, Answer, Tables, Grows
<1> QED
  BY <1>1, <1>2

LEMMA NextGrows ==
  ASSUME IInv, [Next]_vars
  PROVE  Grows(db, db')
<1>0. db \in Tables
  BY ZenonT(60) DEF IInv, TypeOK
<1>1. CASE Boot
  BY <1>0, <1>1, BootGrows
<1>2. ASSUME NEW t \in Task, Step(t) PROVE Grows(db, db')
  BY <1>0, <1>2, AddBlockGrows, StoreAddBlockGrows, NewPayloadGrows, ForkchoiceGrows
     DEF Step
<1>3. ASSUME NEW t \in Handler, Request(t) PROVE Grows(db, db')
  BY <1>3, GrowsReflexive DEF Request, NewPayload, ForkchoiceUpdated
<1>4. CASE Crash
  BY <1>4, GrowsReflexive DEF Crash
<1>5. CASE UNCHANGED vars
  BY <1>5, GrowsReflexive DEF vars
<1> QED
  BY <1>1, <1>2, <1>3, <1>4, <1>5 DEF Next

-----------------------------------------------------------------------------
\* The inductive invariant holds of every execution: for any tree of blocks,
\* any number of handlers and any number of crashes.
THEOREM Inductive == Spec => []IInv
  BY InitIInv, NextIInv, PTL DEF Spec

\* No handler and no restart deletes a row of the store or takes a height out of
\* the canonical index: what Store::add_block and set_canonical_block wrote can
\* be replaced, a canonical entry by another one, but is never gone.
THEOREM RowsAreKept == Spec => [][Grows(db, db')]_vars
<1>1. IInv /\ [Next]_vars => [Grows(db, db')]_vars
  BY NextGrows
<1> QED
  BY <1>1, Inductive, PTL DEF Spec

\* Every handler, main and the store keep the types of TypeOK.
THEOREM TypeCorrect == Spec => []TypeOK
<1>1. IInv => TypeOK
  BY DEF IInv
<1> QED
  BY <1>1, Inductive, PTL

\* Whatever Store::add_block, add_initial_state and set_canonical_block of
\* concurrent handlers and restarts write, a canonical hash leads to a valid
\* block of that height with its header, body, locations and state.
THEOREM CanonicalIsComplete == Spec => []CanonicalComplete
<1>1. IInv => CanonicalComplete
  BY ZenonT(60) DEF IInv, TypeOK, Tables, TablesOK, CanonicalComplete
<1> QED
  BY <1>1, Inductive, PTL

\* add_block stores a header only for a valid block and only on a stored
\* parent, under any interleaving and after any crash.
THEOREM AncestryIsStored == Spec => []StoredAncestry
<1>1. IInv => StoredAncestry
  BY ZenonT(60) DEF IInv, TypeOK, Tables, TablesOK, StoredAncestry
<1> QED
  BY <1>1, Inductive, PTL

\* What newPayload answered VALID for is in the database and stays there.
THEOREM AckIsDurable == Spec => []AckedDurable
<1>1. IInv => AckedDurable
  BY ZenonT(60) DEF IInv, TypeOK, Tables, TablesOK, AckedDurable
<1> QED
  BY <1>1, Inductive, PTL

\* The finalized, safe and latest numbers written by forkchoiceUpdated and
\* Store::add_block always lead to a block.
THEOREM PointersAlwaysResolve == Spec => []PointersResolve
<1>1. IInv => PointersResolve
  BY DEF IInv, TypeOK, Tables, TablesOK, PointersResolve
<1> QED
  BY <1>1, Inductive, PTL
=============================================================================
