-------------------------- MODULE SequentialProofs --------------------------
(***************************************************************************)
(* A node that works on one request at a time and has not died: its steps  *)
(* keep SequentialInv of module EngineInvariants, on top of IInv, and each *)
(* is a step of LinearChain, or none.  Module NodeProofs draws the         *)
(* conclusions.                                                            *)
(***************************************************************************)
EXTENDS EngineInvariants, TLAPS

LEMMA HeightIsNumber ==
  ASSUME NEW n \in Heights
  PROVE  n \in OptionNat /\ n \in Nat /\ n # None
  BY BlockAssumption DEF OptionNat, Heights

-----------------------------------------------------------------------------
(***************************************************************************)
(* Writes that leave the line alone.                                       *)
(***************************************************************************)
\* e has the canonical index of d, and of the other rows of a line no fewer.
SameLine(d, e) ==
    /\ e.canonical = d.canonical
    /\ d.numbers \subseteq e.numbers
    /\ d.receipts \subseteq e.receipts
    /\ \A b \in Block : d.totals[b] # None => e.totals[b] # None

LEMMA SameLineReflexive == ASSUME NEW d PROVE SameLine(d, d)
  BY DEF SameLine

LEMMA LineKept ==
  ASSUME NEW d, NEW e, NEW k, SameLine(d, e)
  PROVE  Canon(e) = Canon(d) /\ (Line(d, k) => Line(e, k))
<1>1. Canon(e) = Canon(d) /\ Canon(d) \subseteq Block
  BY DEF SameLine, Canon
<1> QED
  BY <1>1 DEF SameLine, Line

LEMMA SettledKept ==
  ASSUME NEW d, NEW e, SameLine(d, e), Settled(d),
         e.headers = d.headers, e.latest = d.latest, e.config = d.config
  PROVE  Settled(e)
  BY LineKept DEF Settled

LEMMA JoiningKept ==
  ASSUME NEW d, NEW e, NEW b, SameLine(d, e), Joining(d, b),
         e.headers \subseteq d.headers \cup {b}
  PROVE  Joining(e, b)
  BY LineKept DEF Joining, SameLine

\* On a settled chain a stored block is the canonical one of its height.
LEMMA StoredIsCanonical ==
  ASSUME NEW d, Settled(d), NEW b \in d.headers
  PROVE  b \in Block /\ d.canonical[Number[b]] = b /\ b \in d.numbers
  BY DEF Settled, Line, Canon

-----------------------------------------------------------------------------
(***************************************************************************)
(* The shapes of step, for the one working task.                           *)
(***************************************************************************)
\* The file is where it was, as long as main keeps its request.
LEMMA FileKept ==
  ASSUME FileAhead, UNCHANGED imported, db'.latest = db.latest,
         \/ pc'[Main] \in {"serving", "import"} /\ pc[Main] # "serving"
         \/ pc'[Main] = "serving"
         \/ pc[Main] \notin {"start", "import", "serving"} /\ req'[Main] = req[Main]
  PROVE  FileAhead'
  BY DEF FileAhead

LEMMA AloneMoves ==
  ASSUME TypeOK, Alone, NEW t \in Task, pc[t] \notin Parked, NEW p \in Labels,
         pc' = [pc EXCEPT ![t] = p], t = Main => p # "idle", t # Main => p # "serving"
  PROVE  /\ Alone'
         /\ \A u \in Task : u # t => pc'[u] = pc[u] /\ pc[u] \in Parked
         /\ pc'[t] = p
<1>1. /\ \A u \in Task : u # t => pc'[u] = pc[u] /\ pc[u] \in Parked
      /\ pc'[t] = p
  BY DEF TypeOK, Alone
<1> QED
  BY <1>1, TaskAssumption DEF Alone, Task

\* The worker goes on working.
LEMMA WorkerMoves ==
  ASSUME TypeOK, SInv, NEW t \in Task, pc[t] \notin Parked,
         NEW p \in Labels \ Parked, Goto(t, p), FileAhead',
         Stage(p, req'[t], loc'[t], db'),
         acked' \subseteq Canon(db'), RejectedInvalid'
  PROVE  SInv'
<1>1. /\ Alone'
      /\ \A u \in Task : u # t => pc'[u] \in Parked
      /\ pc'[t] = p
  BY AloneMoves, ZenonT(60) DEF Goto, SInv, Parked
<1>2. \A u \in Task : pc'[u] \notin Parked => Stage(pc'[u], req'[u], loc'[u], db')
  BY <1>1
<1>3. ~ \A u \in Task : pc'[u] \in Parked
  BY <1>1
<1> QED
  BY <1>1, <1>2, <1>3 DEF SInv

LEMMA WorkerReads ==
  ASSUME TypeOK, SInv, NEW t \in Task, pc[t] \notin Parked \cup {"start", "import"},
         NEW p \in Labels \ (Parked \cup {"start"}), Goto(t, p), Reads,
         Stage(p, req[t], loc'[t], db)
  PROVE  SInv'
<1>1. pc'[Main] = pc[Main] \/ t = Main
  BY DEF Goto, TypeOK, Task
<1>2. FileAhead'
  BY <1>1, FileKept DEF SInv, Reads, Goto, TypeOK, Alone, Task, Parked
<1>3. acked' \subseteq Canon(db') /\ RejectedInvalid'
  BY ZenonT(60) DEF SInv, Reads, RejectedInvalid, Canon
<1> QED
  BY <1>2, <1>3, WorkerMoves DEF Reads

LEMMA WorkerWrites ==
  ASSUME TypeOK, SInv, NEW t \in Task, pc[t] \notin Parked \cup {"start", "import"},
         NEW p \in Labels \ (Parked \cup {"start"}), Goto(t, p), Writes,
         FileAhead' \/ db'.latest = db.latest,
         Stage(p, req[t], loc[t], db'), Canon(db) \subseteq Canon(db')
  PROVE  SInv'
<1>1. pc'[Main] = pc[Main] \/ t = Main
  BY DEF Goto, TypeOK, Task
<1>2. FileAhead'
  BY <1>1, FileKept DEF SInv, Writes, Goto, TypeOK, Alone, Task, Parked
<1>3. acked' \subseteq Canon(db') /\ RejectedInvalid'
  BY ZenonT(60) DEF SInv, Writes, RejectedInvalid
<1> QED
  BY <1>2, <1>3, WorkerMoves DEF Writes

\* The worker has answered: a handler is idle again, main takes the next block.
LEMMA WorkerFinishes ==
  ASSUME TypeOK, SInv, NEW t \in Task, pc[t] \notin Parked, Finish(t), Settled(db'),
         UNCHANGED imported, db'.latest = db.latest,
         acked' \subseteq Canon(db'), RejectedInvalid'
  PROVE  SInv'
<1> DEFINE p == IF t = Main THEN "import" ELSE "idle"
<1>0. p \in Labels /\ pc' = [pc EXCEPT ![t] = p]
  BY DEF Finish, Labels
<1>1. /\ Alone'
      /\ \A u \in Task : u # t => pc'[u] = pc[u] /\ pc[u] \in Parked
      /\ pc'[t] = p
  BY <1>0, AloneMoves, ZenonT(60) DEF SInv
<1>2. FileAhead'
  <2>1. CASE t = Main
    BY <1>1, <2>1, FileKept DEF SInv, Parked
  <2>2. CASE t # Main
    BY <1>1, <2>2, FileKept, ZenonT(60) DEF SInv, Parked, Alone, Task
  <2> QED
    BY <2>1, <2>2
<1>3. CASE t = Main
  <2>1. Stage("import", req'[t], loc'[t], db')
    BY DEF Stage, Founding, StateWritten, LocationsWritten, BodyWritten,
           HeaderWritten, NumberWritten, LatestWritten, TotalWritten,
           PayloadRead, ParentFound, HeaderValid
  <2> QED
    BY <1>1, <1>2, <1>3, <2>1, ZenonT(60) DEF SInv, Parked
<1>4. CASE t # Main
  BY <1>1, <1>2, <1>4, ZenonT(60) DEF SInv, Parked
<1> QED
  BY <1>3, <1>4

LEMMA WorkerAnswers ==
  ASSUME TypeOK, SInv, NEW t \in Task, pc[t] \notin Parked, Answer(t), Settled(db)
  PROVE  SInv'
<1>1. acked' \subseteq Canon(db') /\ RejectedInvalid'
  BY DEF Answer, SInv, RejectedInvalid, Canon
<1> QED
  BY <1>1, WorkerFinishes DEF Answer

LEMMA WorkerRejects ==
  ASSUME TypeOK, SInv, NEW t \in Task, pc[t] \notin Parked, AnswerInvalid(t), Settled(db),
         Verdict[req[t].block] # "ok"
  PROVE  SInv'
<1>1. acked' \subseteq Canon(db') /\ RejectedInvalid'
  BY DEF AnswerInvalid, SInv, RejectedInvalid, Canon
<1> QED
  BY <1>1, WorkerFinishes DEF AnswerInvalid

LEMMA WorkerAccepts ==
  ASSUME TypeOK, SInv, NEW t \in Task, pc[t] \notin Parked, NEW d, AnswerValid(t, d),
         Settled(d), d.latest = db.latest, Canon(db) \subseteq Canon(d),
         req[t].block \in Canon(d)
  PROVE  SInv'
<1>1. acked' \subseteq Canon(db') /\ RejectedInvalid'
  BY DEF AnswerValid, SInv, RejectedInvalid
<1> QED
  BY <1>1, WorkerFinishes DEF AnswerValid

-----------------------------------------------------------------------------
(***************************************************************************)
(* One lemma per group of actions, one step per action.                    *)
(***************************************************************************)
LEMMA BootSequential ==
  ASSUME OneAtATime, IInv, SInv, Boot
  PROVE  SInv'
<1> USE DEF Parked, Founding, StateWritten, LocationsWritten, BodyWritten,
            HeaderWritten, NumberWritten, LatestWritten, TotalWritten,
            PayloadRead, ParentFound, HeaderValid
<1>0. /\ Main \in Task /\ TypeOK /\ Alone /\ FileAhead
      /\ req \in [Task -> Requests] /\ loc \in [Task -> Values] /\ pc \in [Task -> Labels]
      /\ db \in Tables
      /\ pc[Main] \notin Parked => Stage(pc[Main], req[Main], loc[Main], db)
      /\ acked \subseteq Canon(db) /\ RejectedInvalid
  BY DEF IInv, TypeOK, Task, SInv
<1>1. CASE GenesisFound
  <2>1. db = EmptyTables
    BY <1>0, <1>1, ZenonT(60) DEF GenesisFound, Stage
  <2>2. get_block_header(db, 0) = None
    BY <2>1 DEF get_block_header, EmptyTables
  <2> QED
    BY <1>1, <2>2, BlockAssumption DEF GenesisFound
<1>2. CASE GenesisMissing
  <2>1. db = EmptyTables
    BY <1>0, <1>2, ZenonT(60) DEF GenesisMissing, Stage
  <2>2. Line(db, 0) /\ db.headers = {} /\ db.latest = None
    BY <2>1, BlockAssumption DEF EmptyTables, Line, Canon, Heights
  <2>3. req'[Main] = BlockRequest("genesis", Genesis) /\ req'[Main].op = "genesis"
    BY <1>0, <1>2 DEF GenesisMissing, BlockRequest, NoRequest
  <2>4. Stage("genesis_trie", req'[Main], loc'[Main], db')
    BY <1>2, <2>2, <2>3, ZenonT(60) DEF GenesisMissing, Stage
  <2>5. FileAhead'
    BY <1>0, <1>2, <2>2, <2>3, ZenonT(60) DEF GenesisMissing, FileAhead
  <2>6. acked' \subseteq Canon(db') /\ RejectedInvalid'
    BY <1>0, <1>2, ZenonT(60) DEF GenesisMissing, RejectedInvalid, Canon
  <2> QED
    BY <1>0, <1>2, <2>4, <2>5, <2>6, WorkerMoves DEF GenesisMissing, Labels
<1>3. CASE SetupGenesisTrie
  <2>1. /\ SameLine(db, db') /\ db'.headers = db.headers /\ db'.latest = db.latest
    BY <1>0, <1>3 DEF SetupGenesisTrie, write_state, SameLine, Tables
  <2>2. req[Main].op = "genesis" /\ Line(db', 0) /\ db'.headers = {}
    BY <1>0, <1>3, <2>1, LineKept, ZenonT(60) DEF SetupGenesisTrie, Stage
  <2>3. Stage("earliest", req[Main], loc[Main], db')
    BY <2>2, ZenonT(60) DEF Stage
  <2> QED
    BY <1>0, <1>3, <2>1, <2>3, LineKept, WorkerWrites DEF SetupGenesisTrie, Labels
<1>4. CASE UpdateEarliest
  <2>1. /\ SameLine(db, db') /\ db'.headers = db.headers /\ db'.latest = db.latest
    BY <1>0, <1>4 DEF UpdateEarliest, update_earliest_block_number, SameLine, Tables
  <2>2. /\ req[Main].op = "genesis" /\ Line(db', 0) /\ db'.headers = {}
        /\ req[Main].block = Genesis
    BY <1>0, <1>4, <2>1, LineKept, ZenonT(60) DEF UpdateEarliest, Stage, IInv, TaskOK
  <2>3. Joining(db', Genesis)
    BY <2>2, GenesisAssumption, ZenonT(60) DEF Joining
  <2>4. Stage("td", req[Main], loc[Main], db')
    BY <2>2, <2>3, ZenonT(60) DEF Stage
  <2> QED
    BY <1>0, <1>4, <2>1, <2>4, LineKept, WorkerWrites DEF UpdateEarliest, Labels
<1>5. CASE SetChainConfig
  <2>1. /\ SameLine(db, db') /\ db'.headers = db.headers /\ db'.latest = db.latest
        /\ db'.config
    BY <1>0, <1>5, ZenonT(60) DEF SetChainConfig, set_chain_config, SameLine, Tables
  <2>2. Settled(db')
    BY <1>0, <1>5, <2>1, LineKept, BlockAssumption DEF SetChainConfig, Stage, Settled, Heights
  <2>3. acked' \subseteq Canon(db') /\ RejectedInvalid'
    BY <1>0, <1>5, <2>1, LineKept DEF SetChainConfig, RejectedInvalid
  <2> QED
    BY <1>0, <1>5, <2>1, <2>2, <2>3, WorkerFinishes DEF SetChainConfig
<1>6. CASE ImportNext
  <2> DEFINE b == ImportFile[imported + 1]
  <2>1. /\ Settled(db) /\ db.latest \in Heights /\ db.latest # None
        /\ imported \in Nat /\ imported + 1 \in 1 .. Len(ImportFile) /\ b \in Block
        /\ Len(ImportFile) \in Nat
    BY <1>0, <1>6, TaskAssumption, HeightIsNumber DEF ImportNext, Stage, Settled, TypeOK
  <2>2. req'[Main] = BlockRequest("import", b) /\ req'[Main].block = b /\ req'[Main].op = "import"
    BY <1>0, <1>6 DEF ImportNext, BlockRequest, NoRequest
  <2>3. Number[b] = 0 \/ Number[b] > db.latest
    BY <1>0, <1>6, <2>1 DEF ImportNext, FileAhead
  <2>4. Stage("parent_canonical", req'[Main], loc'[Main], db')
    BY <1>6, <2>1, <2>2, <2>3, ZenonT(60) DEF ImportNext, Stage
  <2>5. FileAhead'
    BY <1>0, <1>6, <2>1, <2>2 DEF ImportNext, FileAhead, Goto
  <2>6. acked' \subseteq Canon(db') /\ RejectedInvalid'
    BY <1>0, <1>6, ZenonT(60) DEF ImportNext, RejectedInvalid, Canon
  <2> QED
    BY <1>0, <1>6, <2>4, <2>5, <2>6, WorkerMoves, ZenonT(60) DEF ImportNext, Labels
<1>7. CASE StartApi
  <2>1. Settled(db) /\ UNCHANGED <<db, acked, rejected, imported>>
    BY <1>0, <1>7, ZenonT(60) DEF StartApi, Stage, Branches, Reads
  <2>2. /\ Alone'
        /\ \A u \in Task : u # Main => pc'[u] \in Parked
        /\ pc'[Main] = "serving"
    <3>1. pc' = [pc EXCEPT ![Main] = "serving"] /\ pc[Main] \notin Parked
      BY <1>7, ZenonT(60) DEF StartApi, Goto
    <3>2. "serving" \in Labels /\ "serving" # "idle"
      BY ZenonT(60) DEF Labels
    <3> QED
      BY <1>0, <3>1, <3>2, AloneMoves, ZenonT(60)
  <2>3. FileAhead'
    BY <2>2 DEF FileAhead
  <2>4. Settled(db') /\ acked' \subseteq Canon(db') /\ RejectedInvalid'
    BY <1>0, <2>1 DEF RejectedInvalid, Canon
  <2> QED
    BY <2>2, <2>3, <2>4, ZenonT(60) DEF SInv
<1> QED
  BY <1>1, <1>2, <1>3, <1>4, <1>5, <1>6, <1>7 DEF Boot

\* A request starts on a settled chain: no other one is being served.
LEMMA RequestSequential ==
  ASSUME OneAtATime, IInv, SInv, NEW t \in Handler, Request(t)
  PROVE  SInv'
<1> USE DEF Parked, Founding, StateWritten, LocationsWritten, BodyWritten,
            HeaderWritten, NumberWritten, LatestWritten, TotalWritten,
            PayloadRead, ParentFound, HeaderValid
<1>0. \A r : [req EXCEPT ![t] = r][t] = r
  BY ZenonT(60) DEF IInv, TypeOK, Task
<1>1. PICK p \in {"config", "fc_head"} :
        /\ pc[t] = "idle" /\ pc[Main] = "serving" /\ Goto(t, p)
        /\ UNCHANGED <<db, imported, acked, rejected>>
        /\ req'[t].op # "genesis"
  <2>1. ASSUME NEW b \in Block, NEW f \in Faults \cup {"none"}, NewPayload(t, b, f)
        PROVE  req'[t].op # "genesis"
    <3>1. req'[t] = [BlockRequest("newPayload", b) EXCEPT !.fault = f]
      BY <1>0, <2>1 DEF NewPayload
    <3> QED
      BY <3>1 DEF BlockRequest, NoRequest
  <2>2. ASSUME NEW f \in ForkChoices, ForkchoiceUpdated(t, f)
        PROVE  req'[t].op # "genesis"
    BY <1>0, <2>2 DEF ForkchoiceUpdated
  <2> QED
    BY <2>1, <2>2 DEF Request, NewPayload, ForkchoiceUpdated
<1>2. t \in Task /\ t # Main /\ \A u \in Task : u = t \/ u = Main
  BY TaskAssumption DEF Task, OneAtATime
<1>3. Settled(db')
  <2>1. \A u \in Task : pc[u] \in Parked
    BY <1>1, <1>2
  <2> QED
    BY <1>1, <2>1 DEF SInv
<1>4. pc'[t] = p /\ pc'[Main] = "serving"
  BY <1>1, <1>2 DEF Goto, IInv, TypeOK, Task
<1>5. Stage(p, req'[t], loc'[t], db')
  BY <1>1, <1>3, ZenonT(60) DEF Stage
<1>6. Alone' /\ FileAhead'
  BY <1>1, <1>2, <1>4, TaskAssumption, ZenonT(60) DEF Alone, FileAhead, Task
<1>7. acked' \subseteq Canon(db') /\ RejectedInvalid'
  BY <1>1, ZenonT(60) DEF SInv, RejectedInvalid, Canon
<1> QED
  BY <1>1, <1>2, <1>4, <1>5, <1>6, <1>7, ZenonT(60) DEF SInv

LEMMA NewPayloadSequential ==
  ASSUME OneAtATime, IInv, SInv, NEW t \in Task, NewPayloadStep(t)
  PROVE  SInv'
<1> USE DEF Parked, Founding, StateWritten, LocationsWritten, BodyWritten,
            HeaderWritten, NumberWritten, LatestWritten, TotalWritten,
            PayloadRead, ParentFound, HeaderValid
<1>0. /\ TypeOK /\ req[t] \in Requests /\ db \in Tables
      /\ loc \in [Task -> Values]
      /\ pc[t] \notin Parked => Stage(pc[t], req[t], loc[t], db)
  BY DEF IInv, TypeOK, SInv
<1>a. /\ Settled(db) /\ db.latest \in Nat
      /\ pc[t] \in {"config", "last", "known", "valid_number", "valid_hash"}
  <2>1. pc[t] \in {"config", "last", "known", "valid_number", "valid_hash"}
    BY DEF NewPayloadStep, PayloadRefused, PayloadWellFormed, PayloadHeight,
           PayloadAhead, PayloadKnown, PayloadReorg, LatestValidNumber, LatestValidHash
  <2> QED
    BY <1>0, <2>1, HeightIsNumber, ZenonT(60) DEF Stage, Settled
<1>1. CASE PayloadRefused(t)
  BY <1>0, <1>1, <1>a, WorkerAnswers DEF PayloadRefused
<1>2. CASE PayloadWellFormed(t)
  <2>1. Stage("last", req[t], loc'[t], db)
    BY <1>0, <1>a, ZenonT(60) DEF Stage
  <2> QED
    BY <1>0, <1>2, <2>1, WorkerReads DEF PayloadWellFormed, Branches, Labels
<1>3. CASE PayloadHeight(t)
  <2>1. Stage("known", req[t], loc'[t], db)
    BY <1>0, <1>a, ZenonT(60) DEF Stage
  <2>2. Number[req[t].block] = db.latest + 1 => Stage("valid_number", req[t], loc'[t], db)
    <3>1. Number[req[t].block] = db.latest + 1 => Number[req[t].block] > db.latest
      BY <1>a
    <3> QED
      BY <1>0, <1>a, <3>1, ZenonT(60) DEF Stage
  <2> QED
    BY <1>0, <1>3, <2>1, <2>2, WorkerReads, ZenonT(60) DEF PayloadHeight, Branches, Labels
<1>4. CASE PayloadAhead(t)
  BY <1>0, <1>4, <1>a, WorkerAnswers, ZenonT(60) DEF PayloadAhead
<1>5. CASE PayloadKnown(t)
  <2>1. req[t].block \in Block /\ Number[req[t].block] # None
    BY <1>0, <1>5, BlockAssumption, HeightIsNumber, ZenonT(60) DEF PayloadKnown, IInv, TaskOK, BlockNamed
  <2>2. req[t].block \in db.numbers /\ db.numbers \subseteq db.headers
    BY <1>5, <2>1, ZenonT(60) DEF PayloadKnown, get_block_number, IInv, TablesOK
  <2>3. req[t].block \in Canon(db)
    BY <2>2, <1>a, ZenonT(60) DEF Settled
  <2> QED
    BY <1>0, <1>5, <1>a, <2>3, WorkerAccepts, ZenonT(60) DEF PayloadKnown
<1>6. CASE PayloadReorg(t)
  BY <1>0, <1>6, <1>a, WorkerAnswers, ZenonT(60) DEF PayloadReorg
<1>7. CASE LatestValidNumber(t)
  <2>1. Stage("valid_hash", req[t], loc'[t], db)
    BY <1>0, <1>7, <1>a, ZenonT(60) DEF Stage, LatestValidNumber
  <2> QED
    BY <1>0, <1>7, <2>1, WorkerReads DEF LatestValidNumber, Labels
<1>8. CASE LatestValidHash(t)
  <2>1. Stage("parent_canonical", req[t], loc'[t], db)
    BY <1>0, <1>8, <1>a, ZenonT(60) DEF Stage, LatestValidHash
  <2> QED
    BY <1>0, <1>8, <1>a, <2>1, WorkerReads, WorkerAnswers
       DEF LatestValidHash, Branches, Labels
<1> QED
  BY <1>1, <1>2, <1>3, <1>4, <1>5, <1>6, <1>7, <1>8 DEF NewPayloadStep

\* A canonical parent is found again by its number, as itself.
LEMMA ParentHeaderFound ==
  ASSUME NEW d, d \in Tables, TablesOK(d), Settled(d), NEW n \in Heights,
         d.canonical[n] \in Block
  PROVE  /\ get_block_number(d, d.canonical[n]) = n
         /\ get_block_header(d, n) = d.canonical[n]
<1>1. d.canonical[n] \in d.headers /\ Number[d.canonical[n]] = n
  BY BlockAssumption DEF TablesOK
<1>2. d.canonical[n] \in d.numbers
  BY <1>1, StoredIsCanonical
<1> QED
  BY <1>1, <1>2 DEF get_block_number, get_block_header, get_canonical_block_hash

\* A new block whose parent is canonical comes right after the latest one.
LEMMA NextNumber ==
  ASSUME NEW d, NEW k \in Heights, Line(d, k + 1), NEW n \in Heights,
         n = 0 \/ n > k, Pred(n) \in Heights, d.canonical[Pred(n)] # None
  PROVE  n = 0 \/ n = k + 1
<1>1. k \in Nat /\ n \in Nat
  BY HeightIsNumber
<1>2. Pred(n) < k + 1
  BY DEF Line
<1> QED
  BY <1>1, <1>2 DEF Pred

LEMMA HeaderAboveParent ==
  ASSUME NEW b \in Block, b # Genesis, Verdict[b] # "header"
  PROVE  Number[b] > 0
<1>1. Parent[b] \in Block /\ Number[b] = Number[Parent[b]] + 1
  BY HeaderAssumption
<1>2. Number[Parent[b]] \in Nat
  BY <1>1, BlockAssumption, HeightIsNumber
<1> QED
  BY <1>1, <1>2

LEMMA AddBlockSequential ==
  ASSUME OneAtATime, IInv, SInv, NEW t \in Task, AddBlock(t)
  PROVE  SInv'
<1> USE DEF Parked, Founding, StateWritten, LocationsWritten, BodyWritten,
            HeaderWritten, NumberWritten, LatestWritten, TotalWritten,
            PayloadRead, ParentFound, HeaderValid
<1> DEFINE b == req[t].block
<1>0. /\ TypeOK /\ req[t] \in Requests /\ db \in Tables /\ TablesOK(db)
      /\ loc \in [Task -> Values]
      /\ pc[t] \notin Parked => Stage(pc[t], req[t], loc[t], db)
      /\ TaskOK(pc[t], req[t], db)
  BY DEF IInv, TypeOK, SInv
<1>a. pc[t] \in {"parent_canonical", "find_parent", "validate", "execute", "apply", "root"}
  BY DEF AddBlock, ValidateParentCanonical, FindParentHeader, ValidateBlock,
         ExecuteBlock, ApplyAccountUpdates, ValidateStateRoot
<1>b. Settled(db) /\ db.latest \in Heights /\ db.latest \in Nat /\ db.config
  BY <1>0, <1>a, HeightIsNumber, ZenonT(60) DEF Stage, Settled
<1>c. b \in Block /\ Number[b] \in Heights /\ Number[b] \in Nat
  BY <1>0, <1>a, BlockAssumption, HeightIsNumber, ZenonT(60) DEF TaskOK, BlockNamed, ParentChecked
<1>1. CASE ValidateParentCanonical(t)
  <2>1. CASE ParentIsCanonical(t)
    <3>1. /\ Pred(Number[b]) \in Heights
          /\ db.canonical[Pred(Number[b])] = Parent[b] /\ Parent[b] # None
      BY <1>c, <2>1, BlockAssumption, ZenonT(60)
         DEF ParentIsCanonical, get_canonical_block_hash, Pred, Heights
    <3>2. b # Genesis /\ req[t].op # "genesis"
      <4>1. b # Genesis
        BY <3>1, GenesisAssumption
      <4>2. req[t].op # "genesis"
        BY <1>0, <1>1, <4>1, ZenonT(60) DEF ValidateParentCanonical, Stage
      <4> QED
        BY <4>1, <4>2
    <3>3. Number[b] = 0 \/ Number[b] = db.latest + 1
      <4>1. /\ Number[b] = 0 \/ Number[b] > db.latest
            /\ Line(db, db.latest + 1) /\ db.latest \in Heights /\ Number[b] \in Heights
        BY <1>0, <1>1, <1>b, <1>c, ZenonT(60) DEF ValidateParentCanonical, Stage, Settled
      <4> QED
        BY <3>1, <4>1, NextNumber
    <3>4. Stage("find_parent", req[t], loc'[t], db)
      BY <1>b, <3>1, <3>2, <3>3, ZenonT(60) DEF Stage
    <3> QED
      BY <1>0, <1>1, <2>1, <3>4, WorkerReads, ZenonT(60) DEF ValidateParentCanonical, Branches, Labels
  <2>2. CASE ~ParentIsCanonical(t)
    BY <1>0, <1>1, <1>b, <2>2, WorkerAnswers, ZenonT(60) DEF ValidateParentCanonical
  <2> QED
    BY <2>1, <2>2
<1>2. CASE FindParentHeader(t)
  <2> DEFINE m == Pred(Number[b])
             n == get_block_number(db, Parent[b])
             header == IF n = None THEN None ELSE get_block_header(db, n)
  <2>1. db.canonical[m] = Parent[b] /\ Parent[b] \in Block /\ m \in Heights
    <3>1. db.canonical[m] = Parent[b]
      BY <1>0, <1>2, ZenonT(60) DEF FindParentHeader, Stage
    <3>2. Parent[b] \in Block
      BY <1>0, <1>2, ZenonT(60) DEF FindParentHeader, TaskOK, ParentChecked, Tables
    <3>3. m \in Heights
      BY <1>c, BlockAssumption DEF Pred, Heights
    <3> QED
      BY <3>1, <3>2, <3>3, ZenonT(60)
  <2>2. header = Parent[b] /\ header # None
    <3>1. n = m /\ get_block_header(db, m) = Parent[b]
      BY <1>0, <1>b, <2>1, ParentHeaderFound, ZenonT(60)
    <3> QED
      BY <2>1, <3>1, HeightIsNumber, BlockAssumption
  <2>3. Goto(t, "validate") /\ loc' = [loc EXCEPT ![t].hash = header] /\ Reads
    BY <1>2, <2>2 DEF FindParentHeader
  <2>4. loc'[t].hash = Parent[b]
    BY <1>0, <2>2, <2>3 DEF Values
  <2>5. Stage("validate", req[t], loc'[t], db)
    BY <1>0, <1>2, <1>b, <2>4, ZenonT(60) DEF FindParentHeader, Stage
  <2> QED
    BY <1>0, <1>2, <2>3, <2>5, WorkerReads, ZenonT(60) DEF FindParentHeader, Labels
<1>3. CASE ValidateBlock(t)
  <2>1. CASE Verdict[b] # "header"
    <3>1. Number[b] > 0
      <4>1. b # Genesis
        BY <1>0, <1>3, ZenonT(60) DEF ValidateBlock, Stage
      <4> QED
        BY <1>c, <2>1, <4>1, HeaderAboveParent
    <3>2. Stage("execute", req[t], loc'[t], db)
      BY <1>0, <1>3, <1>b, <2>1, <3>1, ZenonT(60) DEF ValidateBlock, Stage
    <3>3. Goto(t, "execute") /\ Branches
      BY <1>0, <1>3, <1>b, <2>1, ZenonT(60) DEF ValidateBlock, Stage
    <3> QED
      BY <1>0, <1>a, <1>3, <3>2, <3>3, WorkerReads, ZenonT(60) DEF ValidateBlock, Branches, Labels
  <2>2. CASE Verdict[b] = "header"
    <3>1. AnswerInvalid(t)
      BY <1>3, <1>b, <2>2, ZenonT(60) DEF ValidateBlock
    <3> QED
      BY <1>0, <1>a, <1>b, <2>2, <3>1, WorkerRejects, ZenonT(60)
  <2> QED
    BY <2>1, <2>2
<1>4. CASE ExecuteBlock(t)
  <2>1. Stage("apply", req[t], loc'[t], db)
    BY <1>0, <1>4, <1>b, ZenonT(60) DEF ExecuteBlock, Stage
  <2> QED
    BY <1>0, <1>4, <1>b, <2>1, WorkerReads, WorkerRejects, ZenonT(60)
       DEF ExecuteBlock, Branches, Labels
<1>5. CASE ApplyAccountUpdates(t)
  <2>1. /\ SameLine(db, db') /\ db'.headers = db.headers /\ db'.latest = db.latest
        /\ db'.config = db.config
    BY <1>0, <1>5, SameLineReflexive DEF ApplyAccountUpdates, write_state, SameLine, Tables
  <2>2. Settled(db') /\ Canon(db') = Canon(db) /\ db'.canonical = db.canonical
    BY <1>b, <2>1, SettledKept, LineKept, ZenonT(60) DEF SameLine
  <2>3. Verdict[b] = "ok" => b \in db'.states
    BY <1>0, <1>5 DEF ApplyAccountUpdates, write_state, Tables, TablesOK, TaskOK,
                      ParentChecked
  <2>4. Stage("root", req[t], loc[t], db')
    BY <1>0, <1>5, <2>1, <2>2, <2>3, ZenonT(60) DEF ApplyAccountUpdates, Stage
  <2> QED
    BY <1>0, <1>5, <2>1, <2>2, <2>4, WorkerWrites, ZenonT(60) DEF ApplyAccountUpdates, Labels
<1>6. CASE ValidateStateRoot(t)
  <2>1. CASE b \in db.states
    <3>1. Joining(db, b)
      <4>1. /\ Number[b] = 0 \/ Number[b] = db.latest + 1
            /\ db.canonical[Pred(Number[b])] = Parent[b] /\ Number[b] > 0
        BY <1>0, <1>6, ZenonT(60) DEF ValidateStateRoot, Stage, HeaderValid
      <4>2. Line(db, db.latest + 1) /\ db.headers \subseteq Canon(db) /\ Number[b] \in Heights
        BY <1>b, <1>c, ZenonT(60) DEF Settled
      <4>3. Number[b] = db.latest + 1 /\ Pred(Number[b]) = Number[b] - 1
        BY <4>1, <4>2, HeightIsNumber DEF Pred
      <4> QED
        BY <4>1, <4>2, <4>3, ZenonT(60) DEF Joining
    <3>2. Stage("td", req[t], loc'[t], db)
      BY <1>0, <1>6, <1>b, <3>1, ZenonT(60) DEF ValidateStateRoot, Stage
    <3> QED
      BY <1>0, <1>6, <2>1, <3>2, WorkerReads, ZenonT(60) DEF ValidateStateRoot, Branches, Labels
  <2>2. CASE b \notin db.states
    BY <1>0, <1>6, <1>b, <2>2, WorkerRejects, ZenonT(60) DEF ValidateStateRoot, Stage
  <2> QED
    BY <2>1, <2>2
<1> QED
  BY <1>1, <1>2, <1>3, <1>4, <1>5, <1>6 DEF AddBlock

LEMMA StoreSequential ==
  ASSUME OneAtATime, IInv, SInv, NEW t \in Task, StoreAddBlock(t)
  PROVE  SInv'
<1> USE DEF Parked, Founding, StateWritten, LocationsWritten, BodyWritten,
            HeaderWritten, NumberWritten, LatestWritten, TotalWritten,
            PayloadRead, ParentFound, HeaderValid
<1> DEFINE b == req[t].block
<1>0. /\ TypeOK /\ req[t] \in Requests /\ db \in Tables /\ TablesOK(db)
      /\ loc \in [Task -> Values] /\ loc[t].td \in Nat
      /\ pc[t] \notin Parked => Stage(pc[t], req[t], loc[t], db)
      /\ TaskOK(pc[t], req[t], db)
  BY ZenonT(60) DEF IInv, TypeOK, SInv, Values
<1>a. pc[t] \in StateWritten
  BY DEF StoreAddBlock, ReadLatestTotalDifficulty, AddTransactionLocations,
     AddBlockBody, AddBlockHeader, AddBlockNumber, UpdateLatestBlockNumber,
     AddBlockTotalDifficulty, UpdateLatestTotalDifficulty, StoreReceipts, SetCanonical
<1>b. /\ Joining(db, b) /\ (req[t].op # "genesis" => db.config)
      /\ (req[t].op = "genesis" <=> b = Genesis)
      /\ Stage(pc[t], req[t], loc[t], db)
  BY <1>0, <1>a, ZenonT(60) DEF Stage
<1>c. b \in Block /\ Number[b] \in Heights /\ Number[b] \in Nat
  BY <1>0, <1>a, BlockAssumption, HeightIsNumber, ZenonT(60) DEF TaskOK, BlockNamed
<1>1. CASE ReadLatestTotalDifficulty(t)
  <2>1. Stage("locations", req[t], loc'[t], db)
    BY <1>b, ZenonT(60) DEF Stage
  <2> QED
    BY <1>0, <1>1, <2>1, WorkerReads DEF ReadLatestTotalDifficulty, Labels
<1>2. CASE AddTransactionLocations(t)
  <2>1. /\ SameLine(db, db') /\ db'.headers = db.headers /\ db'.latest = db.latest
        /\ db'.config = db.config
    BY <1>0, <1>2 DEF AddTransactionLocations, add_transaction_locations, SameLine, Tables
  <2>2. Joining(db', b) /\ Canon(db') = Canon(db)
    BY <1>b, <2>1, JoiningKept, LineKept, ZenonT(60)
  <2>3. Stage("body", req[t], loc[t], db')
    BY <1>b, <2>1, <2>2, ZenonT(60) DEF Stage
  <2> QED
    BY <1>0, <1>2, <2>1, <2>2, <2>3, WorkerWrites, ZenonT(60) DEF AddTransactionLocations, Labels
<1>3. CASE AddBlockBody(t)
  <2>1. /\ SameLine(db, db') /\ db'.headers = db.headers /\ db'.latest = db.latest
        /\ db'.config = db.config
    BY <1>0, <1>3 DEF AddBlockBody, add_block_body, SameLine, Tables
  <2>2. Joining(db', b) /\ Canon(db') = Canon(db)
    BY <1>b, <2>1, JoiningKept, LineKept, ZenonT(60)
  <2>3. Stage("header", req[t], loc[t], db')
    BY <1>b, <2>1, <2>2, ZenonT(60) DEF Stage
  <2> QED
    BY <1>0, <1>3, <2>1, <2>2, <2>3, WorkerWrites, ZenonT(60) DEF AddBlockBody, Labels
<1>4. CASE AddBlockHeader(t)
  <2>1. /\ SameLine(db, db') /\ db'.headers = db.headers \cup {b}
        /\ db'.latest = db.latest /\ db'.config = db.config
    BY <1>0, <1>4 DEF AddBlockHeader, add_block_header, SameLine, Tables
  <2>2. Joining(db', b) /\ Canon(db') = Canon(db)
    BY <1>b, <2>1, JoiningKept, LineKept, ZenonT(60)
  <2>3. Stage("number", req[t], loc[t], db')
    BY <1>b, <2>1, <2>2, ZenonT(60) DEF Stage
  <2> QED
    BY <1>0, <1>4, <2>1, <2>2, <2>3, WorkerWrites, ZenonT(60) DEF AddBlockHeader, Labels
<1>5. CASE AddBlockNumber(t)
  <2>1. /\ SameLine(db, db') /\ db'.headers = db.headers /\ db'.latest = db.latest
        /\ db'.config = db.config
    BY <1>0, <1>5 DEF AddBlockNumber, add_block_number, SameLine, Tables
  <2>2. Joining(db', b) /\ Canon(db') = Canon(db)
    BY <1>b, <2>1, JoiningKept, LineKept, ZenonT(60)
  <2>3. Stage("latest", req[t], loc[t], db')
    BY <1>b, <2>1, <2>2, ZenonT(60) DEF Stage
  <2> QED
    BY <1>0, <1>5, <2>1, <2>2, <2>3, WorkerWrites, ZenonT(60) DEF AddBlockNumber, Labels
<1>6. CASE UpdateLatestBlockNumber(t)
  <2>1. /\ SameLine(db, db') /\ db'.headers = db.headers /\ db'.latest = Number[b]
        /\ db'.config = db.config
    BY <1>0, <1>6 DEF UpdateLatestBlockNumber, update_latest_block_number, SameLine, Tables
  <2>2. Joining(db', b) /\ Canon(db') = Canon(db)
    BY <1>b, <2>1, JoiningKept, LineKept, ZenonT(60)
  <2>3. Stage("block_td", req[t], loc[t], db')
    BY <1>b, <2>1, <2>2, ZenonT(60) DEF Stage
  <2>4. FileAhead'
    <3>1. CASE t # Main
      <4>1. pc[Main] = "serving" /\ pc'[Main] = pc[Main]
        BY <1>0, <1>6, <3>1, ZenonT(60) DEF SInv, Alone, Task, UpdateLatestBlockNumber, Goto, TypeOK
      <4> QED
        BY <4>1 DEF FileAhead
    <3>2. CASE t = Main
      <4> SUFFICES ASSUME NEW j \in imported + 1 .. Len(ImportFile)
                   PROVE  Number[ImportFile[j]] = 0 \/ Number[ImportFile[j]] > Number[b]
        BY <1>6, <2>1, <3>2, ZenonT(60) DEF SInv, FileAhead, UpdateLatestBlockNumber, Writes, Goto, TypeOK
      <4>1. imported \in Nat /\ j \in 1 .. Len(ImportFile) /\ ImportFile[j] \in Block
        <5>1. Len(ImportFile) \in Nat /\ imported \in 0 .. Len(ImportFile)
          BY <1>0, TaskAssumption DEF TypeOK
        <5>2. imported \in Nat /\ j \in 1 .. Len(ImportFile)
          BY <5>1
        <5> QED
          BY <5>2, TaskAssumption
      <4>2. Number[ImportFile[j]] \in Nat
        BY <4>1, BlockAssumption, HeightIsNumber
      <4>3. CASE req[t].op = "genesis"
        <5>1. Number[b] = 0
          BY <1>b, <4>3, GenesisAssumption, ZenonT(60)
        <5> QED
          BY <4>2, <5>1
      <4>4. CASE req[t].op # "genesis"
        <5>1. imported > 0 /\ b = ImportFile[imported]
          BY <1>6, <3>2, <4>4 DEF SInv, FileAhead, UpdateLatestBlockNumber
        <5> QED
          BY <1>0, <4>1, <5>1 DEF OneAtATime, TypeOK
      <4> QED
        BY <4>3, <4>4
    <3> QED
      BY <3>1, <3>2
  <2> QED
    BY <1>0, <1>6, <2>2, <2>3, <2>4, WorkerWrites, ZenonT(60) DEF UpdateLatestBlockNumber, Labels
<1>7. CASE AddBlockTotalDifficulty(t)
  <2>1. /\ SameLine(db, db') /\ db'.headers = db.headers /\ db'.latest = db.latest
        /\ db'.config = db.config /\ db'.totals[b] # None
    BY <1>0, <1>7, <1>c, BlockAssumption
       DEF AddBlockTotalDifficulty, add_block_total_difficulty, SameLine, Tables
  <2>2. Joining(db', b) /\ Canon(db') = Canon(db)
    BY <1>b, <2>1, JoiningKept, LineKept, ZenonT(60)
  <2>3. Stage("latest_td", req[t], loc[t], db')
    BY <1>b, <1>7, <2>1, <2>2, ZenonT(60) DEF AddBlockTotalDifficulty, Stage
  <2> QED
    BY <1>0, <1>7, <2>1, <2>2, <2>3, WorkerWrites, ZenonT(60) DEF AddBlockTotalDifficulty, Labels
<1>8. CASE UpdateLatestTotalDifficulty(t)
  <2> DEFINE next == IF req[t].op = "genesis" THEN "set_canonical" ELSE "receipts"
  <2>1. /\ SameLine(db, db') /\ db'.headers = db.headers /\ db'.latest = db.latest
        /\ db'.config = db.config /\ db'.totals = db.totals
    BY <1>0, <1>8
       DEF UpdateLatestTotalDifficulty, update_latest_total_difficulty, SameLine, Tables
  <2>2. Joining(db', b) /\ Canon(db') = Canon(db)
    BY <1>b, <2>1, JoiningKept, LineKept, ZenonT(60)
  <2>3. Stage(next, req[t], loc[t], db')
    BY <1>b, <1>8, <2>1, <2>2, ZenonT(60) DEF UpdateLatestTotalDifficulty, Stage
  <2> QED
    BY <1>0, <1>8, <2>1, <2>2, <2>3, WorkerWrites, ZenonT(60) DEF UpdateLatestTotalDifficulty, Labels
<1>9. CASE StoreReceipts(t)
  <2>1. /\ SameLine(db, db') /\ db'.headers = db.headers /\ db'.latest = db.latest
        /\ db'.config = db.config /\ db'.totals = db.totals /\ b \in db'.receipts
    BY <1>0, <1>9 DEF StoreReceipts, add_receipts, SameLine, Tables
  <2>2. Joining(db', b) /\ Canon(db') = Canon(db)
    BY <1>b, <2>1, JoiningKept, LineKept, ZenonT(60)
  <2>3. Stage("set_canonical", req[t], loc[t], db')
    BY <1>b, <1>9, <2>1, <2>2, ZenonT(60) DEF StoreReceipts, Stage
  <2> QED
    BY <1>0, <1>9, <2>1, <2>2, <2>3, WorkerWrites, ZenonT(60) DEF StoreReceipts, Labels
<1>10. CASE SetCanonical(t)
  <2> DEFINE n == Number[b]
             d == set_canonical_block(db, n, b)
  <2>1. /\ d.canonical = [db.canonical EXCEPT ![n] = b] /\ d.headers = db.headers
        /\ d.latest = db.latest /\ d.config = db.config /\ d.numbers = db.numbers
        /\ d.receipts = db.receipts /\ d.totals = db.totals
        /\ db.canonical \in [Heights -> OptionBlock]
    BY <1>0, <1>c DEF set_canonical_block, Tables
  <2>2. /\ b \in db.numbers /\ db.latest = n /\ db.totals[b] # None
        /\ b # Genesis => b \in db.receipts
        /\ Line(db, n) /\ db.canonical[n] = None
    <3>1. b \in db.numbers /\ Line(db, n)
      BY <1>0, <1>10, <1>b, ZenonT(60) DEF SetCanonical, TaskOK, Joining
    <3>2. db.latest = n /\ db.totals[b] # None /\ (b # Genesis => b \in db.receipts)
      BY <1>10, <1>b, ZenonT(60) DEF SetCanonical, Stage
    <3>3. db.canonical[n] = None
      <4>1. n \in Heights /\ ~(n < n)
        BY <1>c
      <4> QED
        BY <3>1, <4>1, ZenonT(60) DEF Line
    <3> QED
      BY <3>1, <3>2, <3>3, ZenonT(60)
  <2> HIDE DEF d
  <2>3. Canon(d) = Canon(db) \cup {b}
    <3>1. ASSUME NEW c \in Block PROVE c \in Canon(d) <=> c \in Canon(db) \/ c = b
      <4>1. CASE Number[c] = n
        BY <1>c, <2>1, <2>2, <4>1, BlockAssumption, ZenonT(60) DEF Canon
      <4>2. CASE Number[c] # n
        BY <1>c, <2>1, <4>2, BlockAssumption, ZenonT(60) DEF Canon
      <4> QED
        BY <4>1, <4>2, ZenonT(60)
    <3> QED
      BY <1>c, <3>1 DEF Canon
  <2>4. Line(d, n + 1)
    <3>1. \A m \in Heights : (d.canonical[m] # None) <=> m < n + 1
      <4> SUFFICES ASSUME NEW m \in Heights
                   PROVE  (d.canonical[m] # None) <=> m < n + 1
        OBVIOUS
      <4>1. m \in Nat
        BY HeightIsNumber
      <4>2. CASE m = n
        BY <1>c, <2>1, <4>1, <4>2, BlockAssumption
      <4>3. CASE m # n
        <5>1. (d.canonical[m] # None) <=> m < n
          BY <1>c, <2>1, <2>2, <4>3 DEF Line
        <5> QED
          BY <1>c, <4>1, <4>3, <5>1
      <4> QED
        BY <4>2, <4>3, ZenonT(60)
    <3>2. d.canonical[0] = Genesis
      <4>1. CASE b = Genesis
        BY <1>c, <2>1, <4>1, GenesisAssumption, ZenonT(60)
      <4>2. CASE b # Genesis
        <5>1. n > 0 /\ 0 \in Heights
          <6>1. n > 0
            BY <1>b, <4>2, ZenonT(60) DEF Joining
          <6> QED
            BY <6>1, BlockAssumption DEF Heights
        <5> QED
          BY <1>c, <2>1, <2>2, <5>1, ZenonT(60) DEF Line
      <4> QED
        BY <4>1, <4>2
    <3>3. ASSUME NEW m \in Heights, 0 < m, m < n + 1
          PROVE  Parent[d.canonical[m]] = d.canonical[m - 1]
      <4>1. m \in Nat /\ m - 1 \in Heights
        BY <3>3, BlockAssumption DEF Heights
      <4>2. CASE m = n
        <5>1. b # Genesis
          BY <3>3, <4>2, GenesisAssumption
        <5>2. d.canonical[m] = b /\ d.canonical[m - 1] = db.canonical[n - 1]
          BY <1>c, <2>1, <4>1, <4>2
        <5> QED
          BY <1>b, <5>1, <5>2, ZenonT(60) DEF Joining
      <4>3. CASE m # n
        <5>1. m < n /\ m - 1 # n
          BY <1>c, <3>3, <4>1, <4>3
        <5>2. d.canonical[m] = db.canonical[m] /\ d.canonical[m - 1] = db.canonical[m - 1]
          BY <1>c, <2>1, <4>1, <5>1
        <5> QED
          BY <2>2, <3>3, <5>1, <5>2 DEF Line
      <4> QED
        BY <4>2, <4>3, ZenonT(60)
    <3>4. Canon(d) \subseteq d.numbers
      BY <2>1, <2>2, <2>3, ZenonT(60) DEF Line
    <3>5. \A c \in Canon(d) : d.totals[c] # None /\ (c # Genesis => c \in d.receipts)
      BY <2>1, <2>2, <2>3 DEF Line
    <3> QED
      BY <3>1, <3>2, <3>3, <3>4, <3>5 DEF Line
  <2>5. d.headers \subseteq Canon(d)
    BY <1>b, <2>1, <2>3, ZenonT(60) DEF Joining
  <2>6. CASE req[t].op = "genesis"
    <3>1. n = 0
      BY <1>b, <2>6, GenesisAssumption, ZenonT(60)
    <3>2. d.latest = 0 /\ Line(d, 1)
      BY <2>1, <2>2, <2>4, <3>1
    <3>3. Stage("set_config", req[t], loc[t], d)
      BY <2>5, <3>2, ZenonT(60) DEF Stage
    <3> QED
      BY <1>0, <1>10, <2>1, <2>3, <2>6, <3>3, WorkerWrites, ZenonT(60) DEF SetCanonical, Labels, d
  <2>7. CASE req[t].op # "genesis"
    <3>1. Settled(d)
      BY <1>b, <1>c, <2>1, <2>2, <2>4, <2>5, <2>7, ZenonT(60) DEF Settled
    <3>2. b \in Canon(d) /\ Canon(db) \subseteq Canon(d)
      BY <2>3
    <3> QED
      BY <1>0, <1>10, <2>1, <2>7, <3>1, <3>2, WorkerAccepts, ZenonT(60) DEF SetCanonical, d
  <2> QED
    BY <2>6, <2>7
<1> QED
  BY <1>1, <1>2, <1>3, <1>4, <1>5, <1>6, <1>7, <1>8, <1>9, <1>10
     DEF StoreAddBlock

\* Fork choice finds its head canonical, and so only moves the two marks.
LEMMA ForkchoiceSequential ==
  ASSUME OneAtATime, IInv, SInv, NEW t \in Task, ForkchoiceStep(t)
  PROVE  SInv'
<1> USE DEF Parked, Founding, StateWritten, LocationsWritten, BodyWritten,
            HeaderWritten, NumberWritten, LatestWritten, TotalWritten,
            PayloadRead, ParentFound, HeaderValid
<1> DEFINE b == req[t].block
           Marks == {"fc_difficulty", "fc_canonical", "fc_final", "fc_final_check",
                     "fc_final_set", "fc_safe", "fc_safe_check", "fc_safe_set",
                     "fc_build", "fc_payload"}
<1>0. /\ TypeOK /\ req[t] \in Requests /\ db \in Tables
      /\ loc \in [Task -> Values]
      /\ pc[t] \notin Parked => Stage(pc[t], req[t], loc[t], db)
      /\ TaskOK(pc[t], req[t], db)
  BY ZenonT(60) DEF IInv, TypeOK, SInv
<1>a. pc[t] \in HeadFound \cup {"fc_head"}
  BY DEF ForkchoiceStep, HeadStored, TotalDifficultyCheck, ReadCanonicalAtHead,
     ReadLatestAtHead, HeadAdopted, UpdateIgnored, HeadParentCanonical,
     SetCanonicalHead, FindFinalized, CheckFinalized, UpdateFinalized, FindSafe,
     CheckSafe, UpdateSafe, BuildPayload, AddPayload, HeadFound
<1>b. Settled(db) /\ pc[t] \notin {"fc_parent", "fc_set"} /\ pc[t] \notin Parked \cup {"start", "import"}
  BY <1>0, <1>a, ZenonT(60) DEF Stage, HeadFound
<1>c. pc[t] \in HeadFound => b \in Block /\ Number[b] \in Heights /\ db.canonical[Number[b]] = b
  BY <1>0, <1>b, StoredIsCanonical, BlockAssumption, ZenonT(60) DEF TaskOK
<1>d. ASSUME NEW p \in Marks, NEW v, NEW e, Settled(e)
      PROVE  Stage(p, req[t], v, e) /\ p \in Labels \ (Parked \cup {"start"})
  BY <1>d, ZenonT(60) DEF Stage, Labels
<1>e. CASE Answer(t)
  BY <1>0, <1>b, <1>e, WorkerAnswers, ZenonT(60)
<1>f. ASSUME NEW p \in Marks, Goto(t, p), Branches
      PROVE  SInv'
  BY <1>0, <1>b, <1>d, <1>f, WorkerReads, ZenonT(60) DEF Branches
<1>g. ASSUME NEW p \in Marks, Goto(t, p), Writes, SameLine(db, db'),
             db'.headers = db.headers, db'.latest = db.latest, db'.config = db.config
      PROVE  SInv'
  BY <1>0, <1>b, <1>d, <1>g, SettledKept, LineKept, WorkerWrites, ZenonT(60)
<1>1. CASE HeadStored(t)
  BY <1>e, <1>f, <1>1, ZenonT(60) DEF HeadStored
<1>2. CASE TotalDifficultyCheck(t)
  BY <1>e, <1>f, <1>2 DEF TotalDifficultyCheck
<1>3. CASE ReadCanonicalAtHead(t)
  <2>1. loc'[t].hash = b
    BY <1>0, <1>3, <1>c DEF ReadCanonicalAtHead, Values, HeadFound, get_canonical_block_hash
  <2>2. Stage("fc_latest", req[t], loc'[t], db)
    BY <1>b, <2>1, ZenonT(60) DEF Stage
  <2> QED
    BY <1>0, <1>b, <1>3, <2>2, WorkerReads, ZenonT(60) DEF ReadCanonicalAtHead, Labels
<1>4. CASE ReadLatestAtHead(t)
  <2>1. loc'[t].hash = loc[t].hash /\ loc[t].hash = b
    BY <1>0, <1>4, <1>b DEF ReadLatestAtHead, Values, Stage
  <2>2. Stage("fc_current", req[t], loc'[t], db)
    BY <1>b, <2>1, ZenonT(60) DEF Stage
  <2> QED
    BY <1>0, <1>b, <1>4, <2>2, WorkerReads DEF ReadLatestAtHead, Labels
<1>5. CASE HeadAdopted(t)
  <2>1. ~HeadReplaces(t)
    BY <1>0, <1>b, <1>5, ZenonT(60) DEF HeadReplaces, HeadAdopted, Stage
  <2> QED
    BY <1>f, <1>5, <2>1 DEF HeadAdopted
<1>6. CASE UpdateIgnored(t)
  BY <1>e, <1>6 DEF UpdateIgnored
<1>7. CASE HeadParentCanonical(t) \/ SetCanonicalHead(t)
  BY <1>b, <1>7, ZenonT(60) DEF HeadParentCanonical, SetCanonicalHead
<1>8. CASE FindFinalized(t) \/ CheckFinalized(t)
  BY <1>e, <1>f, <1>8, ZenonT(60) DEF FindFinalized, CheckFinalized
<1>9. CASE UpdateFinalized(t)
  <2>1. /\ SameLine(db, db') /\ db'.headers = db.headers /\ db'.latest = db.latest
        /\ db'.config = db.config
    BY <1>0, <1>9, ZenonT(60) DEF UpdateFinalized, update_finalized_block_number, SameLine, Tables
  <2> QED
    BY <1>g, <1>9, <2>1 DEF UpdateFinalized
<1>10. CASE FindSafe(t) \/ CheckSafe(t)
  BY <1>e, <1>f, <1>10, ZenonT(60) DEF FindSafe, CheckSafe
<1>11. CASE UpdateSafe(t)
  <2>1. /\ SameLine(db, db') /\ db'.headers = db.headers /\ db'.latest = db.latest
        /\ db'.config = db.config
    BY <1>0, <1>11 DEF UpdateSafe, update_safe_block_number, SameLine, Tables
  <2> QED
    BY <1>g, <1>11, <2>1 DEF UpdateSafe
<1>12. CASE BuildPayload(t)
  BY <1>e, <1>f, <1>12 DEF BuildPayload
<1>13. CASE AddPayload(t)
  <2>1. /\ SameLine(db, db') /\ db'.headers = db.headers /\ db'.latest = db.latest
        /\ db'.config = db.config
    BY <1>0, <1>13 DEF AddPayload, add_payload, SameLine, Tables
  <2>2. Settled(db') /\ Canon(db') = Canon(db)
    BY <1>b, <2>1, SettledKept, LineKept
  <2>3. acked' \subseteq Canon(db') /\ RejectedInvalid'
    BY <1>13, <2>2, ZenonT(60) DEF AddPayload, SInv, RejectedInvalid
  <2> QED
    BY <1>0, <1>b, <1>13, <2>1, <2>2, <2>3, WorkerFinishes, ZenonT(60) DEF AddPayload
<1> QED
  BY <1>1, <1>2, <1>3, <1>4, <1>5, <1>6, <1>7, <1>8, <1>9, <1>10, <1>11,
     <1>12, <1>13 DEF ForkchoiceStep

-----------------------------------------------------------------------------
LEMMA InitSequential == Init => SInv
<1> SUFFICES ASSUME Init PROVE SInv
  OBVIOUS
<1> USE DEF Parked, Founding, StateWritten, LocationsWritten, BodyWritten,
            HeaderWritten, NumberWritten, LatestWritten, TotalWritten,
            PayloadRead, ParentFound, HeaderValid
<1>1. /\ pc[Main] = "start" /\ Main \in Task
      /\ \A t \in Task : t # Main => pc[t] = "idle"
  BY DEF Init, Task
<1>2. Alone
  BY <1>1, TaskAssumption DEF Alone, Task
<1>3. FileAhead
  BY <1>1, ZenonT(60) DEF FileAhead, Init, EmptyTables
<1>4. Stage("start", req[Main], loc[Main], db)
  BY ZenonT(60) DEF Init, Stage
<1>5. acked \subseteq Canon(db) /\ RejectedInvalid
  BY DEF Init, RejectedInvalid
<1> QED
  BY <1>1, <1>2, <1>3, <1>4, <1>5 DEF SInv

LEMMA NextSequential ==
  ASSUME OneAtATime, IInv, SequentialInv, [Next]_vars
  PROVE  SequentialInv'
<1> SUFFICES ASSUME crashes' = 0 PROVE SInv'
  BY DEF SequentialInv
<1>0. crashes \in Nat
  BY TaskAssumption DEF IInv, TypeOK
<1>1. CASE Boot
  <2>1. crashes = 0
    BY <1>1, ZenonT(60) DEF Boot, GenesisFound, GenesisMissing, SetupGenesisTrie, UpdateEarliest,
       SetChainConfig, ImportNext, StartApi, Branches, Reads, Writes
  <2> QED
    BY <1>1, <2>1, BootSequential DEF SequentialInv
<1>2. ASSUME NEW t \in Task, Step(t) PROVE SInv'
  <2>1. CASE crashes = 0
    BY <1>2, <2>1, AddBlockSequential, StoreSequential, NewPayloadSequential,
       ForkchoiceSequential, ZenonT(60) DEF SequentialInv, Step
  <2>2. crashes = crashes'
    BY <1>2, ZenonT(60) DEF Step, AddBlock, StoreAddBlock, NewPayloadStep, ForkchoiceStep,
       ValidateParentCanonical, FindParentHeader, ValidateBlock, ExecuteBlock,
       ApplyAccountUpdates, ValidateStateRoot, ReadLatestTotalDifficulty,
       AddTransactionLocations, AddBlockBody, AddBlockHeader, AddBlockNumber,
       UpdateLatestBlockNumber, AddBlockTotalDifficulty, UpdateLatestTotalDifficulty,
       StoreReceipts, SetCanonical, PayloadRefused, PayloadWellFormed, PayloadHeight,
       PayloadAhead, PayloadKnown, PayloadReorg, LatestValidNumber, LatestValidHash,
       HeadStored, TotalDifficultyCheck, ReadCanonicalAtHead, ReadLatestAtHead,
       HeadAdopted, UpdateIgnored, HeadParentCanonical, SetCanonicalHead,
       FindFinalized, CheckFinalized, UpdateFinalized, FindSafe, CheckSafe, UpdateSafe,
       BuildPayload, AddPayload, Branches, Reads, Writes, Answer, AnswerValid, AnswerInvalid
  <2> QED
    BY <2>1, <2>2
<1>3. ASSUME NEW t \in Handler, Request(t) PROVE SInv'
  <2>1. crashes = 0
    BY <1>3 DEF Request, NewPayload, ForkchoiceUpdated
  <2> QED
    BY <1>3, <2>1, RequestSequential DEF SequentialInv
<1>4. CASE Crash
  BY <1>0, <1>4 DEF Crash
<1>5. CASE UNCHANGED vars
  BY <1>5, ZenonT(60) DEF vars, SequentialInv, SInv, Alone, FileAhead, RejectedInvalid, Canon
<1> QED
  BY <1>1, <1>2, <1>3, <1>4, <1>5 DEF Next

\* What a client may build on, given the invariant.
LEMMA AnswersFollow ==
  ASSUME IInv, SInv
  PROVE  AnswersHold
<1>1. db \in Tables /\ TablesOK(db) /\ acked \subseteq Canon(db) /\ RejectedInvalid
  BY ZenonT(60) DEF IInv, TypeOK, SInv
<1>2. \A b \in Canon(db) : get_block_header(db, Number[b]) = b
  BY <1>1, BlockAssumption
     DEF Canon, TablesOK, get_block_header, get_canonical_block_hash
<1>3. ASSUME Quiescent PROVE LatestIsHead
  <2>1. Settled(db)
    BY <1>3 DEF SInv, Quiescent, Task, Parked
  <2>2. \A n \in Heights : n < db.latest + 1 <=> n <= db.latest
    BY <2>1, BlockAssumption DEF Settled, Heights
  <2> QED
    BY <2>1, <2>2, ZenonT(60) DEF Settled, Line, LatestIsHead
<1> QED
  BY <1>1, <1>2, <1>3, ZenonT(60) DEF AnswersHold, AckedFetchable, LatestIsHead

-----------------------------------------------------------------------------
(***************************************************************************)
(* The refinement of LinearChain.                                          *)
(***************************************************************************)
\* How many numbers there are below k: what the refinement needs to know about
\* Cardinality.
Counting == \A k \in Nat : Cardinality(0 .. k - 1) = k

LengthOf(d) == Cardinality({n \in Heights : d.canonical[n] # None})

ChainOf(d) == [i \in 1 .. LengthOf(d) |-> d.canonical[i - 1]]

\* The chain of a line of k blocks has the length k.
LEMMA ChainOfLine ==
  ASSUME Counting, NEW d, NEW k \in 0 .. MaxNumber + 1, Line(d, k)
  PROVE  ChainOf(d) = [i \in 1 .. k |-> d.canonical[i - 1]] /\ LengthOf(d) = k
<1>1. {n \in Heights : d.canonical[n] # None} = 0 .. k - 1
  <2>1. {n \in Heights : d.canonical[n] # None} = {n \in Heights : n < k}
    BY ZenonT(60) DEF Line
  <2>2. MaxNumber \in Nat /\ Heights = 0 .. MaxNumber
    BY BlockAssumption, ZenonT(60) DEF Heights
  <2>3. {n \in 0 .. MaxNumber : n < k} = 0 .. k - 1
    BY <2>2
  <2> QED
    BY <2>1, <2>2, <2>3, ZenonT(60)
<1>2. Cardinality(0 .. k - 1) = k
  BY BlockAssumption DEF Counting
<1> QED
  BY <1>1, <1>2, ZenonT(60) DEF ChainOf, LengthOf

\* A step that leaves the canonical index and the two marks alone.
Silent(d, e) ==
    e.canonical = d.canonical /\ e.finalized = d.finalized /\ e.safe = d.safe

Bar == <<ChainOf(db), db.finalized, db.safe>>

LEMMA SilentStep ==
  ASSUME Silent(db, db')
  PROVE  UNCHANGED Bar
  BY DEF Silent, Bar, ChainOf, LengthOf

LEMMA BootSilent ==
  ASSUME db \in Tables, Boot
  PROVE  Silent(db, db')
  BY DEF Boot, GenesisFound, GenesisMissing, SetupGenesisTrie, UpdateEarliest,
     SetChainConfig, ImportNext, StartApi, Branches, Reads, write_state,
     update_earliest_block_number, set_chain_config, Tables, Silent

LEMMA NewPayloadSilent ==
  ASSUME db \in Tables, NEW t, NewPayloadStep(t)
  PROVE  Silent(db, db')
  BY ZenonT(60) DEF NewPayloadStep, PayloadRefused, PayloadWellFormed, PayloadHeight,
     PayloadAhead, PayloadKnown, PayloadReorg, LatestValidNumber, LatestValidHash,
     Branches, Reads, Answer, AnswerValid, Silent

LEMMA AddBlockSilent ==
  ASSUME db \in Tables, NEW t, AddBlock(t)
  PROVE  Silent(db, db')
  BY DEF AddBlock, ValidateParentCanonical, FindParentHeader, ValidateBlock,
     ExecuteBlock, ApplyAccountUpdates, ValidateStateRoot, Branches, Reads, Answer,
     AnswerInvalid, write_state, Tables, Silent

LEMMA StoreSilent ==
  ASSUME db \in Tables, NEW t, StoreAddBlock(t), ~SetCanonical(t)
  PROVE  Silent(db, db')
  BY ZenonT(60) DEF StoreAddBlock, ReadLatestTotalDifficulty, AddTransactionLocations,
     AddBlockBody, AddBlockHeader, AddBlockNumber, UpdateLatestBlockNumber,
     AddBlockTotalDifficulty, UpdateLatestTotalDifficulty, StoreReceipts, Reads,
     add_transaction_locations, add_block_body, add_block_header, add_block_number,
     update_latest_block_number, add_block_total_difficulty,
     update_latest_total_difficulty, add_receipts, Tables, Silent

LEMMA ForkchoiceSilent ==
  ASSUME db \in Tables, NEW t, ForkchoiceStep(t),
         ~SetCanonicalHead(t), ~UpdateFinalized(t), ~UpdateSafe(t)
  PROVE  Silent(db, db')
  BY DEF ForkchoiceStep, HeadStored, TotalDifficultyCheck, ReadCanonicalAtHead,
     ReadLatestAtHead, HeadAdopted, UpdateIgnored, HeadParentCanonical, FindFinalized,
     CheckFinalized, FindSafe, CheckSafe, BuildPayload, AddPayload, add_payload,
     Branches, Reads, Answer, Tables, Silent

LEMMA ExtendedSequence ==
  ASSUME NEW S, NEW n \in Nat, NEW s \in Seq(S), NEW u \in Seq(S), NEW b \in S,
         Len(s) = n, Len(u) = n + 1, \A i \in 1 .. n : u[i] = s[i], u[n + 1] = b
  PROVE  u = Append(s, b)
  OBVIOUS

\* The first k blocks of an index f, as a sequence.
LEMMA FirstBlocks ==
  ASSUME NEW f \in [Heights -> OptionBlock], NEW k \in Nat, k <= MaxNumber + 1,
         \A m \in Heights : m < k => f[m] # None
  PROVE  LET s == [i \in 1 .. k |-> f[i - 1]]
         IN  s \in Seq(Block) /\ Len(s) = k /\ \A i \in 1 .. k : s[i] = f[i - 1]
<1>1. ASSUME NEW i \in 1 .. k PROVE f[i - 1] \in Block
  <2>1. i - 1 \in Heights /\ i - 1 < k
    BY BlockAssumption DEF Heights
  <2> QED
    BY <2>1 DEF OptionBlock
<1> QED
  BY <1>1

\* An entry at the end of a line makes its chain one longer.
LEMMA ChainExtended ==
  ASSUME Counting, NEW d, NEW e, NEW n \in Heights, NEW b \in Block, Line(d, n),
         d.canonical \in [Heights -> OptionBlock],
         e.canonical = [d.canonical EXCEPT ![n] = b]
  PROVE  /\ ChainOf(d) \in Seq(Block) /\ Len(ChainOf(d)) = n
         /\ n > 0 => ChainOf(d)[n] = d.canonical[n - 1]
         /\ ChainOf(e) = Append(ChainOf(d), b)
<1> DEFINE f == d.canonical
           g == e.canonical
           s == [i \in 1 .. n |-> f[i - 1]]
           u == [i \in 1 .. n + 1 |-> g[i - 1]]
<1>0. n \in Nat /\ n <= MaxNumber /\ MaxNumber \in Nat /\ None \notin Block
  BY BlockAssumption DEF Heights
<1>1. \A m \in Heights : m \in Nat /\ ((f[m] # None) <=> m < n)
  BY HeightIsNumber DEF Line
<1>2. g \in [Heights -> OptionBlock] /\ g[n] = b /\ \A m \in Heights : m # n => g[m] = f[m]
  BY ZenonT(60) DEF OptionBlock
<1> HIDE DEF f, g
<1>3. \A m \in Heights : (g[m] # None) <=> m < n + 1
  BY <1>0, <1>1, <1>2
<1>4. {m \in Heights : g[m] # None} = 0 .. (n + 1) - 1
  BY <1>0, <1>3 DEF Heights
<1>5. Cardinality(0 .. (n + 1) - 1) = n + 1
  <2>1. n + 1 \in Nat
    BY <1>0
  <2> QED
    BY <2>1, ZenonT(60) DEF Counting
<1>6. ChainOf(e) = u
  BY <1>4, <1>5, ZenonT(60) DEF ChainOf, LengthOf, g
<1>7. ChainOf(d) = s
  BY <1>0, ChainOfLine DEF f
<1>8. s \in Seq(Block) /\ Len(s) = n /\ \A i \in 1 .. n : s[i] = f[i - 1]
  BY <1>0, <1>1, FirstBlocks DEF f
<1>9. u \in Seq(Block) /\ Len(u) = n + 1 /\ \A i \in 1 .. n + 1 : u[i] = g[i - 1]
  BY <1>0, <1>2, <1>3, FirstBlocks
<1> HIDE DEF s, u
<1>10. \A i \in 1 .. n : u[i] = s[i]
  <2> SUFFICES ASSUME NEW i \in 1 .. n PROVE u[i] = s[i]
    OBVIOUS
  <2>1. i \in 1 .. n + 1 /\ i - 1 \in Heights /\ i - 1 # n
    BY <1>0 DEF Heights
  <2> QED
    BY <1>2, <1>8, <1>9, <2>1
<1>11. u[n + 1] = b
  BY <1>0, <1>2, <1>9
<1>12. u = Append(s, b)
  BY <1>0, <1>8, <1>9, <1>10, <1>11, ExtendedSequence
<1>13. n > 0 => s[n] = f[n - 1]
  BY <1>0, <1>8
<1> QED
  BY <1>6, <1>7, <1>8, <1>12, <1>13, ZenonT(60) DEF f

\* set_canonical_block puts the block that is stored at the end of the chain.
LEMMA SetCanonicalExtends ==
  ASSUME Counting, IInv, SInv, NEW t \in Task, SetCanonical(t)
  PROVE  Linear!Next
<1> DEFINE b == req[t].block
           n == Number[b]
<1>1. /\ db \in Tables /\ TablesOK(db) /\ db.canonical \in [Heights -> OptionBlock]
      /\ TaskOK("set_canonical", req[t], db)
      /\ Joining(db, b) /\ Line(db, n)
  <2>1. pc[t] = "set_canonical" /\ pc[t] \in StateWritten /\ pc[t] \notin Parked
    BY DEF SetCanonical, Parked, StateWritten, LocationsWritten, BodyWritten, HeaderWritten,
           NumberWritten
  <2>2. /\ db \in Tables /\ TablesOK(db)
        /\ TaskOK("set_canonical", req[t], db)
    BY <2>1, ZenonT(60) DEF IInv, TypeOK
  <2>3. Stage(pc[t], req[t], loc[t], db)
    BY <2>1, ZenonT(60) DEF SInv
  <2>4. Joining(db, b)
    BY <2>1, <2>3, ZenonT(60) DEF Stage
  <2> QED
    BY <2>2, <2>4, ZenonT(60) DEF Tables, Joining
<1>2. b \in Block /\ n \in Heights /\ Verdict[b] = "ok"
  BY <1>1, BlockAssumption, ZenonT(60) DEF TaskOK, TablesOK, BlockNamed, StateWritten,
     LocationsWritten, BodyWritten, HeaderWritten, NumberWritten
<1>3. /\ db'.canonical = [db.canonical EXCEPT ![n] = b]
      /\ db'.finalized = db.finalized /\ db'.safe = db.safe
  BY <1>1 DEF SetCanonical, AnswerValid, set_canonical_block, Tables
<1>4. b # Genesis => n > 0 /\ db.canonical[n - 1] = Parent[b]
  BY <1>1, ZenonT(60) DEF Joining
<1>5. b = Genesis => n = 0
  BY GenesisAssumption, ZenonT(60)
<1> HIDE DEF b, n
<1>6. /\ ChainOf(db) \in Seq(Block) /\ Len(ChainOf(db)) = n
      /\ n > 0 => ChainOf(db)[n] = db.canonical[n - 1]
      /\ ChainOf(db') = Append(ChainOf(db), b)
  BY <1>1, <1>2, <1>3, ChainExtended
<1>7. CASE b = Genesis
  <2>1. ChainOf(db) = <<>> /\ ChainOf(db') = <<Genesis>>
    BY <1>5, <1>6, <1>7
  <2>2. Linear!Found
    BY <1>3, <2>1, ZenonT(60) DEF Linear!Found, ChainOf, LengthOf, CanonicalLength
  <2> QED
    BY <2>2, ZenonT(60) DEF Linear!Next
<1>8. CASE b # Genesis
  <2>1. ChainOf(db) # <<>> /\ Parent[b] = ChainOf(db)[Len(ChainOf(db))]
    BY <1>4, <1>6, <1>8
  <2>2. PICK c \in Block : c = b
    BY <1>2
  <2>3. Linear!Extend(c)
    BY <1>2, <1>3, <1>6, <2>1, <2>2, ZenonT(60)
       DEF Linear!Extend, ChainOf, LengthOf, CanonicalLength
  <2> QED
    BY <2>3, ZenonT(60) DEF Linear!Next
<1> QED
  BY <1>7, <1>8

\* A number that is on the chain is the number of one of its places.
LEMMA MarkOnChain ==
  ASSUME Counting, NEW d, NEW k \in Heights, Line(d, k + 1),
         NEW n \in Heights, d.canonical[n] # None
  PROVE  n + 1 \in 1 .. Len(ChainOf(d)) /\ (n + 1) - 1 = n
<1>1. k \in Nat /\ k + 1 \in 0 .. MaxNumber + 1 /\ n \in Nat
  BY BlockAssumption DEF Heights
<1>2. n < k + 1
  BY DEF Line
<1>3. ChainOf(d) = [i \in 1 .. k + 1 |-> d.canonical[i - 1]]
  BY <1>1, ChainOfLine
<1>4. Len(ChainOf(d)) = k + 1
  BY <1>1, <1>3
<1> QED
  BY <1>1, <1>2, <1>4

\* set_finalized_block and set_safe_block move a mark along the chain.
LEMMA MarkMoves ==
  ASSUME Counting, IInv, SInv, NEW t \in Task, UpdateFinalized(t) \/ UpdateSafe(t)
  PROVE  Linear!Next
<1>1. /\ db \in Tables /\ TaskOK(pc[t], req[t], db)
      /\ db.latest \in Heights /\ Line(db, db.latest + 1)
  BY ZenonT(60) DEF IInv, TypeOK, SInv, UpdateFinalized, UpdateSafe, Parked, Stage, Founding,
         StateWritten, LocationsWritten, BodyWritten, HeaderWritten, NumberWritten, Settled
<1>2. CASE UpdateFinalized(t)
  <2> DEFINE n == Number[req[t].finalized]
  <2>1. n \in Heights /\ db.canonical[n] # None
    BY <1>1, <1>2, BlockAssumption, ZenonT(60) DEF UpdateFinalized, TaskOK
  <2>2. /\ db'.canonical = db.canonical /\ db'.safe = db.safe
        /\ db'.finalized = n
    BY <1>1, <1>2 DEF UpdateFinalized, update_finalized_block_number, Tables
  <2> HIDE DEF n
  <2>3. n + 1 \in 1 .. Len(ChainOf(db)) /\ (n + 1) - 1 = n
    BY <1>1, <2>1, MarkOnChain
  <2>4. PICK i \in 1 .. Len(ChainOf(db)) : i - 1 = n
    BY <2>3, ZenonT(60)
  <2>5. Linear!MarkFinalized(i)
    BY <2>2, <2>4, ZenonT(60) DEF Linear!MarkFinalized, CanonicalLength
  <2> QED
    BY <2>4, <2>5, ZenonT(60) DEF Linear!Next, ChainOf, LengthOf, CanonicalLength
<1>3. CASE UpdateSafe(t)
  <2> DEFINE n == Number[req[t].safe]
  <2>1. n \in Heights /\ db.canonical[n] # None
    BY <1>1, <1>3, BlockAssumption, ZenonT(60) DEF UpdateSafe, TaskOK
  <2>2. /\ db'.canonical = db.canonical /\ db'.finalized = db.finalized
        /\ db'.safe = n
    BY <1>1, <1>3 DEF UpdateSafe, update_safe_block_number, Tables
  <2> HIDE DEF n
  <2>3. n + 1 \in 1 .. Len(ChainOf(db)) /\ (n + 1) - 1 = n
    BY <1>1, <2>1, MarkOnChain
  <2>4. PICK i \in 1 .. Len(ChainOf(db)) : i - 1 = n
    BY <2>3, ZenonT(60)
  <2>5. Linear!MarkSafe(i)
    BY <2>2, <2>4, ZenonT(60) DEF Linear!MarkSafe, CanonicalLength
  <2> QED
    BY <2>4, <2>5, ZenonT(60) DEF Linear!Next, ChainOf, LengthOf, CanonicalLength
<1> QED
  BY <1>2, <1>3

\* Every step of the node is a step of LinearChain, or none.
LEMMA StepRefines ==
  ASSUME Counting, MaxCrashes = 0, IInv, SInv, [Next]_vars
  PROVE  Linear!Next \/ UNCHANGED Bar
<1>0. db \in Tables
  BY DEF IInv, TypeOK
<1>1. CASE Boot
  BY <1>0, <1>1, BootSilent, SilentStep
<1>2. ASSUME NEW t \in Task, Step(t)
      PROVE  Linear!Next \/ UNCHANGED Bar
  <2>1. CASE AddBlock(t) \/ NewPayloadStep(t)
    BY <1>0, <2>1, AddBlockSilent, NewPayloadSilent, SilentStep
  <2>2. CASE StoreAddBlock(t)
    BY <1>0, <2>2, StoreSilent, SilentStep, SetCanonicalExtends
  <2>3. CASE ForkchoiceStep(t)
    <3>1. ~SetCanonicalHead(t)
      BY ZenonT(60) DEF SInv, Stage, SetCanonicalHead, Parked
    <3> QED
      BY <1>0, <2>3, <3>1, ForkchoiceSilent, SilentStep, MarkMoves
  <2> QED
    BY <1>2, <2>1, <2>2, <2>3 DEF Step
<1>3. ASSUME NEW t \in Handler, Request(t)
      PROVE  UNCHANGED Bar
  BY <1>3, SilentStep DEF Request, NewPayload, ForkchoiceUpdated, Silent
<1>4. CASE Crash
  BY <1>4 DEF Crash, IInv, TypeOK
<1>5. CASE UNCHANGED vars
  BY <1>5, SilentStep DEF vars, Silent
<1> QED
  BY <1>1, <1>2, <1>3, <1>4, <1>5 DEF Next
=============================================================================
