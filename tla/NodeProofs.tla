----------------------------- MODULE NodeProofs -----------------------------
(***************************************************************************)
(* What holds of every behaviour of the node that serves one request at a  *)
(* time and of the node with readers, from the invariants that modules     *)
(* EngineProofs, SequentialProofs and ReadersProofs show to be inductive.  *)
(***************************************************************************)
EXTENDS EngineProofs, SequentialProofs, ReadersProofs, FiniteSetTheorems

\* The inductive invariant of the node that serves one request at a time.
THEOREM SequentialInductive ==
  ASSUME OneAtATime
  PROVE  Spec => [](IInv /\ SequentialInv)
<1>1. Init => SequentialInv
  BY InitSequential DEF SequentialInv
<1>2. IInv /\ SequentialInv /\ [Next]_vars => SequentialInv'
  BY NextSequential
<1> QED
  BY <1>1, <1>2, Inductive, PTL DEF Spec

\* As long as the node has not died, a client that waits for each answer may
\* build on it: INVALID was said of invalid blocks only, a VALID block is found
\* at its number, and the latest number is the top of the canonical index.
THEOREM SequentialAnswersHold ==
  ASSUME OneAtATime
  PROVE  Spec => [](crashes = 0 => AnswersHold)
<1>1. IInv /\ SequentialInv => (crashes = 0 => AnswersHold)
  BY AnswersFollow DEF SequentialInv
<1> QED
  BY <1>1, SequentialInductive, PTL

LEMMA CountBelow == Counting /\ Cardinality({}) = 0
  BY FS_Interval, FS_EmptySet DEF Counting

\* A node that serves one request at a time and does not die implements
\* LinearChain: whatever blocks and fork choices the consensus client sends,
\* newPayload and the import only append to the canonical index, nothing in it
\* is replaced, and forkchoiceUpdated moves the two marks along it.
THEOREM RefinesLinearChain ==
  ASSUME OneAtATime, MaxCrashes = 0
  PROVE  Spec => ImplementsLinearChain
<1>1. Init => Linear!Init
  <2> SUFFICES ASSUME Init PROVE Linear!Init
    OBVIOUS
  <2>1. db.finalized = None /\ db.safe = None /\ db.canonical = [n \in Heights |-> None]
    BY DEF Init, EmptyTables
  <2>2. {n \in Heights : db.canonical[n] # None} = {}
    BY <2>1
  <2>3. CanonicalLength = 0
    BY <2>2, CountBelow, ZenonT(60) DEF CanonicalLength
  <2> QED
    BY <2>1, <2>3 DEF Linear!Init
<1>2. IInv => crashes = 0
  BY DEF IInv, TypeOK
<1>3. IInv /\ SequentialInv /\ [Next]_vars =>
        [Linear!Next]_<<[i \in 1 .. CanonicalLength |-> db.canonical[i - 1]], db.finalized, db.safe>>
  BY <1>2, CountBelow, StepRefines, ZenonT(60) DEF SequentialInv, Bar, ChainOf, LengthOf, CanonicalLength
<1> QED
  BY <1>1, <1>3, SequentialInductive, PTL DEF Spec, ImplementsLinearChain, Linear!Spec

-----------------------------------------------------------------------------
\* The inductive invariant of the node with readers.
THEOREM ReadersInductive == ReadersSpec => [](IInv /\ LinkedInv /\ ReadersInv)
<1>1. ReadersInit => IInv /\ LinkedInv /\ ReadersInv
  BY InitIInv, InitLinked, IdleOK, ZenonT(60) DEF ReadersInit, ReadersInv
<1>2. IInv /\ LinkedInv /\ ReadersInv /\ [ReadersNext]_allVars
        => (IInv /\ LinkedInv /\ ReadersInv)'
  BY ReadersImplementEngine, NextIInv, NextGrows, NextLinked, NextReaders, ZenonT(60)
<1> QED
  BY <1>1, <1>2, PTL DEF ReadersSpec

\* The node with readers is the node: through concurrent handlers and deaths
\* between any two store calls, the canonical index leads to complete blocks,
\* what newPayload answered VALID for is stored, and the finalized, safe and
\* latest numbers lead to a block.
THEOREM RestartIsSound == ReadersSpec => []RestartSound
  BY RestartFollows, ReadersInductive, PTL

\* Whatever concurrent handlers, forkchoiceUpdated and restarts write, the canonical
\* index has an entry at every height below one that has an entry, and a stored
\* block's parent has a number that leads to a canonical block: find_parent_header
\* never fails for it.
THEOREM IndexHasNoGaps == Spec => []Linked(db)
<1>1. Init => IInv /\ LinkedInv
  BY InitIInv, InitLinked, ZenonT(60)
<1>2. IInv /\ LinkedInv /\ [Next]_vars => (IInv /\ LinkedInv)'
  BY NextIInv, NextGrows, NextLinked, ZenonT(60)
<1>3. LinkedInv => Linked(db)
  BY ZenonT(60) DEF LinkedInv
<1> QED
  BY <1>1, <1>2, <1>3, PTL DEF Spec

\* A reader of the HTTP servers is answered with the header, body, parent and
\* accounts of whatever was canonical when its number was found, for every block
\* of its range, and a finalized or safe number answers: with any number of
\* concurrent handlers that replace canonical blocks, and after any crash.
THEOREM CanonicalIsAnswered == ReadersSpec => [](CanonicalAnswered /\ FinalizedAnswered)
  BY AnsweredFollows, ReadersInductive, PTL

\* The inductive invariant of the node that serves one request at a time.
THEOREM SequentialReadersInductive ==
  ASSUME OneAtATime
  PROVE  ReadersSpec =>
           [](IInv /\ LinkedInv /\ ReadersInv /\ SequentialInv /\ StraightInv)
<1>1. ReadersInit => SequentialInv /\ StraightInv
  BY InitSequential, IdleStraight, ZenonT(60) DEF ReadersInit, SequentialInv, StraightInv
<1>2. /\ IInv /\ LinkedInv /\ ReadersInv /\ SequentialInv /\ StraightInv
      /\ [ReadersNext]_allVars
      => SequentialInv' /\ StraightInv'
  BY ReadersImplementEngine, NextIInv, NextGrows, NextSequential, NextStraight, ZenonT(60)
<1> QED
  BY <1>1, <1>2, ReadersInductive, PTL DEF ReadersSpec

\* Neither the handlers, writing a block by separate store calls, nor forkchoiceUpdated
\* can make a reader of the HTTP servers mix two blocks in one answer, or answer for
\* another block than the one whose hash or transaction it was asked for, as long as
\* requests are served one at a time and the node has not died.
THEOREM AnswersAreOfOneBlock ==
  ASSUME OneAtATime
  PROVE  ReadersSpec => []OneBlock
<1>1. IInv /\ ReadersInv /\ SequentialInv /\ StraightInv => OneBlock
  BY OneBlockFollows, ZenonT(60)
<1> QED
  BY <1>1, SequentialReadersInductive, PTL

\* No reader of the HTTP servers is told that something is missing that the node has:
\* neither the rows that Store::add_block writes before a block becomes canonical nor,
\* as long as requests are served one at a time and the node has not died, the
\* receipts and the total difficulty.
THEOREM ReadersAreAnswered ==
  ASSUME OneAtATime
  PROVE  ReadersSpec => []Answered
<1>1. [](CanonicalAnswered /\ FinalizedAnswered) /\ []ReceiptsAnswered => []Answered
  <2>1. CanonicalAnswered /\ FinalizedAnswered /\ ReceiptsAnswered => Answered
    BY DEF Answered
  <2> QED
    BY <2>1, PTL
<1> QED
  BY <1>1, AnsweredFollows, CanonicalIsAnswered, SequentialReadersInductive, PTL
=============================================================================
