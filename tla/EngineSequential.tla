-------------------------- MODULE EngineSequential --------------------------
(***************************************************************************)
(* What holds of the node when it works on one request at a time and does  *)
(* not die: the refinement of LinearChain and the guarantees the handlers  *)
(* were written for.  With two handlers, or when the process dies between  *)
(* two store calls, they fail; the README says how.                        *)
(***************************************************************************)
EXTENDS Engine, FiniteSets

CanonicalLength == Cardinality({n \in Heights : db.canonical[n] # None})

Linear == INSTANCE LinearChain WITH
    chain <- [i \in 1 .. CanonicalLength |-> db.canonical[i - 1]],
    finalized <- db.finalized,
    safe <- db.safe

\* The canonical index of a node with one handler and no crash is one growing
\* line of valid blocks: newPayload and the import loop only ever append to
\* it, and forkchoiceUpdated moves the finalized and safe numbers along it.
ImplementsLinearChain == Linear!Spec

\* newPayload answers INVALID only for blocks that are invalid.
RejectedInvalid == \A b \in rejected : Verdict[b] # "ok"

Quiescent == pc[Main] = "serving" /\ \A t \in Handler : pc[t] = "idle"

\* Between requests the latest block number is the top of the canonical
\* index, so that newPayload can extend the chain by its next block.
LatestIsHead ==
    Quiescent => \A n \in Heights : (db.canonical[n] # None) <=> (n <= db.latest)

\* Between requests a block newPayload called VALID can be fetched by its
\* number, which is what newPayload sets it canonical for.
AckedFetchable ==
    Quiescent => \A b \in acked : get_block_header(db, Number[b]) = b

\* What newPayload answered is what the store shows between requests: INVALID was
\* said of invalid blocks, VALID of blocks at the number they are fetched by, and
\* the next block is taken at the number after the latest one.
AnswersHold == RejectedInvalid /\ AckedFetchable /\ LatestIsHead

\* A task steps whenever it can; the consensus client sends a valid block again
\* for as long as there is no answer it can build on.
FairSpec ==
    /\ Spec
    /\ WF_vars(Boot)
    /\ \A t \in Task : WF_vars(Step(t))
    /\ \A b \in {c \in Block : Verdict[c] = "ok"} :
         SF_vars(\E t \in Handler : NewPayload(t, b, "none"))

\* The chain can always grow: once a valid block that the consensus client
\* keeps offering has a canonical parent, some block becomes canonical at its
\* height, and the genesis does in any case.
ChainGrows ==
    /\ <>(db.canonical[0] = Genesis)
    /\ \A b \in Block \ {Genesis} :
         Verdict[b] = "ok" /\ db.canonical[Number[b] - 1] = Parent[b]
             ~> db.canonical[Number[b]] # None

\* StatusMessage::build_from unwraps the genesis header and the header at the
\* latest number: "These blocks must always be available".
LatestAvailable ==
    pc[Main] = "serving" =>
        /\ get_block_header(db, 0) # None
        /\ get_block_header(db, db.latest) # None

=============================================================================
