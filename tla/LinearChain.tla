---------------------------- MODULE LinearChain ----------------------------
(***************************************************************************)
(* What the engine API promises about the canonical chain as long as the   *)
(* node neither dies nor works on two requests at once: it is one growing  *)
(* line of valid blocks from the genesis, no entry is ever replaced, and   *)
(* the finalized and the safe number point into it.                        *)
(***************************************************************************)
EXTENDS Storage, Sequences

VARIABLES
    chain,     \* the canonical blocks, chain[1] the genesis
    finalized,
    safe

Init == chain = <<>> /\ finalized = None /\ safe = None

Found ==
    /\ chain = <<>>
    /\ chain' = <<Genesis>>
    /\ UNCHANGED <<finalized, safe>>

Extend(b) ==
    /\ chain # <<>>
    /\ Verdict[b] = "ok" /\ Parent[b] = chain[Len(chain)]
    /\ chain' = Append(chain, b)
    /\ UNCHANGED <<finalized, safe>>

\* The client may move either mark anywhere on the chain, also backwards.
MarkFinalized(i) == finalized' = i - 1 /\ UNCHANGED <<chain, safe>>

MarkSafe(i) == safe' = i - 1 /\ UNCHANGED <<chain, finalized>>

Next ==
    \/ Found
    \/ \E b \in Block : Extend(b)
    \/ \E i \in 1 .. Len(chain) : MarkFinalized(i) \/ MarkSafe(i)

Spec == Init /\ [][Next]_<<chain, finalized, safe>>

=============================================================================
