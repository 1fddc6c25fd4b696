-------------------------- MODULE EngineInvariants --------------------------
(***************************************************************************)
(* The inductive invariants of the engine and the store, proved in modules *)
(* EngineProofs and SequentialProofs, on which the readers' rest too.      *)
(*                                                                         *)
(* Rows are only ever added (Grows), so what a task has established about  *)
(* the tables at one of its steps (TaskOK) still holds at its next one,    *)
(* whatever the others did in between (IInv).                              *)
(*                                                                         *)
(* In a node that works on one request at a time and has not died one task *)
(* works at a time (Alone), so whatever it has read is still true at its   *)
(* next store call: between requests the tables are Settled, and while a   *)
(* block is being stored it is the one that comes next on the line         *)
(* (Joining, SequentialInv).                                               *)
(***************************************************************************)
EXTENDS EngineSequential

\* The labels of Store::add_block from which on a row is known to be there.
NumberWritten == {"latest", "block_td", "latest_td", "receipts", "set_canonical"}
HeaderWritten == NumberWritten \cup {"number"}
BodyWritten == HeaderWritten \cup {"header"}
LocationsWritten == BodyWritten \cup {"body"}
StateWritten == LocationsWritten \cup {"td", "locations"}

ParentChecked == {"find_parent", "validate", "execute", "apply", "root"}

BlockNamed ==
    {"config", "last", "known", "valid_number", "valid_hash", "parent_canonical"}
    \cup ParentChecked \cup StateWritten

HeadFound ==
    {"fc_difficulty", "fc_canonical", "fc_latest", "fc_current", "fc_parent",
     "fc_set", "fc_final", "fc_final_check", "fc_final_set", "fc_safe",
     "fc_safe_check", "fc_safe_set", "fc_build", "fc_payload"}

\* No call deletes a row, and no canonical entry is ever taken away.
Grows(d, e) ==
    /\ d.headers \subseteq e.headers
    /\ d.bodies \subseteq e.bodies
    /\ d.numbers \subseteq e.numbers
    /\ d.locations \subseteq e.locations
    /\ d.states \subseteq e.states
    /\ \A n \in Heights : d.canonical[n] # None => e.canonical[n] # None

TablesOK(d) ==
    /\ d.numbers \subseteq d.headers
    /\ d.headers \subseteq d.bodies
    /\ d.headers \subseteq d.locations
    /\ d.headers \subseteq d.states
    /\ \A b \in d.states : Verdict[b] = "ok"
    /\ \A b \in d.headers : b # Genesis => Parent[b] \in d.headers
    /\ \A n \in Heights : d.canonical[n] # None =>
         d.canonical[n] \in d.headers /\ Number[d.canonical[n]] = n
    /\ d.finalized # None =>
         d.finalized \in Heights /\ d.canonical[d.finalized] # None
    /\ d.safe # None => d.safe \in Heights /\ d.canonical[d.safe] # None
    /\ d.latest # None => \E b \in d.numbers : Number[b] = d.latest

\* What a task at label p with request r knows about the tables d.
TaskOK(p, r, d) ==
    /\ p \in BlockNamed => r.block \in Block
    /\ p \in {"genesis_trie", "earliest"} => r.block = Genesis
    /\ p = "earliest" => Genesis \in d.states
    /\ p \in ParentChecked => Parent[r.block] \in d.headers
    /\ p \in StateWritten =>
         /\ r.block \in d.states
         /\ r.block # Genesis => Parent[r.block] \in d.headers
    /\ p \in LocationsWritten => r.block \in d.locations
    /\ p \in BodyWritten => r.block \in d.bodies
    /\ p \in HeaderWritten => r.block \in d.headers
    /\ p \in NumberWritten => r.block \in d.numbers
    /\ p \in HeadFound => r.block \in d.headers
    /\ p \in {"fc_final_check", "fc_final_set"} => r.finalized \in Block
    /\ p \in {"fc_safe_check", "fc_safe_set"} => r.safe \in Block
    /\ p = "fc_final_set" => d.canonical[Number[r.finalized]] # None
    /\ p = "fc_safe_set" => d.canonical[Number[r.safe]] # None

\* The inductive invariant.
IInv ==
    /\ TypeOK
    /\ TablesOK(db)
    /\ acked \subseteq db.numbers
    /\ \A t \in Task : TaskOK(pc[t], req[t], db)

-----------------------------------------------------------------------------
(***************************************************************************)
(* One request at a time.                                                  *)
(***************************************************************************)

\* At most one request is served at a time, and the blocks of the import file
\* come in the order of their numbers, as in an exported chain.
OneAtATime ==
    /\ \A t, u \in Handler : t = u
    /\ \A i, j \in 1 .. Len(ImportFile) :
         i < j => Number[ImportFile[i]] < Number[ImportFile[j]]

\* A task that waits for a request.
Parked == {"idle", "serving"}

Alone ==
    /\ pc[Main] # "idle"
    /\ \A t \in Handler : pc[t] # "serving"
    /\ \A t, u \in Task : t = u \/ pc[t] \in Parked \/ pc[u] \in Parked

Canon(d) == {b \in Block : d.canonical[Number[b]] = b}

\* The canonical index holds the heights below k, each block the child of the
\* one before it, and every row of these blocks is written.
Line(d, k) ==
    /\ \A n \in Heights : (d.canonical[n] # None) <=> n < k
    /\ k > 0 => d.canonical[0] = Genesis
    /\ \A n \in Heights : 0 < n /\ n < k => Parent[d.canonical[n]] = d.canonical[n - 1]
    /\ Canon(d) \subseteq d.numbers
    /\ \A b \in Canon(d) : d.totals[b] # None /\ (b # Genesis => b \in d.receipts)

\* Between requests: the latest number is the end of the line, and every block
\* that is stored is on it.
Settled(d) ==
    /\ d.config
    /\ d.latest \in Heights
    /\ Line(d, d.latest + 1)
    /\ d.headers \subseteq Canon(d)

\* While b is stored: it comes next on the line.
Joining(d, b) ==
    /\ Line(d, Number[b])
    /\ d.headers \subseteq Canon(d) \cup {b}
    /\ b # Genesis => Number[b] > 0 /\ d.canonical[Number[b] - 1] = Parent[b]

\* Before the chain config is written.
Founding == {"start", "genesis_trie", "earliest", "set_config"}

LatestWritten == {"block_td", "latest_td", "receipts", "set_canonical"}
TotalWritten == {"latest_td", "receipts", "set_canonical"}

PayloadRead ==
    {"config", "last", "known", "valid_number", "valid_hash", "parent_canonical"}
ParentFound == {"find_parent", "validate"}
HeaderValid == {"execute", "apply", "root"}

\* What holds of the tables d while the one working task is at label p, with
\* request r and the values v it has read.
Stage(p, r, v, d) ==
    /\ p # "dead"
    /\ p \notin Founding \cup StateWritten => Settled(d)
    /\ p = "start" => d = EmptyTables
    /\ p \in {"genesis_trie", "earliest"} =>
         r.op = "genesis" /\ Line(d, 0) /\ d.headers = {}
    /\ p = "set_config" => d.latest = 0 /\ Line(d, 1) /\ d.headers \subseteq Canon(d)
    /\ p \in {"valid_number", "valid_hash", "parent_canonical"} =>
         Number[r.block] = 0 \/ Number[r.block] > d.latest
    /\ p \in PayloadRead \cup ParentFound \cup HeaderValid => r.op # "genesis"
    /\ p \in StateWritten => (r.op = "genesis" <=> r.block = Genesis)
    /\ p \in ParentFound \cup HeaderValid =>
         /\ r.block # Genesis
         /\ Number[r.block] = 0 \/ Number[r.block] = d.latest + 1
         /\ d.canonical[Pred(Number[r.block])] = Parent[r.block]
    /\ p = "validate" => v.hash = Parent[r.block]
    /\ p \in HeaderValid => Verdict[r.block] # "header" /\ Number[r.block] > 0
    /\ p = "root" /\ Verdict[r.block] = "ok" => r.block \in d.states
    /\ p \in StateWritten => Joining(d, r.block)
    /\ p \in StateWritten /\ r.op # "genesis" => d.config
    /\ p \in LatestWritten => d.latest = Number[r.block]
    /\ p \in TotalWritten => d.totals[r.block] # None
    /\ p = "set_canonical" /\ r.op # "genesis" => r.block \in d.receipts
    /\ p \in {"fc_latest", "fc_current"} => v.hash = r.block
    /\ p \notin {"fc_parent", "fc_set"}

\* The blocks of the file that are still to come are above the line.
FileAhead ==
    pc[Main] # "serving" =>
        /\ \A j \in imported + 1 .. Len(ImportFile) :
             LET n == Number[ImportFile[j]]
             IN  n = 0 \/ db.latest = None \/ n > db.latest
        /\ pc[Main] \notin {"start", "import"} /\ req[Main].op # "genesis" =>
             imported > 0 /\ req[Main].block = ImportFile[imported]

SInv ==
    /\ Alone
    /\ FileAhead
    /\ \A t \in Task : pc[t] \notin Parked => Stage(pc[t], req[t], loc[t], db)
    /\ (\A t \in Task : pc[t] \in Parked) => Settled(db)
    /\ acked \subseteq Canon(db)
    /\ RejectedInvalid

\* The inductive invariant, on top of IInv.
SequentialInv == crashes = 0 => SInv
=============================================================================
