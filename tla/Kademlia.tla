------------------------------ MODULE Kademlia ------------------------------
(***************************************************************************)
(* The table of discovered peers (crates/net/kademlia.rs): buckets of      *)
(* peers, each with a list of replacements, and what is known about every  *)
(* peer.  The operations are functions from one table to the next; the     *)
(* tasks of module Discovery call them with the table's mutex held.        *)
(*                                                                         *)
(* Times are reduced to what is asked of them: whether the last ping is    *)
(* older than PROOF_EXPIRATION_IN_HS, whether a find_node request is older *)
(* than a minute.  The order of the peers in a bucket only breaks ties in  *)
(* selections, so a bucket's peers are a set.                              *)
(***************************************************************************)
EXTENDS Naturals, Sequences, FiniteSets

CONSTANTS
    Node,                       \* node ids
    None,
    BucketOf,                   \* bucket_number(node_id, local_node_id)
    MAX_NODES_PER_BUCKET,
    MAX_NUMBER_OF_REPLACEMENTS,
    LivenessModulus,            \* liveness is a u16: 2^16
    Ping,                       \* ping hashes
    Lookup                      \* the concurrent recursive lookups

Bucket == {BucketOf[n] : n \in Node}

ASSUME KademliaAssumption ==
    /\ IsFiniteSet(Node)
    /\ BucketOf \in [Node -> Bucket]
    /\ None \notin Node /\ None \notin Ping /\ None \notin Lookup
    /\ MAX_NODES_PER_BUCKET \in Nat \ {0}
    /\ MAX_NUMBER_OF_REPLACEMENTS \in Nat \ {0}
    /\ LivenessModulus \in Nat \ {0, 1}

OptionPing == Ping \cup {None}

OptionNode == Node \cup {None}

Elements(s) == {s[k] : k \in DOMAIN s}

FindNodeRequests ==
    [nodes_sent : 0 .. MAX_NODES_PER_BUCKET, expired : BOOLEAN, tx : Lookup]

PeerData ==
    [last_ping_hash    : OptionPing,
     aged              : BOOLEAN,
     is_proven         : BOOLEAN,
     find_node_request : FindNodeRequests \cup {None},
     liveness          : 0 .. LivenessModulus - 1,
     revalidation      : {"none", "sent", "answered"}]

NewPeer ==
    [last_ping_hash |-> None, aged |-> FALSE, is_proven |-> FALSE,
     find_node_request |-> None, liveness |-> 1, revalidation |-> "none"]

KademliaTable ==
    [peers : SUBSET Node, replacements : [Bucket -> Seq(Node)],
     data : [Node -> PeerData]]

EmptyTable ==
    [peers |-> {}, replacements |-> [i \in Bucket |-> <<>>],
     data |-> [n \in Node |-> NewPeer]]

PeersOf(t, i) == {n \in t.peers : BucketOf[n] = i}

Known(t, n) == n \in t.peers \/ n \in Elements(t.replacements[BucketOf[n]])

Full(t, i) == Cardinality(PeersOf(t, i)) = MAX_NODES_PER_BUCKET

\* The bool of insert_node.
Inserts(t, n) == ~Known(t, n) /\ ~Full(t, BucketOf[n])

insert_as_replacement(t, n) ==
    LET i == BucketOf[n]
        r == t.replacements[i]
        kept == IF Len(r) >= MAX_NUMBER_OF_REPLACEMENTS THEN Tail(r) ELSE r
    IN  [t EXCEPT !.replacements[i] = Append(kept, n)]

\* Faulty variants: the replacements are not searched; a full bucket makes
\* room by dropping its peers; the liveness is not reduced to 16 bits.
InsertUnlessPeer(t, n) ==
    IF n \in t.peers THEN t
    ELSE IF Full(t, BucketOf[n]) THEN insert_as_replacement(t, n)
    ELSE [t EXCEPT !.peers = @ \cup {n}, !.data[n] = NewPeer]

InsertEvicting(t, n) ==
    IF Known(t, n) THEN t
    ELSE IF Full(t, BucketOf[n])
    THEN [t EXCEPT !.peers = (@ \ PeersOf(t, BucketOf[n])) \cup {n}]
    ELSE [t EXCEPT !.peers = @ \cup {n}, !.data[n] = NewPeer]

\* remove_from_replacements has nothing to remove here: n is not Known.
insert_node(t, n) ==
    IF Known(t, n) THEN t
    ELSE IF Full(t, BucketOf[n]) THEN insert_as_replacement(t, n)
    ELSE [t EXCEPT !.peers = @ \cup {n}, !.data[n] = NewPeer]

\* Faulty variant: a ping of the server starts the revalidation again.
PingAsRevalidation(t, n, hash) ==
    IF n \notin t.peers THEN t
    ELSE [t EXCEPT !.data[n].last_ping_hash = hash, !.data[n].aged = FALSE,
                   !.data[n].revalidation = "sent"]

pong_answered(t, n) ==
    IF n \notin t.peers THEN t
    ELSE [t EXCEPT !.data[n].is_proven = TRUE,
                   !.data[n].last_ping_hash = None,
                   !.data[n].revalidation =
                       IF @ = "none" THEN "none" ELSE "answered"]

update_peer_ping(t, n, hash) ==
    IF n \notin t.peers THEN t
    ELSE [t EXCEPT !.data[n].last_ping_hash = hash, !.data[n].aged = FALSE]

update_peer_ping_with_revalidation(t, n, hash) ==
    IF n \notin t.peers THEN t
    ELSE [t EXCEPT !.data[n].last_ping_hash = hash, !.data[n].aged = FALSE,
                   !.data[n].revalidation = "sent"]

\* increment_liveness and decrement_liveness, on a u16 that wraps in a
\* release build.
checked_liveness(peer) ==
    CASE peer.revalidation = "answered" -> (peer.liveness + 1) % LivenessModulus
      [] peer.revalidation = "sent"     -> peer.liveness \div 3
      [] OTHER                          -> peer.liveness

\* The newest replacement takes the place of n, or nobody does.
replacement_of(t, n) ==
    LET r == t.replacements[BucketOf[n]]
    IN  IF r = <<>> THEN None ELSE r[Len(r)]

replace_peer(t, n) ==
    LET i == BucketOf[n]
        r == t.replacements[i]
    IN  IF r = <<>> THEN [t EXCEPT !.peers = @ \ {n}, !.data[n] = NewPeer]
        ELSE [peers |-> (t.peers \ {n}) \cup {r[Len(r)]},
              replacements |-> [t.replacements EXCEPT ![i] =
                                  SubSeq(r, 1, Len(r) - 1)],
              data |-> [t.data EXCEPT ![n] = NewPeer, ![r[Len(r)]] = NewPeer]]

\* What get_closest_nodes and get_least_recently_pinged_peers may return:
\* which peers come first depends on distances and times.
Selections(t, limit) ==
    {s \in SUBSET t.peers :
        Cardinality(s) = IF Cardinality(t.peers) < limit
                         THEN Cardinality(t.peers) ELSE limit}

=============================================================================
