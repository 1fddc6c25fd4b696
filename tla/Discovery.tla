----------------------------- MODULE Discovery -----------------------------
(***************************************************************************)
(* Peer discovery (crates/net/net.rs): the UDP server, the start-up pings  *)
(* of the boot nodes, the revalidation of old peers and the recursive      *)
(* lookups are tasks that share one KademliaTable behind a mutex.  A step  *)
(* is what a task does between two awaits that release the mutex.          *)
(*                                                                         *)
(* Packets are inputs: any node may send any message at any time.  A pong  *)
(* names the hash of a ping, and only the node that received the ping      *)
(* knows it.  Expired packets are ignored, like packets that are lost.     *)
(***************************************************************************)
EXTENDS Kademlia

CONSTANTS
    Local,      \* the id of this node
    Bootnodes,  \* the boot nodes, in the order they are pinged
    Neighbors,  \* the node lists a Neighbors message may carry
    Alpha,      \* queries of a lookup round (3)
    Revalidated \* peers pinged per revalidation (3)

VARIABLES
    table,     \* the KademliaTable
    server,    \* discover_peers_server
    startup,   \* discovery_startup
    reval,     \* peers_revalidation
    lookups,   \* recursive_lookup, for every concurrent lookup
    pings,     \* pings whose pong can still arrive
    responded, \* history: nodes that answered a ping of ours
    replied    \* history: nodes that answered their recorded revalidation ping

ASSUME DiscoveryAssumption ==
    /\ Bootnodes \in Seq(Node)
    /\ Neighbors \subseteq Seq(Node)
    /\ Alpha \in Nat \ {0}
    /\ Revalidated \in Nat

vars == <<table, server, startup, reval, lookups, pings, responded, replied>>

Idle == [pc |-> "idle", node |-> None, hash |-> None, rest |-> <<>>]

Resting ==
    [pc |-> "idle", asked |-> {}, seen |-> {}, to_ask |-> {}, left |-> {},
     found |-> {}, queries |-> 0, node |-> None, got |-> 0]

ServerState ==
    [pc : {"idle", "insert", "ping", "ping_only", "update", "pong", "closest",
           "neighbors"},
     node : OptionNode, hash : OptionPing, rest : Seq(Node)]

StartupState ==
    [pc : {"insert", "ping", "update"}, next : 1 .. Len(Bootnodes) + 1,
     hash : OptionPing]

RevalState ==
    [pc : {"tick", "check", "ping", "mark"}, todo : SUBSET Node,
     pinged : SUBSET Node, node : OptionNode, hash : OptionPing]

LookupState ==
    [pc : {"idle", "start", "round", "wait"}, asked : SUBSET Node,
     seen : SUBSET (Node \cup {Local}), to_ask : SUBSET Node,
     left : SUBSET Node, found : SUBSET Node, queries : 0 .. Alpha,
     node : OptionNode, got : 0 .. MAX_NODES_PER_BUCKET]

\* The types of the table, of the locals of the tasks and of the packets.
TypeOK ==
    /\ table \in KademliaTable
    /\ server \in ServerState
    /\ startup \in StartupState
    /\ reval \in RevalState
    /\ lookups \in [Lookup -> LookupState]
    /\ pings \subseteq Node \X Ping
    /\ responded \subseteq Node
    /\ replied \subseteq Node

Init ==
    /\ table = EmptyTable
    /\ server = Idle
    /\ startup = [pc |-> "insert", next |-> 1, hash |-> None]
    /\ reval = [pc |-> "tick", todo |-> {}, pinged |-> {}, node |-> None,
                hash |-> None]
    /\ lookups = [l \in Lookup |-> Resting]
    /\ pings = {}
    /\ responded = {}
    /\ replied = {}

\* A hash that no table entry, task or packet uses for n.
Unused(n, h) ==
    /\ <<n, h>> \notin pings
    /\ table.data[n].last_ping_hash # h
    /\ server.hash # h /\ startup.hash # h /\ reval.hash # h

\* ping(): the hash of the packet, or None when it could not be sent.
PingResult(n, h) == h = None \/ Unused(n, h)

Sent(n, h) == IF h = None THEN {} ELSE {<<n, h>>}

-----------------------------------------------------------------------------
(***************************************************************************)
(* discover_peers_server: one packet at a time.                            *)
(***************************************************************************)

\* A ping is answered with a pong.  A peer is pinged back when its proof is
\* old, an unknown node is inserted and pinged.
RecvPing(n) ==
    /\ server.pc = "idle"
    /\ LET known == n \in table.peers
       IN  /\ known => table.data[n].aged
           /\ server' = [Idle EXCEPT !.pc = IF known THEN "ping" ELSE "insert",
                                  !.node = n]
    /\ UNCHANGED <<table, startup, reval, lookups, pings, responded, replied>>

ServerInsert ==
    /\ server.pc = "insert"
    /\ table' = insert_node(table, server.node)
    /\ server' = [server EXCEPT !.pc =
                    IF Inserts(table, server.node) THEN "ping" ELSE "ping_only"]
    /\ UNCHANGED <<startup, reval, lookups, pings, responded, replied>>

ServerPing(h) ==
    /\ server.pc \in {"ping", "ping_only"}
    /\ PingResult(server.node, h)
    /\ pings' = pings \cup Sent(server.node, h)
    /\ server' = IF server.pc = "ping" /\ h # None
                 THEN [server EXCEPT !.pc = "update", !.hash = h] ELSE Idle
    /\ UNCHANGED <<table, startup, reval, lookups, responded, replied>>

ServerUpdate ==
    /\ server.pc = "update"
    /\ table' = update_peer_ping(table, server.node, server.hash)
    /\ server' = Idle
    /\ UNCHANGED <<startup, reval, lookups, pings, responded, replied>>

\* Faulty variant: a peer with no ping outstanding is not told apart.
PongUnasked(n, h) == n \in table.peers /\ table.data[n].last_ping_hash = h

PongMatches(n, h) ==
    /\ n \in table.peers
    /\ table.data[n].last_ping_hash # None
    /\ table.data[n].last_ping_hash = h

\* Whether h is the recorded hash of the ping that revalidates n.
Revalidates(n, h) ==
    /\ n \in reval.pinged
    /\ table.data[n].revalidation = "sent" /\ table.data[n].last_ping_hash = h

\* A pong, with the hash of a ping (genuine) or some other hash (None).  It
\* is discarded unless the peer's last ping has that hash.
RecvPong(n, h) ==
    /\ server.pc = "idle"
    /\ h = None \/ <<n, h>> \in pings
    /\ server' = IF PongMatches(n, h)
                 THEN [Idle EXCEPT !.pc = "pong", !.node = n] ELSE server
    /\ responded' = IF h # None THEN responded \cup {n} ELSE responded
    /\ replied' = IF h # None /\ Revalidates(n, h)
                  THEN replied \cup {n} ELSE replied
    /\ UNCHANGED <<table, startup, reval, lookups, pings>>

\* The mutex was released since the hash was compared.
ServerPong ==
    /\ server.pc = "pong"
    /\ table' = pong_answered(table, server.node)
    /\ server' = Idle
    /\ UNCHANGED <<startup, reval, lookups, pings, responded, replied>>

RecvFindNode(n) ==
    /\ server.pc = "idle"
    /\ n \in table.peers /\ table.data[n].is_proven
    /\ server' = [Idle EXCEPT !.pc = "closest", !.node = n]
    /\ UNCHANGED <<table, startup, reval, lookups, pings, responded, replied>>

\* get_closest_nodes, and the packets with them.
ServerNeighbors ==
    /\ server.pc = "closest"
    /\ server' = Idle
    /\ UNCHANGED <<table, startup, reval, lookups, pings, responded, replied>>

\* The request is too old: it is dropped, and the message with it.
NeighborsLate(n) ==
    /\ server.pc = "idle"
    /\ n \in table.peers
    /\ table.data[n].find_node_request # None
    /\ table.data[n].find_node_request.expired
    /\ table' = [table EXCEPT !.data[n].find_node_request = None]
    /\ UNCHANGED <<server, startup, reval, lookups, pings, responded, replied>>

\* Faulty variant: the nodes of earlier messages are forgotten.
CountedAlone(req, nodes) == Len(nodes)

Counted(req, nodes) == req.nodes_sent + Len(nodes)

\* At most MAX_NODES_PER_BUCKET nodes are accepted for a request, over all its
\* messages; a message with more is ignored.  The mutex stays locked until
\* the nodes are inserted.
RecvNeighbors(n, nodes) ==
    /\ server.pc = "idle"
    /\ n \in table.peers
    /\ table.data[n].find_node_request # None
    /\ ~table.data[n].find_node_request.expired
    /\ LET req == table.data[n].find_node_request
           sent == Counted(req, nodes)
           l == req.tx
       IN  /\ sent <= MAX_NODES_PER_BUCKET
           /\ table' = [table EXCEPT !.data[n].find_node_request =
                          IF sent = MAX_NODES_PER_BUCKET THEN None
                          ELSE [req EXCEPT !.nodes_sent = sent]]
           /\ lookups' = IF lookups[l].pc = "wait" /\ lookups[l].node = n
                         THEN [lookups EXCEPT ![l].got = @ + Len(nodes),
                                 ![l].found = @ \cup Elements(nodes)]
                         ELSE lookups
    /\ server' = [Idle EXCEPT !.pc = "neighbors", !.rest = nodes]
    /\ UNCHANGED <<startup, reval, pings, responded, replied>>

\* A node that goes into the table is pinged at once.
ServerInsertNeighbor(h) ==
    /\ server.pc = "neighbors" /\ server.rest # <<>>
    /\ LET n == Head(server.rest)
           t == insert_node(table, n)
       IN  IF Inserts(table, n)
           THEN /\ PingResult(n, h)
                /\ table' = update_peer_ping(t, n, h)
                /\ pings' = pings \cup Sent(n, h)
           ELSE /\ h = None
                /\ table' = t
                /\ UNCHANGED pings
    /\ server' = [server EXCEPT !.rest = Tail(@)]
    /\ UNCHANGED <<startup, reval, lookups, responded, replied>>

NeighborsDone ==
    /\ server.pc = "neighbors" /\ server.rest = <<>>
    /\ server' = Idle
    /\ UNCHANGED <<table, startup, reval, lookups, pings, responded, replied>>

\* Whether another task can lock the table.
Unlocked == server.pc # "neighbors"

-----------------------------------------------------------------------------
(***************************************************************************)
(* discovery_startup.                                                      *)
(***************************************************************************)
StartupInsert ==
    /\ startup.pc = "insert" /\ startup.next <= Len(Bootnodes)
    /\ Unlocked
    /\ table' = insert_node(table, Bootnodes[startup.next])
    /\ startup' = [startup EXCEPT !.pc = "ping"]
    /\ UNCHANGED <<server, reval, lookups, pings, responded, replied>>

StartupPing(h) ==
    /\ startup.pc = "ping"
    /\ PingResult(Bootnodes[startup.next], h)
    /\ pings' = pings \cup Sent(Bootnodes[startup.next], h)
    /\ startup' = [startup EXCEPT !.pc = "update", !.hash = h]
    /\ UNCHANGED <<table, server, reval, lookups, responded, replied>>

StartupUpdate ==
    /\ startup.pc = "update"
    /\ Unlocked
    /\ table' = update_peer_ping(table, Bootnodes[startup.next], startup.hash)
    /\ startup' = [pc |-> "insert", next |-> startup.next + 1, hash |-> None]
    /\ UNCHANGED <<server, reval, lookups, pings, responded, replied>>

-----------------------------------------------------------------------------
(***************************************************************************)
(* peers_revalidation.                                                     *)
(***************************************************************************)
RevalTick ==
    /\ reval.pc = "tick"
    /\ reval' = [reval EXCEPT !.pc = "check", !.todo = reval.pinged,
                              !.pinged = {}]
    /\ UNCHANGED <<table, server, startup, lookups, pings, responded, replied>>

\* A peer after the check of its answer.  The code unwraps the table entry:
\* PingedStay says that there is one.
CheckedPeer(n) ==
    [table.data[n] EXCEPT !.liveness = checked_liveness(table.data[n]),
                          !.revalidation = "none"]

CheckKept(n) ==
    /\ reval.pc = "check" /\ n \in reval.todo
    /\ Unlocked
    /\ CheckedPeer(n).liveness # 0
    /\ table' = [table EXCEPT !.data[n] = CheckedPeer(n)]
    /\ reval' = [reval EXCEPT !.todo = @ \ {n}]
    /\ replied' = replied \ {n}
    /\ UNCHANGED <<server, startup, lookups, pings, responded>>

\* A peer without liveness makes room for a replacement, which is pinged.
CheckReplaced(n, h) ==
    /\ reval.pc = "check" /\ n \in reval.todo
    /\ Unlocked
    /\ CheckedPeer(n).liveness = 0
    /\ LET new == replacement_of(table, n)
           t == replace_peer(table, n)
       IN  IF new = None
           THEN /\ h = None
                /\ table' = t
                /\ UNCHANGED pings
           ELSE /\ PingResult(new, h)
                /\ table' = update_peer_ping(t, new, h)
                /\ pings' = pings \cup Sent(new, h)
    /\ reval' = [reval EXCEPT !.todo = @ \ {n}]
    /\ replied' = replied \ {n}
    /\ UNCHANGED <<server, startup, lookups, responded>>

\* get_least_recently_pinged_peers(3)
SelectPeers(s) ==
    /\ reval.pc = "check" /\ reval.todo = {}
    /\ Unlocked
    /\ s \in Selections(table, Revalidated)
    /\ reval' = [reval EXCEPT !.pc = "ping", !.todo = s]
    /\ UNCHANGED <<table, server, startup, lookups, pings, responded, replied>>

RevalPing(n, h) ==
    /\ reval.pc = "ping" /\ n \in reval.todo
    /\ PingResult(n, h)
    /\ pings' = pings \cup Sent(n, h)
    /\ reval' = [reval EXCEPT !.pc = "mark", !.todo = @ \ {n}, !.node = n,
                              !.hash = h]
    /\ replied' = replied \ {n}
    /\ UNCHANGED <<table, server, startup, lookups, responded>>

RevalMark ==
    /\ reval.pc = "mark"
    /\ Unlocked
    /\ table' = update_peer_ping_with_revalidation(table, reval.node, reval.hash)
    /\ reval' = [reval EXCEPT !.pc = "ping", !.pinged = @ \cup {reval.node},
                              !.node = None, !.hash = None]
    /\ UNCHANGED <<server, startup, lookups, pings, responded, replied>>

RevalDone ==
    /\ reval.pc = "ping" /\ reval.todo = {}
    /\ reval' = [reval EXCEPT !.pc = "tick"]
    /\ UNCHANGED <<table, server, startup, lookups, pings, responded, replied>>

-----------------------------------------------------------------------------
(***************************************************************************)
(* peers_lookup spawns the lookups and waits for all of them; a            *)
(* recursive_lookup repeats rounds of lookup until a round asks nobody.    *)
(***************************************************************************)
StartLookups ==
    /\ Lookup # {}
    /\ startup.next > Len(Bootnodes)
    /\ \A l \in Lookup : lookups[l].pc = "idle"
    /\ lookups' = [l \in Lookup |-> [Resting EXCEPT !.pc = "start"]]
    /\ UNCHANGED <<table, server, startup, reval, pings, responded, replied>>

LookupStart(l, s) ==
    /\ lookups[l].pc = "start"
    /\ Unlocked
    /\ s \in Selections(table, MAX_NODES_PER_BUCKET)
    /\ lookups' = [lookups EXCEPT ![l] =
                     [Resting EXCEPT !.pc = "round", !.seen = s \cup {Local},
                                     !.to_ask = s, !.left = s]]
    /\ UNCHANGED <<table, server, startup, reval, pings, responded, replied>>

\* Faulty variant: a lookup does not remember whom it asked.
AskableAgain(l, n) ==
    n \in table.peers /\ table.data[n].find_node_request = None

Askable(l, n) ==
    /\ n \notin lookups[l].asked
    /\ n \in table.peers
    /\ table.data[n].find_node_request = None

SkipPeer(l, n) ==
    /\ lookups[l].pc = "round" /\ n \in lookups[l].left
    /\ n \in lookups[l].asked \/ Unlocked
    /\ ~Askable(l, n)
    /\ lookups' = [lookups EXCEPT ![l].left = @ \ {n}]
    /\ UNCHANGED <<table, server, startup, reval, pings, responded, replied>>

\* new_find_node_request_with_sender; then the packet is sent and awaited.
AskPeer(l, n) ==
    /\ lookups[l].pc = "round" /\ n \in lookups[l].left
    /\ Unlocked
    /\ Askable(l, n)
    /\ table' = [table EXCEPT !.data[n].find_node_request =
                   [nodes_sent |-> 0, expired |-> FALSE, tx |-> l]]
    /\ lookups' = [lookups EXCEPT ![l].pc = "wait", ![l].left = @ \ {n},
                     ![l].asked = @ \cup {n}, ![l].queries = @ + 1,
                     ![l].node = n, ![l].got = 0]
    /\ UNCHANGED <<server, startup, reval, pings, responded, replied>>

\* MAX_NODES_PER_BUCKET nodes have come, the request is gone, or nothing came
\* for five seconds.  After Alpha queries the round is over.
WaitEnds(l) ==
    /\ lookups[l].pc = "wait"
    /\ lookups' = [lookups EXCEPT ![l].pc = "round", ![l].node = None,
                     ![l].left = IF lookups[l].queries = Alpha THEN {} ELSE @]
    /\ UNCHANGED <<table, server, startup, reval, pings, responded, replied>>

\* peers_to_ask_push for every new node: the list keeps its length once it is
\* full, and which nodes stay depends on the distances.
Pushed(l) ==
    LET all == lookups[l].to_ask \cup (lookups[l].found \ lookups[l].seen)
        size == IF Cardinality(all) < MAX_NODES_PER_BUCKET
                THEN Cardinality(all) ELSE MAX_NODES_PER_BUCKET
    IN  {s \in SUBSET all : Cardinality(s) = size}

RoundEnds(l, s) ==
    /\ lookups[l].pc = "round" /\ lookups[l].left = {}
    /\ s \in Pushed(l)
    /\ lookups' = [lookups EXCEPT ![l] =
                     IF lookups[l].queries = 0 THEN Resting
                     ELSE [lookups[l] EXCEPT
                             !.seen = lookups[l].seen \cup lookups[l].found,
                             !.to_ask = s, !.left = s, !.found = {},
                             !.queries = 0]]
    /\ UNCHANGED <<table, server, startup, reval, pings, responded, replied>>

-----------------------------------------------------------------------------
\* Time and the network.
ProofAges(n) ==
    /\ n \in table.peers /\ ~table.data[n].aged
    /\ table' = [table EXCEPT !.data[n].aged = TRUE]
    /\ UNCHANGED <<server, startup, reval, lookups, pings, responded, replied>>

RequestAges(n) ==
    /\ n \in table.peers
    /\ table.data[n].find_node_request # None
    /\ ~table.data[n].find_node_request.expired
    /\ table' = [table EXCEPT !.data[n].find_node_request.expired = TRUE]
    /\ UNCHANGED <<server, startup, reval, lookups, pings, responded, replied>>

PingLost(n, h) ==
    /\ <<n, h>> \in pings
    /\ pings' = pings \ {<<n, h>>}
    /\ UNCHANGED <<table, server, startup, reval, lookups, responded, replied>>

Receive ==
    \E n \in Node :
        \/ RecvPing(n) \/ RecvFindNode(n) \/ NeighborsLate(n)
        \/ \E h \in OptionPing : RecvPong(n, h)
        \/ \E nodes \in Neighbors : RecvNeighbors(n, nodes)

Serve ==
    \/ ServerInsert \/ ServerUpdate \/ ServerPong \/ ServerNeighbors
    \/ NeighborsDone
    \/ \E h \in OptionPing : ServerPing(h) \/ ServerInsertNeighbor(h)

Startup ==
    StartupInsert \/ StartupUpdate \/ \E h \in OptionPing : StartupPing(h)

Revalidate ==
    \/ RevalTick \/ RevalMark \/ RevalDone
    \/ \E s \in SUBSET Node : SelectPeers(s)
    \/ \E n \in Node :
         \/ CheckKept(n)
         \/ \E h \in OptionPing : CheckReplaced(n, h) \/ RevalPing(n, h)

LookupStep(l) ==
    \/ WaitEnds(l)
    \/ \E n \in Node : SkipPeer(l, n) \/ AskPeer(l, n)
    \/ \E s \in SUBSET Node : LookupStart(l, s) \/ RoundEnds(l, s)

Passing ==
    \E n \in Node :
        \/ ProofAges(n) \/ RequestAges(n)
        \/ \E h \in Ping : PingLost(n, h)

Next ==
    \/ Receive \/ Serve \/ Startup \/ Revalidate
    \/ StartLookups \/ \E l \in Lookup : LookupStep(l)
    \/ Passing

Spec == Init /\ [][Next]_vars

-----------------------------------------------------------------------------
\* A node is known once: as a peer or as a replacement, never both or twice,
\* and no bucket outgrows its bounds, however insert_node and replace_peer of
\* the four kinds of task interleave.
KnownOnce ==
    \A i \in Bucket :
        LET r == table.replacements[i]
        IN  /\ Cardinality(PeersOf(table, i)) <= MAX_NODES_PER_BUCKET
            /\ Len(r) <= MAX_NUMBER_OF_REPLACEMENTS
            /\ Elements(r) \cap table.peers = {}
            /\ \A j, k \in DOMAIN r : r[j] = r[k] => j = k
            /\ \A j \in DOMAIN r : BucketOf[r[j]] = i

\* The unwrap of peers_revalidation is safe: whoever it pinged in the previous
\* round is still in the table, and whoever it is about to mark as well.
PingedStay ==
    /\ reval.todo \cup reval.pinged \subseteq table.peers
    /\ reval.pc = "mark" => reval.node \in table.peers

\* Endpoint proof: a peer counts as proven, and FindNode is served, only for a
\* node that answered one of our pings, although the pong is matched and
\* recorded under two separate locks.
EndpointProof ==
    /\ \A n \in table.peers : table.data[n].is_proven => n \in responded
    /\ server.pc \in {"pong", "closest"} => server.node \in responded

\* A peer whose pong to its revalidation ping came after the ping was recorded,
\* and is handled, is not thrown out for lack of liveness, whatever pings and
\* pongs of the server come in between; unless its u16 liveness overflows.
AnsweredKept ==
    [][\A n \in table.peers :
         n \in replied /\ ~(server.pc = "pong" /\ server.node = n)
         /\ table.data[n].liveness + 1 < LivenessModulus
             => n \in table'.peers]_vars

\* A lookup gets through its channel what the request counted, so no request
\* brings in more than MAX_NODES_PER_BUCKET nodes; and no two lookups wait on
\* the same peer's request.
ChannelAgrees ==
    \A l \in Lookup : lookups[l].pc = "wait" =>
        LET n == lookups[l].node
            req == table.data[n].find_node_request
        IN  n \in table.peers /\ req # None /\ req.tx = l
              => req.nodes_sent = lookups[l].got

\* Tokio runs every task, its mutex is granted in order of arrival, and a wait
\* for neighbors is cut off by its timer.
FairSpec ==
    /\ Spec
    /\ WF_vars(Serve)
    /\ \A l \in Lookup : SF_vars(LookupStep(l))

\* Every recursive lookup comes to an end, whatever the peers answer and
\* whatever else happens to the table: a peer is asked at most once.
LookupEnds ==
    \A l \in Lookup : lookups[l].pc = "start" ~> lookups[l].pc = "idle"

=============================================================================
