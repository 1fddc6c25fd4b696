-------------------------- MODULE DiscoveryProofs --------------------------
(***************************************************************************)
(* For any set of nodes, any bucket sizes and any number of lookups: the   *)
(* operations of the peer table keep its buckets well formed, drop no peer *)
(* that was not replaced and claim nothing new about a peer; revalidation  *)
(* never meets a peer that is gone, only nodes that answered a ping count  *)
(* as proven, and a peer that answered its revalidation is kept.           *)
(***************************************************************************)
EXTENDS Discovery, FiniteSetTheorems, TLAPS

\* The replacements r of bucket i, beside the peers P.
SpareOK(r, i, P) ==
    /\ r \in Seq(Node)
    /\ Len(r) <= MAX_NUMBER_OF_REPLACEMENTS
    /\ \A j \in 1 .. Len(r) : r[j] \notin P /\ BucketOf[r[j]] = i
    /\ \A j, k \in 1 .. Len(r) : r[j] = r[k] => j = k

BucketsOK(t) ==
    \A i \in Bucket :
        /\ Cardinality(PeersOf(t, i)) <= MAX_NODES_PER_BUCKET
        /\ SpareOK(t.replacements[i], i, t.peers)

\* A find_node request b that is what is left of the request a.
SameRequest(a, b) ==
    b # None => a # None /\ b.tx = a.tx /\ b.nodes_sent = a.nodes_sent

\* The table u keeps the peers of t, except those in gone, has no new request,
\* and takes for proven only those that t did, and nodes of R.
Keeps(t, u, gone, R) ==
    /\ u \in KademliaTable
    /\ BucketsOK(u)
    /\ t.peers \ gone \subseteq u.peers
    /\ \A m \in Node :
         /\ u.data[m].is_proven => t.data[m].is_proven \/ m \in R
         /\ SameRequest(t.data[m].find_node_request, u.data[m].find_node_request)

-----------------------------------------------------------------------------
(***************************************************************************)
(* Sequences.                                                              *)
(***************************************************************************)
LEMMA Emptiness ==
  ASSUME NEW S
  PROVE  /\ <<>> \in Seq(S) /\ Len(<<>>) = 0
         /\ \A s \in Seq(S) : s # <<>> => Len(s) \in Nat \ {0}
  OBVIOUS

LEMMA Indexed ==
  ASSUME NEW S, NEW s \in Seq(S)
  PROVE  Len(s) \in Nat /\ s \in [1 .. Len(s) -> S] /\ DOMAIN s = 1 .. Len(s)
  OBVIOUS

LEMMA Appended ==
  ASSUME NEW S, NEW s \in Seq(S), NEW x \in S
  PROVE  /\ Append(s, x) \in Seq(S) /\ Append(s, x) # <<>>
         /\ Len(Append(s, x)) = Len(s) + 1 /\ Append(s, x)[Len(s) + 1] = x
         /\ \A i \in 1 .. Len(s) : Append(s, x)[i] = s[i]
  OBVIOUS

LEMMA Sliced ==
  ASSUME NEW S, NEW s, NEW m \in Int, NEW n \in Int, \A i \in m .. n : s[i] \in S
  PROVE  /\ SubSeq(s, m, n) \in Seq(S)
         /\ Len(SubSeq(s, m, n)) = IF m <= n THEN n - m + 1 ELSE 0
         /\ \A i \in 1 .. n - m + 1 : SubSeq(s, m, n)[i] = s[m + i - 1]
  OBVIOUS

LEMMA HeadAndTail ==
  ASSUME NEW S, NEW s \in Seq(S), s # <<>>
  PROVE  /\ Head(s) \in S /\ Tail(s) \in Seq(S)
         /\ Len(Tail(s)) = Len(s) - 1
         /\ \A i \in 1 .. Len(Tail(s)) : Tail(s)[i] = s[i + 1]
  OBVIOUS

LEMMA ElementOf ==
  ASSUME NEW S, NEW s \in Seq(S), NEW i \in 1 .. Len(s)
  PROVE  s[i] \in S
  OBVIOUS

-----------------------------------------------------------------------------
(***************************************************************************)
(* The replacement lists.                                                  *)
(***************************************************************************)
LEMMA AppendSpare ==
  ASSUME NEW r, NEW i, NEW P, SpareOK(r, i, P),
         Len(r) < MAX_NUMBER_OF_REPLACEMENTS,
         NEW n \in Node, n \notin P, BucketOf[n] = i,
         \A j \in 1 .. Len(r) : r[j] # n
  PROVE  SpareOK(Append(r, n), i, P)
<1> DEFINE s == Append(r, n)
<1>1. /\ s \in Seq(Node) /\ Len(s) = Len(r) + 1 /\ s[Len(r) + 1] = n
      /\ \A j \in 1 .. Len(r) : s[j] = r[j]
  BY Appended DEF SpareOK
<1>2. Len(r) \in Nat
  BY Indexed DEF SpareOK
<1> HIDE DEF s
<1> QED
  BY <1>1, <1>2, KademliaAssumption DEF SpareOK

LEMMA TailSpare ==
  ASSUME NEW r, NEW i, NEW P, SpareOK(r, i, P), r # <<>>
  PROVE  /\ SpareOK(Tail(r), i, P)
         /\ Len(Tail(r)) = Len(r) - 1
         /\ \A j \in 1 .. Len(Tail(r)) : \E k \in 1 .. Len(r) : Tail(r)[j] = r[k]
<1> DEFINE s == Tail(r)
<1>1. /\ s \in Seq(Node) /\ Len(s) = Len(r) - 1
      /\ \A j \in 1 .. Len(s) : s[j] = r[j + 1]
  BY HeadAndTail DEF SpareOK
<1>2. Len(r) \in Nat /\ Len(s) \in Nat
  BY <1>1, Indexed DEF SpareOK
<1> HIDE DEF s
<1>3. \A j \in 1 .. Len(s) : j + 1 \in 1 .. Len(r)
  BY <1>1, <1>2
<1>4. SpareOK(s, i, P)
  <2>1. Len(s) <= MAX_NUMBER_OF_REPLACEMENTS
    BY <1>1, <1>2, KademliaAssumption DEF SpareOK
  <2>2. \A j \in 1 .. Len(s) : s[j] \notin P /\ BucketOf[s[j]] = i
    <3>1. \A j \in 1 .. Len(r) : r[j] \notin P /\ BucketOf[r[j]] = i
      BY ZenonT(60) DEF SpareOK
    <3> QED
      BY <1>1, <1>3, <3>1, ZenonT(60)
  <2>3. ASSUME NEW j \in 1 .. Len(s), NEW k \in 1 .. Len(s), s[j] = s[k]
        PROVE  j = k
    <3>1. j + 1 = k + 1
      BY <1>1, <1>3, <2>3 DEF SpareOK
    <3> QED
      BY <3>1
  <2> QED
    BY <1>1, <2>1, <2>2, <2>3 DEF SpareOK
<1>5. \A j \in 1 .. Len(s) : \E k \in 1 .. Len(r) : s[j] = r[k]
  BY <1>1, <1>3
<1> QED
  BY <1>1, <1>4, <1>5 DEF s

LEMMA FrontSpare ==
  ASSUME NEW r, NEW i, NEW P, SpareOK(r, i, P), r # <<>>
  PROVE  LET last == r[Len(r)]
         IN  /\ last \in Node /\ last \notin P /\ BucketOf[last] = i
             /\ SpareOK(SubSeq(r, 1, Len(r) - 1), i, P \cup {last})
<1> DEFINE s == SubSeq(r, 1, Len(r) - 1)
           last == r[Len(r)]
<1>1. Len(r) \in Nat \ {0} /\ \A j \in 1 .. Len(r) : r[j] \in Node
  BY Indexed, Emptiness, ElementOf DEF SpareOK
<1>2. \A j \in 1 .. Len(r) - 1 : r[j] \in Node /\ j \in 1 .. Len(r)
  BY <1>1
<1>3. /\ s \in Seq(Node) /\ Len(s) = Len(r) - 1
      /\ \A j \in 1 .. Len(s) : s[j] = r[j]
  <2> DEFINE n == Len(r) - 1
  <2>1. n \in Int /\ 1 \in Int /\ n >= 0 /\ n - 1 + 1 = n
    BY <1>1
  <2>2. \A j \in 1 .. n : r[j] \in Node
    BY <1>2
  <2> HIDE DEF n
  <2>3. /\ SubSeq(r, 1, n) \in Seq(Node)
        /\ Len(SubSeq(r, 1, n)) = IF 1 <= n THEN n - 1 + 1 ELSE 0
        /\ \A j \in 1 .. n - 1 + 1 : SubSeq(r, 1, n)[j] = r[1 + j - 1]
    BY <2>1, <2>2, Sliced
  <2> QED
    BY <2>1, <2>3 DEF n
<1>4. Len(r) \in 1 .. Len(r)
  BY <1>1
<1>5. last \in Node /\ last \notin P /\ BucketOf[last] = i
  BY <1>1, <1>4 DEF SpareOK
<1> HIDE DEF s
<1>6. \A j \in 1 .. Len(s) : s[j] # last
  BY <1>1, <1>2, <1>3, <1>4 DEF SpareOK
<1>7. SpareOK(s, i, P \cup {last})
  <2>1. Len(s) <= MAX_NUMBER_OF_REPLACEMENTS
    <3>1. Len(r) <= MAX_NUMBER_OF_REPLACEMENTS
      BY ZenonT(60) DEF SpareOK
    <3> QED
      BY <1>1, <1>3, <3>1, KademliaAssumption
  <2>2. \A j \in 1 .. Len(s) : j \in 1 .. Len(r) /\ s[j] = r[j]
    BY <1>2, <1>3, ZenonT(60)
  <2>3. \A j \in 1 .. Len(s) : s[j] \notin P \cup {last} /\ BucketOf[s[j]] = i
    BY <1>6, <2>2, ZenonT(60) DEF SpareOK
  <2>4. \A j, k \in 1 .. Len(s) : s[j] = s[k] => j = k
    BY <2>2, ZenonT(60) DEF SpareOK
  <2> QED
    BY <1>3, <2>1, <2>3, <2>4, ZenonT(60) DEF SpareOK
<1> QED
  BY <1>5, <1>7 DEF s

-----------------------------------------------------------------------------
(***************************************************************************)
(* The operations of the table.                                            *)
(***************************************************************************)
LEMMA PeersFinite ==
  ASSUME NEW t \in KademliaTable, NEW i
  PROVE  /\ IsFiniteSet(PeersOf(t, i))
         /\ Cardinality(PeersOf(t, i)) \in Nat
<1>1. PeersOf(t, i) \in SUBSET Node
  BY DEF PeersOf, KademliaTable
<1> QED
  BY <1>1, FS_Subset, FS_CardinalityType, KademliaAssumption

LEMMA NewPeerType == NewPeer \in PeerData
  BY KademliaAssumption DEF NewPeer, PeerData, OptionPing

LEMMA KeepsReflexive ==
  ASSUME NEW t \in KademliaTable, BucketsOK(t), NEW gone, NEW R
  PROVE  Keeps(t, t, gone, R)
  BY DEF Keeps, SameRequest

LEMMA KeepsTransitive ==
  ASSUME NEW t, NEW u, NEW v, NEW gone, NEW R, Keeps(t, u, gone, R),
         Keeps(u, v, {}, R)
  PROVE  Keeps(t, v, gone, R)
  BY ZenonT(60) DEF Keeps, SameRequest

\* A change of the data of one peer touches no bucket.
LEMMA DataStep ==
  ASSUME NEW t \in KademliaTable, BucketsOK(t), NEW n \in Node,
         NEW p \in PeerData
  PROVE  LET u == [t EXCEPT !.data[n] = p]
         IN  /\ u \in KademliaTable /\ BucketsOK(u)
             /\ u.peers = t.peers /\ u.replacements = t.replacements
             /\ u.data = [t.data EXCEPT ![n] = p]
<1> DEFINE u == [t EXCEPT !.data[n] = p]
<1>1. /\ u \in KademliaTable /\ u.peers = t.peers
      /\ u.replacements = t.replacements /\ u.data = [t.data EXCEPT ![n] = p]
  BY ZenonT(60) DEF KademliaTable
<1>2. \A i : PeersOf(u, i) = PeersOf(t, i)
  BY <1>1 DEF PeersOf
<1>3. BucketsOK(u)
  BY <1>1, <1>2 DEF BucketsOK
<1> QED
  BY <1>1, <1>3

LEMMA PeerKeeps ==
  ASSUME NEW t \in KademliaTable, BucketsOK(t), NEW n \in Node, NEW R,
         NEW p \in PeerData, p.is_proven => t.data[n].is_proven \/ n \in R,
         SameRequest(t.data[n].find_node_request, p.find_node_request)
  PROVE  Keeps(t, [t EXCEPT !.data[n] = p], {}, R)
<1> DEFINE u == [t EXCEPT !.data[n] = p]
<1>1. /\ u \in KademliaTable /\ BucketsOK(u)
      /\ u.peers = t.peers /\ u.data = [t.data EXCEPT ![n] = p]
  BY DataStep
<1>2. t.data \in [Node -> PeerData]
  BY DEF KademliaTable
<1> HIDE DEF u
<1>3. \A m \in Node :
        /\ u.data[m].is_proven => t.data[m].is_proven \/ m \in R
        /\ SameRequest(t.data[m].find_node_request, u.data[m].find_node_request)
  BY <1>1, <1>2 DEF SameRequest
<1> QED
  BY <1>1, <1>3 DEF Keeps, u

LEMMA InsertAsReplacementKeeps ==
  ASSUME NEW t \in KademliaTable, BucketsOK(t), NEW n \in Node, NEW R,
         ~Known(t, n)
  PROVE  Keeps(t, insert_as_replacement(t, n), {}, R)
<1> DEFINE i == BucketOf[n]
           r == t.replacements[i]
           kept == IF Len(r) >= MAX_NUMBER_OF_REPLACEMENTS THEN Tail(r) ELSE r
           u == insert_as_replacement(t, n)
<1>1. i \in Bucket /\ SpareOK(r, i, t.peers) /\ n \notin t.peers
  BY KademliaAssumption, ZenonT(60) DEF BucketsOK, Known
<1>2. /\ r \in Seq(Node) /\ Len(r) \in Nat /\ DOMAIN r = 1 .. Len(r)
      /\ Len(r) <= MAX_NUMBER_OF_REPLACEMENTS
  BY <1>1, Indexed, ZenonT(60) DEF SpareOK
<1>3. \A j \in 1 .. Len(r) : r[j] # n
  BY <1>2 DEF Known, Elements
<1>4. /\ SpareOK(kept, i, t.peers) /\ Len(kept) < MAX_NUMBER_OF_REPLACEMENTS
      /\ \A j \in 1 .. Len(kept) : kept[j] # n
  <2>1. CASE Len(r) >= MAX_NUMBER_OF_REPLACEMENTS
    <3>1. r # <<>>
      BY <1>2, <2>1, Emptiness, KademliaAssumption
    <3> QED
      BY <1>1, <1>2, <1>3, <2>1, <3>1, TailSpare, KademliaAssumption
  <2>2. CASE ~(Len(r) >= MAX_NUMBER_OF_REPLACEMENTS)
    BY <1>1, <1>2, <1>3, <2>2, KademliaAssumption
  <2> QED
    BY <2>1, <2>2, ZenonT(60)
<1>5. SpareOK(Append(kept, n), i, t.peers)
  BY <1>1, <1>4, AppendSpare, ZenonT(60)
<1> DEFINE s == Append(kept, n)
<1>6. u = [t EXCEPT !.replacements[i] = s]
  BY DEF insert_as_replacement
<1>7. /\ u \in KademliaTable /\ u.peers = t.peers /\ u.data = t.data
      /\ u.replacements = [t.replacements EXCEPT ![i] = s]
  <2>1. s \in Seq(Node)
    BY <1>5, ZenonT(60) DEF SpareOK
  <2> HIDE DEF s, u, r
  <2> QED
    BY <1>1, <1>6, <2>1, ZenonT(60) DEF KademliaTable
<1> HIDE DEF s, u
<1>8. BucketsOK(u)
  <2>1. \A k : PeersOf(u, k) = PeersOf(t, k)
    BY <1>7, ZenonT(60) DEF PeersOf
  <2>2. \A k \in Bucket : SpareOK(u.replacements[k], k, t.peers)
    BY <1>5, <1>7 DEF BucketsOK, KademliaTable, s
  <2> QED
    BY <1>7, <2>1, <2>2 DEF BucketsOK
<1> QED
  BY <1>7, <1>8 DEF Keeps, SameRequest, u

LEMMA InsertNodeKeeps ==
  ASSUME NEW t \in KademliaTable, BucketsOK(t), NEW n \in Node, NEW R
  PROVE  Keeps(t, insert_node(t, n), {}, R)
<1>1. CASE Known(t, n)
  BY <1>1, KeepsReflexive DEF insert_node
<1>2. CASE ~Known(t, n) /\ Full(t, BucketOf[n])
  BY <1>2, InsertAsReplacementKeeps DEF insert_node
<1>3. CASE ~Known(t, n) /\ ~Full(t, BucketOf[n])
  <2> DEFINE u == [t EXCEPT !.peers = @ \cup {n}, !.data[n] = NewPeer]
             i == BucketOf[n]
  <2>1. /\ u \in KademliaTable /\ u.peers = t.peers \cup {n}
        /\ u.replacements = t.replacements
        /\ u.data = [t.data EXCEPT ![n] = NewPeer]
    BY NewPeerType, ZenonT(60) DEF KademliaTable
  <2>2. insert_node(t, n) = u
    BY <1>3 DEF insert_node
  <2> HIDE DEF u
  <2>3. ASSUME NEW k \in Bucket
        PROVE  /\ Cardinality(PeersOf(u, k)) <= MAX_NODES_PER_BUCKET
               /\ SpareOK(u.replacements[k], k, u.peers)
    <3>1. /\ Cardinality(PeersOf(t, k)) <= MAX_NODES_PER_BUCKET
          /\ SpareOK(t.replacements[k], k, t.peers)
      BY ZenonT(60) DEF BucketsOK
    <3>2. CASE k = i
      <4>1. PeersOf(u, k) = PeersOf(t, k) \cup {n}
        BY <2>1, <3>2 DEF PeersOf
      <4>2. Cardinality(PeersOf(t, k)) # MAX_NODES_PER_BUCKET
        BY <1>3, <3>2 DEF Full
      <4>3. Cardinality(PeersOf(u, k)) <= MAX_NODES_PER_BUCKET
        <5>1. /\ IsFiniteSet(PeersOf(t, k)) /\ Cardinality(PeersOf(t, k)) \in Nat
              /\ n \notin PeersOf(t, k)
          BY <1>3, PeersFinite, ZenonT(60) DEF PeersOf, Known
        <5>2. Cardinality(PeersOf(u, k)) = Cardinality(PeersOf(t, k)) + 1
          BY <4>1, <5>1, FS_AddElement, ZenonT(60)
        <5> QED
          BY <3>1, <4>2, <5>1, <5>2, KademliaAssumption
      <4>4. \A j \in 1 .. Len(t.replacements[k]) : t.replacements[k][j] # n
        BY <1>3, <3>1, <3>2, Indexed, ZenonT(60) DEF Known, Elements, SpareOK
      <4> QED
        BY <2>1, <3>1, <4>3, <4>4, ZenonT(60) DEF SpareOK
    <3>3. CASE k # i
      <4>1. PeersOf(u, k) = PeersOf(t, k)
        BY <2>1, <3>3, ZenonT(60) DEF PeersOf
      <4>2. \A j \in 1 .. Len(t.replacements[k]) : t.replacements[k][j] # n
        BY <3>1, <3>3, ZenonT(60) DEF SpareOK
      <4> QED
        BY <2>1, <3>1, <4>1, <4>2, ZenonT(60) DEF SpareOK
    <3> QED
      BY <3>2, <3>3
  <2>4. \A m \in Node :
          /\ u.data[m].is_proven => t.data[m].is_proven
          /\ SameRequest(t.data[m].find_node_request,
                         u.data[m].find_node_request)
    BY <2>1 DEF KademliaTable, NewPeer, SameRequest
  <2> QED
    BY <2>1, <2>2, <2>3, <2>4, ZenonT(60) DEF Keeps, BucketsOK
<1> QED
  BY <1>1, <1>2, <1>3

LEMMA UpdatePingKeeps ==
  ASSUME NEW t \in KademliaTable, BucketsOK(t), NEW n \in Node,
         NEW h \in OptionPing, NEW R
  PROVE  Keeps(t, update_peer_ping(t, n, h), {}, R)
<1> DEFINE p == [t.data[n] EXCEPT !.last_ping_hash = h, !.aged = FALSE]
           u == [t EXCEPT !.data[n] = p]
<1>1. t.data[n] \in PeerData
  BY DEF KademliaTable
<1>2. /\ p \in PeerData /\ p.is_proven = t.data[n].is_proven
      /\ p.find_node_request = t.data[n].find_node_request
  BY <1>1, ZenonT(60) DEF PeerData, OptionPing
<1>3. n \in t.peers => update_peer_ping(t, n, h) = u
  BY ZenonT(60) DEF update_peer_ping, KademliaTable
<1>4. Keeps(t, u, {}, R)
  BY <1>2, PeerKeeps, ZenonT(60) DEF SameRequest
<1> QED
  BY <1>3, <1>4, KeepsReflexive, ZenonT(60) DEF update_peer_ping

LEMMA UpdateRevalidationKeeps ==
  ASSUME NEW t \in KademliaTable, BucketsOK(t), NEW n \in Node,
         NEW h \in OptionPing, NEW R
  PROVE  Keeps(t, update_peer_ping_with_revalidation(t, n, h), {}, R)
<1> DEFINE p == [t.data[n] EXCEPT !.last_ping_hash = h, !.aged = FALSE,
                                  !.revalidation = "sent"]
           u == [t EXCEPT !.data[n] = p]
<1>1. t.data[n] \in PeerData
  BY DEF KademliaTable
<1>2. /\ p \in PeerData /\ p.is_proven = t.data[n].is_proven
      /\ p.find_node_request = t.data[n].find_node_request
  BY <1>1, ZenonT(60) DEF PeerData, OptionPing
<1>3. n \in t.peers => update_peer_ping_with_revalidation(t, n, h) = u
  BY ZenonT(60) DEF update_peer_ping_with_revalidation, KademliaTable
<1>4. Keeps(t, u, {}, R)
  BY <1>2, PeerKeeps, ZenonT(60) DEF SameRequest
<1> QED
  BY <1>3, <1>4, KeepsReflexive DEF update_peer_ping_with_revalidation

LEMMA PongKeeps ==
  ASSUME NEW t \in KademliaTable, BucketsOK(t), NEW n \in Node, NEW R, n \in R
  PROVE  Keeps(t, pong_answered(t, n), {}, R)
<1> DEFINE p == [t.data[n] EXCEPT !.is_proven = TRUE, !.last_ping_hash = None,
                   !.revalidation = IF @ = "none" THEN "none" ELSE "answered"]
           u == [t EXCEPT !.data[n] = p]
<1>1. t.data[n] \in PeerData
  BY DEF KademliaTable
<1>2. /\ p \in PeerData
      /\ p.find_node_request = t.data[n].find_node_request
  BY <1>1, ZenonT(60) DEF PeerData, OptionPing
<1>3. n \in t.peers => pong_answered(t, n) = u
  BY ZenonT(60) DEF pong_answered, KademliaTable
<1>4. Keeps(t, u, {}, R)
  BY <1>2, PeerKeeps, ZenonT(60) DEF SameRequest
<1> QED
  BY <1>3, <1>4, KeepsReflexive DEF pong_answered

\* A peer is taken out; the newest replacement, if any, comes in.
LEMMA ReplaceKeeps ==
  ASSUME NEW t \in KademliaTable, BucketsOK(t), NEW n \in Node, NEW R,
         n \in t.peers
  PROVE  /\ Keeps(t, replace_peer(t, n), {n}, R)
         /\ replacement_of(t, n) \in OptionNode
<1> DEFINE i == BucketOf[n]
           r == t.replacements[i]
           u == replace_peer(t, n)
<1>1. i \in Bucket /\ SpareOK(r, i, t.peers)
  BY KademliaAssumption DEF BucketsOK
<1>2. \A k : /\ IsFiniteSet(PeersOf(t, k)) /\ Cardinality(PeersOf(t, k)) \in Nat
  BY PeersFinite
<1>3. CASE r = <<>>
  <2>1. /\ u \in KademliaTable /\ u.peers = t.peers \ {n}
        /\ u.replacements = t.replacements
        /\ u.data = [t.data EXCEPT ![n] = NewPeer]
    BY <1>3, NewPeerType, ZenonT(60) DEF KademliaTable, replace_peer
  <2> HIDE DEF u
  <2>2. ASSUME NEW k \in Bucket
        PROVE  /\ Cardinality(PeersOf(u, k)) <= MAX_NODES_PER_BUCKET
               /\ SpareOK(u.replacements[k], k, u.peers)
    <3>1. /\ Cardinality(PeersOf(t, k)) <= MAX_NODES_PER_BUCKET
          /\ SpareOK(t.replacements[k], k, t.peers)
      BY DEF BucketsOK
    <3>2. PeersOf(u, k) \subseteq PeersOf(t, k)
      BY <2>1 DEF PeersOf
    <3>3. Cardinality(PeersOf(u, k)) <= Cardinality(PeersOf(t, k))
      BY <1>2, <3>2, FS_Subset, ZenonT(60)
    <3>4. Cardinality(PeersOf(u, k)) \in Nat
      BY <2>1, PeersFinite
    <3>5. Cardinality(PeersOf(u, k)) <= MAX_NODES_PER_BUCKET
      BY <1>2, <3>1, <3>3, <3>4, KademliaAssumption
    <3> QED
      BY <2>1, <3>1, <3>5 DEF SpareOK
  <2>3. \A m \in Node :
          /\ u.data[m].is_proven => t.data[m].is_proven
          /\ SameRequest(t.data[m].find_node_request,
                         u.data[m].find_node_request)
    BY <2>1 DEF KademliaTable, NewPeer, SameRequest
  <2>4. Keeps(t, u, {n}, R)
    BY <2>1, <2>2, <2>3, ZenonT(60) DEF Keeps, BucketsOK
  <2> QED
    BY <1>3, <2>4 DEF replacement_of, OptionNode, u
<1>4. CASE r # <<>>
  <2> DEFINE last == r[Len(r)]
             front == SubSeq(r, 1, Len(r) - 1)
  <2>1. /\ last \in Node /\ last \notin t.peers /\ BucketOf[last] = i
        /\ SpareOK(front, i, t.peers \cup {last})
    BY <1>1, <1>4, FrontSpare, ZenonT(60)
  <2>2. u = [peers |-> (t.peers \ {n}) \cup {last},
             replacements |-> [t.replacements EXCEPT ![i] = front],
             data |-> [t.data EXCEPT ![n] = NewPeer, ![last] = NewPeer]]
    BY <1>4 DEF replace_peer
  <2>3. replacement_of(t, n) = last
    BY <1>4 DEF replacement_of
  <2>4. front \in Seq(Node)
    BY <2>1, ZenonT(60) DEF SpareOK
  <2> HIDE DEF u, last, front
  <2>5. /\ u \in KademliaTable /\ u.peers = (t.peers \ {n}) \cup {last}
        /\ u.replacements = [t.replacements EXCEPT ![i] = front]
        /\ u.data = [t.data EXCEPT ![n] = NewPeer, ![last] = NewPeer]
    <3>1. [t.replacements EXCEPT ![i] = front] \in [Bucket -> Seq(Node)]
      BY <1>1, <2>4 DEF KademliaTable
    <3>2. [t.data EXCEPT ![n] = NewPeer, ![last] = NewPeer] \in [Node -> PeerData]
      BY <2>1, NewPeerType DEF KademliaTable
    <3>3. (t.peers \ {n}) \cup {last} \in SUBSET Node
      BY <2>1 DEF KademliaTable
    <3> QED
      BY <2>2, <3>1, <3>2, <3>3, ZenonT(60) DEF KademliaTable
  <2>6. ASSUME NEW k \in Bucket
        PROVE  /\ Cardinality(PeersOf(u, k)) <= MAX_NODES_PER_BUCKET
               /\ SpareOK(u.replacements[k], k, u.peers)
    <3>1. /\ Cardinality(PeersOf(t, k)) <= MAX_NODES_PER_BUCKET
          /\ SpareOK(t.replacements[k], k, t.peers)
      BY DEF BucketsOK
    <3>2. CASE k = i
      <4>1. PeersOf(u, k) = (PeersOf(t, k) \ {n}) \cup {last}
        BY <2>1, <2>5, <3>2, ZenonT(60) DEF PeersOf
      <4>2. /\ n \in PeersOf(t, k) /\ last \notin PeersOf(t, k) \ {n}
        BY <2>1, <3>2 DEF PeersOf
      <4>3. /\ IsFiniteSet(PeersOf(t, k) \ {n})
            /\ Cardinality(PeersOf(t, k) \ {n}) = Cardinality(PeersOf(t, k)) - 1
        BY <1>2, <4>2, FS_RemoveElement
      <4>4. Cardinality(PeersOf(u, k)) = Cardinality(PeersOf(t, k) \ {n}) + 1
        BY <4>1, <4>2, <4>3, FS_AddElement, ZenonT(60)
      <4>5. Cardinality(PeersOf(u, k)) <= MAX_NODES_PER_BUCKET
        BY <1>2, <3>1, <4>3, <4>4, KademliaAssumption
      <4>6. u.replacements[k] = front
        BY <1>1, <2>5, <3>2, ZenonT(60) DEF KademliaTable
      <4> QED
        BY <2>1, <2>5, <3>2, <4>5, <4>6, ZenonT(60) DEF SpareOK
    <3>3. CASE k # i
      <4>1. PeersOf(u, k) = PeersOf(t, k)
        BY <2>1, <2>5, <3>3, ZenonT(60) DEF PeersOf
      <4>2. u.replacements[k] = t.replacements[k]
        BY <2>5, <3>3, ZenonT(60) DEF KademliaTable
      <4>3. \A j \in 1 .. Len(t.replacements[k]) : t.replacements[k][j] # last
        BY <2>1, <3>1, <3>3, ZenonT(60) DEF SpareOK
      <4> QED
        BY <2>5, <3>1, <4>1, <4>2, <4>3, ZenonT(60) DEF SpareOK
    <3> QED
      BY <3>2, <3>3, ZenonT(60)
  <2>7. \A m \in Node :
          /\ u.data[m].is_proven => t.data[m].is_proven
          /\ SameRequest(t.data[m].find_node_request,
                         u.data[m].find_node_request)
    <3>1. \A m \in Node : u.data[m] = NewPeer \/ u.data[m] = t.data[m]
      BY <2>1, <2>5 DEF KademliaTable
    <3> QED
      BY <3>1 DEF NewPeer, SameRequest
  <2>8. Keeps(t, u, {n}, R)
    BY <2>5, <2>6, <2>7, ZenonT(60) DEF Keeps, BucketsOK
  <2> QED
    BY <2>1, <2>3, <2>8 DEF u, OptionNode
<1> QED
  BY <1>3, <1>4

\* increment_liveness and decrement_liveness stay within the u16.
LEMMA LivenessType ==
  ASSUME NEW p \in PeerData
  PROVE  checked_liveness(p) \in 0 .. LivenessModulus - 1
<1>1. p.liveness \in 0 .. LivenessModulus - 1
  BY DEF PeerData
<1>2. (p.liveness + 1) % LivenessModulus \in 0 .. LivenessModulus - 1
  BY <1>1, KademliaAssumption
<1>3. p.liveness \div 3 \in 0 .. LivenessModulus - 1
  BY <1>1, KademliaAssumption
<1> QED
  BY <1>1, <1>2, <1>3, ZenonT(60) DEF checked_liveness

-----------------------------------------------------------------------------
(***************************************************************************)
(* The inductive invariant.                                                *)
(***************************************************************************)
Proven == \A n \in Node : table.data[n].is_proven => n \in responded

Served == server.pc \in {"pong", "closest"} => server.node \in responded

ServerHasNode == server.pc \notin {"idle", "neighbors"} => server.node \in Node

BootnodeLeft == startup.pc # "insert" => startup.next <= Len(Bootnodes)

NonePinged == reval.pc = "check" => reval.pinged = {}

\* What one lookup and the peer it waits on agree on.
Agrees(l, t, s) ==
    s.pc = "wait" =>
        LET req == t.data[s.node].find_node_request
        IN  req # None /\ req.tx = l => req.nodes_sent = s.got

LookupOK(l) ==
    /\ lookups[l].pc = "wait" => lookups[l].node \in Node
    /\ lookups[l].pc = "round" /\ lookups[l].left # {}
         => lookups[l].queries < Alpha
    /\ Agrees(l, table, lookups[l])

IInv ==
    /\ TypeOK
    /\ BucketsOK(table)
    /\ PingedStay /\ NonePinged
    /\ Proven /\ Served /\ ServerHasNode
    /\ BootnodeLeft
    /\ \A l \in Lookup : LookupOK(l)

LEMMA InitIInv == Init => IInv
<1> SUFFICES ASSUME Init PROVE IInv
  OBVIOUS
<1>1. EmptyTable \in KademliaTable
  <2>1. <<>> \in Seq(Node)
    BY Emptiness, ZenonT(60)
  <2> QED
    BY <2>1, NewPeerType DEF EmptyTable, KademliaTable
<1>2. TypeOK
  <2>1. Idle \in ServerState
    BY Emptiness, ZenonT(60) DEF Idle, ServerState, OptionNode, OptionPing
  <2>2. Len(Bootnodes) \in Nat
    BY DiscoveryAssumption, Indexed, ZenonT(60)
  <2>3. startup \in StartupState
    BY <2>2 DEF Init, StartupState, OptionPing
  <2>4. reval \in RevalState
    BY ZenonT(60) DEF Init, RevalState, OptionPing, OptionNode
  <2>5. Resting \in LookupState
    BY DiscoveryAssumption, KademliaAssumption DEF Resting, LookupState, OptionNode
  <2> QED
    BY <1>1, <2>1, <2>3, <2>4, <2>5 DEF Init, TypeOK
<1>3. BucketsOK(table)
  <2>1. ASSUME NEW i \in Bucket
        PROVE  /\ Cardinality(PeersOf(table, i)) <= MAX_NODES_PER_BUCKET
               /\ SpareOK(table.replacements[i], i, table.peers)
    <3>1. PeersOf(table, i) = {} /\ table.replacements[i] = <<>>
      BY DEF Init, EmptyTable, PeersOf
    <3>2. Cardinality({}) = 0
      BY FS_EmptySet
    <3>3. SpareOK(<<>>, i, table.peers)
      BY Emptiness, KademliaAssumption DEF SpareOK
    <3> QED
      BY <3>1, <3>2, <3>3, KademliaAssumption
  <2> QED
    BY <2>1 DEF BucketsOK
<1>4. PingedStay /\ NonePinged /\ Served /\ ServerHasNode /\ BootnodeLeft
  BY ZenonT(60) DEF Init, PingedStay, NonePinged, Served, ServerHasNode, BootnodeLeft, Idle
<1>5. Proven
  BY DEF Init, Proven, EmptyTable, NewPeer
<1>6. \A l \in Lookup : LookupOK(l)
  BY ZenonT(60) DEF Init, LookupOK, Agrees, Resting
<1> QED
  BY <1>2, <1>3, <1>4, <1>5, <1>6, ZenonT(60) DEF IInv

-----------------------------------------------------------------------------
(***************************************************************************)
(* What the rest of the invariant needs from a step of the table.          *)
(***************************************************************************)
LEMMA TableStep ==
  ASSUME IInv, NEW gone, Keeps(table, table', gone, responded),
         responded \subseteq responded'
  PROVE  /\ table' \in KademliaTable /\ BucketsOK(table)' /\ Proven'
         /\ table.peers \ gone \subseteq table'.peers
         /\ \A l \in Lookup : lookups'[l] = lookups[l] => LookupOK(l)'
<1>1. /\ table' \in KademliaTable /\ BucketsOK(table)'
      /\ table.peers \ gone \subseteq table'.peers
  BY DEF Keeps, BucketsOK, PeersOf
<1>2. Proven'
  BY ZenonT(60) DEF Keeps, IInv, Proven
<1>3. ASSUME NEW l \in Lookup, lookups'[l] = lookups[l]
      PROVE  LookupOK(l)'
  <2>1. LookupOK(l)
    BY DEF IInv
  <2> QED
    BY <1>3, <2>1, ZenonT(60) DEF LookupOK, Agrees, Keeps, SameRequest
<1> QED
  BY <1>1, <1>2, <1>3, ZenonT(60)

\* A step that leaves the revalidation and the lookups alone.
LEMMA QuietStep ==
  ASSUME IInv, Keeps(table, table', {}, responded),
         UNCHANGED <<reval, lookups>>,
         server' \in ServerState, ServerHasNode', Served',
         startup' \in StartupState, BootnodeLeft',
         pings' \subseteq Node \X Ping,
         responded \subseteq responded', responded' \subseteq Node,
         replied' \subseteq Node
  PROVE  IInv'
<1>1. /\ table' \in KademliaTable /\ BucketsOK(table)' /\ Proven'
      /\ table.peers \subseteq table'.peers
      /\ \A l \in Lookup : LookupOK(l)'
  BY TableStep
<1>2. PingedStay' /\ NonePinged'
  BY <1>1, ZenonT(60) DEF IInv, PingedStay, NonePinged
<1>3. TypeOK'
  BY <1>1 DEF IInv, TypeOK
<1> QED
  BY <1>1, <1>2, <1>3, ZenonT(60) DEF IInv

\* A ping goes to a node.
LEMMA SentType ==
  ASSUME NEW n \in Node, NEW h \in OptionPing, pings \subseteq Node \X Ping
  PROVE  pings \cup Sent(n, h) \subseteq Node \X Ping
  BY DEF Sent, OptionPing

LEMMA IdleType == Idle \in ServerState
  BY Emptiness, ZenonT(60) DEF Idle, ServerState, OptionNode, OptionPing

LEMMA RequestType ==
  ASSUME NEW t \in KademliaTable, NEW n \in Node
  PROVE  /\ t.data[n] \in PeerData
         /\ t.data[n].find_node_request # None
              => t.data[n].find_node_request \in FindNodeRequests
  BY ZenonT(60) DEF KademliaTable, PeerData

-----------------------------------------------------------------------------
(***************************************************************************)
(* The server.                                                             *)
(***************************************************************************)
LEMMA ServeStep ==
  ASSUME IInv, Serve
  PROVE  IInv'
<1>1. /\ table \in KademliaTable /\ BucketsOK(table) /\ server \in ServerState
      /\ pings \subseteq Node \X Ping
      /\ ServerHasNode /\ Served
  BY ZenonT(60) DEF IInv, TypeOK
<1>2. SUFFICES /\ Keeps(table, table', {}, responded)
               /\ server' \in ServerState /\ ServerHasNode' /\ Served'
               /\ pings' \subseteq Node \X Ping
  <2>1. UNCHANGED <<startup, reval, lookups, responded, replied>>
    BY ZenonT(60) DEF Serve, ServerInsert, ServerUpdate, ServerPong, ServerNeighbors,
           NeighborsDone, ServerPing, ServerInsertNeighbor
  <2>2. /\ startup' \in StartupState /\ BootnodeLeft'
        /\ responded \subseteq responded' /\ responded' \subseteq Node
        /\ replied' \subseteq Node
    BY <2>1 DEF IInv, TypeOK, BootnodeLeft
  <2> QED
    BY <1>2, <2>1, <2>2, QuietStep, ZenonT(60)
<1>3. server' = Idle => server' \in ServerState /\ ServerHasNode' /\ Served'
  BY IdleType DEF ServerHasNode, Served, Idle
<1>4. table' = table => Keeps(table, table', {}, responded)
  BY <1>1, KeepsReflexive
<1>5. CASE ServerInsert
  <2>1. server.node \in Node
    BY <1>1, <1>5, ZenonT(60) DEF ServerInsert, ServerHasNode
  <2>2. Keeps(table, table', {}, responded)
    BY <1>1, <1>5, <2>1, InsertNodeKeeps, ZenonT(60) DEF ServerInsert
  <2>3. /\ server' \in ServerState /\ server'.node = server.node
        /\ server'.pc \in {"ping", "ping_only"}
    BY <1>1, <1>5, ZenonT(60) DEF ServerInsert, ServerState
  <2> QED
    BY <1>1, <1>5, <2>1, <2>2, <2>3, ZenonT(60) DEF ServerInsert, ServerHasNode, Served
<1>6. CASE ServerUpdate
  <2>1. server.node \in Node /\ server.hash \in OptionPing
    BY <1>1, <1>6 DEF ServerUpdate, ServerHasNode, ServerState
  <2>2. Keeps(table, table', {}, responded)
    BY <1>1, <1>6, <2>1, UpdatePingKeeps, ZenonT(60) DEF ServerUpdate
  <2> QED
    BY <1>1, <1>3, <1>6, <2>2, ZenonT(60) DEF ServerUpdate
<1>7. CASE ServerPong
  <2>1. server.node \in Node /\ server.node \in responded
    BY <1>1, <1>7 DEF ServerPong, ServerHasNode, Served
  <2>2. Keeps(table, table', {}, responded)
    BY <1>1, <1>7, <2>1, PongKeeps, ZenonT(60) DEF ServerPong
  <2> QED
    BY <1>1, <1>3, <1>7, <2>2 DEF ServerPong
<1>8. CASE ServerNeighbors \/ NeighborsDone
  BY <1>1, <1>3, <1>4, <1>8, ZenonT(60) DEF ServerNeighbors, NeighborsDone
<1>9. ASSUME NEW h \in OptionPing, ServerPing(h)
      PROVE  /\ Keeps(table, table', {}, responded)
             /\ server' \in ServerState /\ ServerHasNode' /\ Served'
             /\ pings' \subseteq Node \X Ping
  <2>1. server.node \in Node /\ table' = table
    BY <1>1, <1>9 DEF ServerPing, ServerHasNode
  <2>2. pings' \subseteq Node \X Ping
    BY <1>1, <1>9, <2>1, SentType DEF ServerPing
  <2>3. server' = Idle \/ server' = [server EXCEPT !.pc = "update", !.hash = h]
    BY <1>9 DEF ServerPing
  <2>4. server' # Idle => server' \in ServerState /\ ServerHasNode' /\ Served'
    BY <1>1, <2>1, <2>3, ZenonT(60) DEF ServerState, ServerHasNode, Served
  <2> QED
    BY <1>3, <1>4, <2>1, <2>2, <2>4
<1>10. ASSUME NEW h \in OptionPing, ServerInsertNeighbor(h)
       PROVE  /\ Keeps(table, table', {}, responded)
              /\ server' \in ServerState /\ ServerHasNode' /\ Served'
              /\ pings' \subseteq Node \X Ping
  <2> DEFINE n == Head(server.rest)
             t == insert_node(table, n)
  <2>1. server.rest \in Seq(Node) /\ server.rest # <<>>
    BY <1>1, <1>10 DEF ServerInsertNeighbor, ServerState
  <2>2. n \in Node /\ Tail(server.rest) \in Seq(Node)
    BY <2>1, HeadAndTail
  <2>3. Keeps(table, t, {}, responded)
    BY <1>1, <2>2, InsertNodeKeeps
  <2>4. /\ table' = t \/ table' = update_peer_ping(t, n, h)
        /\ pings' = pings \/ pings' = pings \cup Sent(n, h)
    BY <1>10 DEF ServerInsertNeighbor
  <2> HIDE DEF n, t
  <2>5. Keeps(t, update_peer_ping(t, n, h), {}, responded)
    BY <2>2, <2>3, UpdatePingKeeps, ZenonT(60) DEF Keeps
  <2>6. Keeps(table, table', {}, responded)
    BY <2>3, <2>4, <2>5, KeepsTransitive, ZenonT(60)
  <2>7. pings' \subseteq Node \X Ping
    BY <1>1, <2>2, <2>4, SentType
  <2>8. server' = [server EXCEPT !.rest = Tail(server.rest)]
    BY <1>10 DEF ServerInsertNeighbor
  <2>9. server.pc = "neighbors"
    BY <1>10 DEF ServerInsertNeighbor
  <2>10. server' \in ServerState /\ server'.pc = "neighbors"
    BY <1>1, <2>2, <2>8, <2>9, ZenonT(60) DEF ServerState
  <2> QED
    BY <2>6, <2>7, <2>10 DEF ServerHasNode, Served
<1> QED
  BY <1>5, <1>6, <1>7, <1>8, <1>9, <1>10 DEF Serve

\* A step that only changes what is known about one peer.
LEMMA PeerStep ==
  ASSUME IInv, NEW n \in Node, NEW p \in PeerData,
         p.is_proven => table.data[n].is_proven,
         SameRequest(table.data[n].find_node_request, p.find_node_request),
         table' = [table EXCEPT !.data[n] = p],
         UNCHANGED <<server, startup, reval, lookups, pings, responded, replied>>
  PROVE  IInv'
<1>1. table \in KademliaTable /\ BucketsOK(table)
  BY DEF IInv, TypeOK
<1>2. Keeps(table, table', {}, responded)
  BY <1>1, PeerKeeps
<1> QED
  BY <1>2, QuietStep DEF IInv, TypeOK, ServerHasNode, Served, BootnodeLeft

LEMMA RecvNeighborsStep ==
  ASSUME IInv, NEW n \in Node, NEW nodes \in Neighbors, RecvNeighbors(n, nodes)
  PROVE  IInv'
<1>1. /\ table \in KademliaTable /\ BucketsOK(table)
      /\ lookups \in [Lookup -> LookupState] /\ table.data \in [Node -> PeerData]
      /\ table.data[n] \in PeerData
  BY ZenonT(60) DEF IInv, TypeOK, KademliaTable
<1>2. PICK req \in FindNodeRequests : req = table.data[n].find_node_request
  BY <1>1, RequestType, ZenonT(60) DEF RecvNeighbors
<1>3. PICK l \in Lookup : l = req.tx
  BY <1>2 DEF FindNodeRequests
<1>4. /\ nodes \in Seq(Node) /\ Len(nodes) \in Nat /\ Elements(nodes) \subseteq Node
  <2>1. nodes \in Seq(Node)
    BY DiscoveryAssumption
  <2>2. \A k \in DOMAIN nodes : nodes[k] \in Node
    BY <2>1, Indexed, ElementOf
  <2> QED
    BY <2>1, <2>2, Indexed DEF Elements
<1>5. PICK sent \in 0 .. MAX_NODES_PER_BUCKET :
        /\ sent = Counted(req, nodes) /\ sent = req.nodes_sent + Len(nodes)
  <2>1. Counted(req, nodes) = req.nodes_sent + Len(nodes)
    BY DEF Counted
  <2>2. req.nodes_sent \in 0 .. MAX_NODES_PER_BUCKET
    BY <1>2 DEF FindNodeRequests
  <2>3. Counted(req, nodes) <= MAX_NODES_PER_BUCKET
    BY <1>2, ZenonT(60) DEF RecvNeighbors
  <2> QED
    BY <1>4, <2>1, <2>2, <2>3, KademliaAssumption
<1>6. PICK new : new = IF sent = MAX_NODES_PER_BUCKET THEN None
                       ELSE [req EXCEPT !.nodes_sent = sent]
  BY ZenonT(60)
<1>7. /\ new \in FindNodeRequests \cup {None}
      /\ new # None => new.tx = l /\ new.nodes_sent = sent
  BY <1>2, <1>3, <1>6 DEF FindNodeRequests
<1>8. PICK p : p = [table.data[n] EXCEPT !.find_node_request = new]
  BY ZenonT(60)
<1>9. /\ p \in PeerData
      /\ p.is_proven = table.data[n].is_proven /\ p.find_node_request = new
  BY <1>1, <1>7, <1>8 DEF PeerData
<1>10. PICK waiting \in BOOLEAN :
         waiting <=> lookups[l].pc = "wait" /\ lookups[l].node = n
  BY ZenonT(60)
<1>11. /\ table' = [table EXCEPT !.data[n] = p]
       /\ lookups' = IF waiting
                     THEN [lookups EXCEPT ![l].got = @ + Len(nodes),
                                          ![l].found = @ \cup Elements(nodes)]
                     ELSE lookups
       /\ server' = [Idle EXCEPT !.pc = "neighbors", !.rest = nodes]
       /\ UNCHANGED <<startup, reval, pings, responded, replied>>
  <2>1. table' = [table EXCEPT !.data[n].find_node_request = new]
    BY <1>2, <1>5, <1>6, ZenonT(60) DEF RecvNeighbors
  <2>2. table' = [table EXCEPT !.data[n] = p]
    BY <1>1, <1>8, <2>1 DEF KademliaTable
  <2> QED
    BY <1>2, <1>3, <1>10, <2>2, ZenonT(60) DEF RecvNeighbors
<1>12. /\ table' \in KademliaTable /\ BucketsOK(table)'
       /\ table'.peers = table.peers /\ table'.data = [table.data EXCEPT ![n] = p]
  <2>1. PICK u : u = [table EXCEPT !.data[n] = p]
    BY ZenonT(60)
  <2>2. /\ u \in KademliaTable /\ BucketsOK(u)
        /\ u.peers = table.peers /\ u.data = [table.data EXCEPT ![n] = p]
    BY <1>1, <1>9, <2>1, DataStep
  <2>3. table' = u
    BY <1>11, <2>1
  <2> QED
    BY <2>2, <2>3 DEF BucketsOK, PeersOf
<1>13. waiting => lookups[l].got = req.nodes_sent
  BY <1>2, <1>3, <1>10, KademliaAssumption, ZenonT(60) DEF IInv, LookupOK, Agrees, RecvNeighbors
<1>14. waiting => \E s \in LookupState :
                    /\ s.got = sent /\ s.node = n /\ s.pc = "wait"
                    /\ lookups' = [lookups EXCEPT ![l] = s]
  <2> SUFFICES ASSUME waiting
               PROVE  \E s \in LookupState :
                        /\ s.got = sent /\ s.node = n /\ s.pc = "wait"
                        /\ lookups' = [lookups EXCEPT ![l] = s]
    OBVIOUS
  <2>1. lookups[l] \in LookupState
    BY <1>1
  <2>2. PICK found \in SUBSET Node : found = lookups[l].found \cup Elements(nodes)
    BY <1>4, <2>1, ZenonT(60) DEF LookupState
  <2>3. lookups[l].got + Len(nodes) = sent
    BY <1>5, <1>13
  <2>4. PICK s : s = [lookups[l] EXCEPT !.got = sent, !.found = found]
    OBVIOUS
  <2>5. lookups' = [lookups EXCEPT ![l] = s]
    BY <1>1, <1>11, <2>2, <2>3, <2>4, ZenonT(60)
  <2>6. s \in LookupState /\ s.got = sent /\ s.node = n /\ s.pc = "wait"
    BY <1>10, <2>1, <2>4, ZenonT(60) DEF LookupState
  <2> QED
    BY <2>5, <2>6, ZenonT(60)
<1>15. lookups' \in [Lookup -> LookupState]
  BY <1>1, <1>11, <1>14, ZenonT(60)
<1>16. ASSUME NEW k \in Lookup
       PROVE  LookupOK(k)'
  <2>1. LookupOK(k)
    BY DEF IInv
  <2>2. \A m \in Node : IF m = n THEN table'.data[m].find_node_request = new
                        ELSE table'.data[m] = table.data[m]
    BY <1>1, <1>9, <1>12
  <2>3. CASE waiting /\ k = l
    <3>1. lookups'[k].got = sent /\ lookups'[k].node = n /\ lookups'[k].pc = "wait"
      BY <1>1, <1>14, <2>3
    <3> QED
      BY <1>7, <2>2, <3>1 DEF LookupOK, Agrees
  <2>4. CASE ~(waiting /\ k = l)
    <3>1. lookups'[k] = lookups[k]
      BY <1>1, <1>11, <1>14, <2>4
    <3>2. lookups[k].pc = "wait" /\ lookups[k].node = n => k # l
      BY <1>10, <2>4
    <3> QED
      BY <1>7, <2>1, <2>2, <3>1, <3>2, ZenonT(60) DEF LookupOK, Agrees
  <2> QED
    BY <2>3, <2>4
<1>17. /\ server' \in ServerState /\ ServerHasNode' /\ Served'
  BY <1>4, <1>11, ZenonT(60) DEF Idle, ServerState, OptionNode, OptionPing, ServerHasNode, Served
<1>18. Proven' /\ PingedStay' /\ NonePinged' /\ BootnodeLeft'
  BY <1>1, <1>9, <1>11, <1>12 DEF IInv, Proven, PingedStay, NonePinged, BootnodeLeft
<1>19. TypeOK'
  BY <1>11, <1>12, <1>15, <1>17 DEF IInv, TypeOK
<1> QED
  BY <1>12, <1>16, <1>17, <1>18, <1>19, ZenonT(60) DEF IInv

LEMMA ReceiveStep ==
  ASSUME IInv, Receive
  PROVE  IInv'
<1>1. PICK n \in Node :
        \/ RecvPing(n) \/ RecvFindNode(n) \/ NeighborsLate(n)
        \/ \E h \in OptionPing : RecvPong(n, h)
        \/ \E nodes \in Neighbors : RecvNeighbors(n, nodes)
  BY DEF Receive
<1>2. /\ table \in KademliaTable /\ BucketsOK(table) /\ server \in ServerState
      /\ pings \subseteq Node \X Ping /\ responded \subseteq Node
      /\ replied \subseteq Node
      /\ startup \in StartupState /\ BootnodeLeft /\ Proven
      /\ ServerHasNode /\ Served
  BY DEF IInv, TypeOK
<1>3. Keeps(table, table, {}, responded)
  BY <1>2, KeepsReflexive
<1>4. \A pc \in {"ping", "insert", "pong", "closest"} :
        [Idle EXCEPT !.pc = pc, !.node = n] \in ServerState
  BY Emptiness, ZenonT(60) DEF Idle, ServerState, OptionNode, OptionPing
<1>5. CASE RecvPing(n)
  <2>1. server'.pc \in {"ping", "insert"} /\ server'.node = n /\ server' \in ServerState
    BY <1>4, <1>5, ZenonT(60) DEF RecvPing, Idle
  <2> QED
    BY <1>2, <1>3, <1>5, <2>1, QuietStep
       DEF RecvPing, ServerHasNode, Served, BootnodeLeft
<1>6. CASE RecvFindNode(n)
  <2>1. server'.pc = "closest" /\ server'.node = n /\ server' \in ServerState
    BY <1>4, <1>6 DEF RecvFindNode, Idle
  <2>2. n \in responded
    BY <1>2, <1>6 DEF RecvFindNode, Proven
  <2> QED
    BY <1>2, <1>3, <1>6, <2>1, <2>2, QuietStep
       DEF RecvFindNode, ServerHasNode, Served, BootnodeLeft
<1>7. CASE NeighborsLate(n)
  <2> DEFINE p == [table.data[n] EXCEPT !.find_node_request = None]
  <2>1. /\ p \in PeerData /\ p.is_proven = table.data[n].is_proven
        /\ p.find_node_request = None
    BY <1>2, RequestType DEF PeerData
  <2>2. table' = [table EXCEPT !.data[n] = p]
    BY <1>2, <1>7 DEF NeighborsLate, KademliaTable
  <2> HIDE DEF p
  <2> QED
    BY <1>7, <2>1, <2>2, PeerStep DEF NeighborsLate, SameRequest
<1>8. ASSUME NEW h \in OptionPing, RecvPong(n, h)
      PROVE  IInv'
  <2>1. /\ responded' = IF h # None THEN responded \cup {n} ELSE responded
        /\ replied' \subseteq Node
        /\ UNCHANGED <<table, startup, reval, lookups, pings>>
    BY <1>2, <1>8 DEF RecvPong
  <2>2. CASE PongMatches(n, h)
    <3>1. server'.pc = "pong" /\ server'.node = n /\ server' \in ServerState
      BY <1>4, <1>8, <2>2 DEF RecvPong, Idle
    <3>2. n \in responded'
      BY <2>1, <2>2 DEF PongMatches
    <3> QED
      BY <1>2, <1>3, <2>1, <3>1, <3>2, QuietStep
         DEF ServerHasNode, Served, BootnodeLeft
  <2>3. CASE ~PongMatches(n, h)
    <3>1. server' = server
      BY <1>8, <2>3 DEF RecvPong
    <3> QED
      BY <1>2, <1>3, <2>1, <3>1, QuietStep
         DEF ServerHasNode, Served, BootnodeLeft
  <2> QED
    BY <2>2, <2>3
<1> QED
  BY <1>1, <1>5, <1>6, <1>7, <1>8, RecvNeighborsStep

LEMMA PassingStep ==
  ASSUME IInv, Passing
  PROVE  IInv'
<1>1. PICK n \in Node : ProofAges(n) \/ RequestAges(n) \/ \E h \in Ping : PingLost(n, h)
  BY DEF Passing
<1>2. /\ table \in KademliaTable /\ BucketsOK(table) /\ table.data[n] \in PeerData
  BY RequestType DEF IInv, TypeOK
<1>3. CASE ProofAges(n)
  <2> DEFINE p == [table.data[n] EXCEPT !.aged = TRUE]
  <2>1. /\ p \in PeerData /\ p.is_proven = table.data[n].is_proven
        /\ p.find_node_request = table.data[n].find_node_request
    BY <1>2, ZenonT(60) DEF PeerData
  <2>2. table' = [table EXCEPT !.data[n] = p]
    BY <1>2, <1>3 DEF ProofAges, KademliaTable
  <2> HIDE DEF p
  <2> QED
    BY <1>3, <2>1, <2>2, PeerStep, ZenonT(60) DEF ProofAges, SameRequest
<1>4. CASE RequestAges(n)
  <2> DEFINE req == table.data[n].find_node_request
             new == [req EXCEPT !.expired = TRUE]
             p == [table.data[n] EXCEPT !.find_node_request = new]
  <2>1. req \in FindNodeRequests /\ req # None
    BY <1>2, <1>4, RequestType DEF RequestAges
  <2>2. new \in FindNodeRequests /\ new.tx = req.tx /\ new.nodes_sent = req.nodes_sent
    BY <2>1, ZenonT(60) DEF FindNodeRequests
  <2>3. table' = [table EXCEPT !.data[n] = p]
    BY <1>2, <1>4 DEF RequestAges, KademliaTable, PeerData
  <2> HIDE DEF new
  <2>4. /\ p \in PeerData /\ p.is_proven = table.data[n].is_proven
        /\ p.find_node_request = new
    BY <1>2, <2>2, ZenonT(60) DEF PeerData
  <2> HIDE DEF p
  <2> QED
    BY <1>4, <2>1, <2>2, <2>3, <2>4, PeerStep, ZenonT(60) DEF RequestAges, SameRequest
<1>5. ASSUME NEW h \in Ping, PingLost(n, h)
      PROVE  IInv'
  <2>1. Keeps(table, table, {}, responded)
    BY <1>2, KeepsReflexive
  <2> QED
    BY <1>5, <2>1, QuietStep
       DEF PingLost, IInv, TypeOK, ServerHasNode, Served, BootnodeLeft
<1> QED
  BY <1>1, <1>3, <1>4, <1>5

-----------------------------------------------------------------------------
(***************************************************************************)
(* The start-up and the revalidation.                                      *)
(***************************************************************************)
LEMMA StartupStep ==
  ASSUME IInv, Startup
  PROVE  IInv'
<1>1. /\ table \in KademliaTable /\ BucketsOK(table) /\ startup \in StartupState
      /\ pings \subseteq Node \X Ping /\ BootnodeLeft
  BY DEF IInv, TypeOK
<1>2. SUFFICES /\ Keeps(table, table', {}, responded)
               /\ startup' \in StartupState /\ BootnodeLeft'
               /\ pings' \subseteq Node \X Ping
  <2>1. UNCHANGED <<server, reval, lookups, responded, replied>>
    BY ZenonT(60) DEF Startup, StartupInsert, StartupUpdate, StartupPing
  <2>2. /\ server' \in ServerState /\ ServerHasNode' /\ Served'
        /\ responded \subseteq responded' /\ responded' \subseteq Node
        /\ replied' \subseteq Node
    BY <2>1 DEF IInv, TypeOK, ServerHasNode, Served
  <2> QED
    BY <1>2, <2>1, <2>2, QuietStep
<1>3. Len(Bootnodes) \in Nat /\ startup.next \in 1 .. Len(Bootnodes) + 1
  BY <1>1, DiscoveryAssumption, Indexed DEF StartupState
<1>4. startup.next <= Len(Bootnodes) => Bootnodes[startup.next] \in Node
  BY <1>3, DiscoveryAssumption, ElementOf
<1>5. CASE StartupInsert
  <2>1. Keeps(table, table', {}, responded)
    BY <1>1, <1>4, <1>5, InsertNodeKeeps DEF StartupInsert
  <2> QED
    BY <1>1, <1>5, <2>1 DEF StartupInsert, StartupState, BootnodeLeft
<1>6. CASE StartupUpdate
  <2>1. startup.next <= Len(Bootnodes) /\ startup.hash \in OptionPing
    BY <1>1, <1>6 DEF StartupUpdate, BootnodeLeft, StartupState
  <2>2. Keeps(table, table', {}, responded)
    BY <1>1, <1>4, <1>6, <2>1, UpdatePingKeeps, ZenonT(60) DEF StartupUpdate
  <2>3. startup' \in StartupState /\ startup'.pc = "insert"
    BY <1>3, <1>6, <2>1 DEF StartupUpdate, StartupState, OptionPing
  <2> QED
    BY <1>1, <1>6, <2>2, <2>3 DEF StartupUpdate, BootnodeLeft
<1>7. ASSUME NEW h \in OptionPing, StartupPing(h)
      PROVE  /\ Keeps(table, table', {}, responded)
             /\ startup' \in StartupState /\ BootnodeLeft'
             /\ pings' \subseteq Node \X Ping
  <2>1. startup.next <= Len(Bootnodes)
    BY <1>1, <1>7 DEF StartupPing, BootnodeLeft
  <2>2. pings' \subseteq Node \X Ping
    BY <1>1, <1>4, <1>7, <2>1, SentType DEF StartupPing
  <2>3. startup' \in StartupState /\ BootnodeLeft'
    BY <1>1, <1>7, <2>1, ZenonT(60) DEF StartupPing, StartupState, BootnodeLeft
  <2>4. Keeps(table, table', {}, responded)
    BY <1>1, <1>7, KeepsReflexive DEF StartupPing
  <2> QED
    BY <2>2, <2>3, <2>4
<1> QED
  BY <1>5, <1>6, <1>7 DEF Startup

\* What a step of the revalidation has to show.
LEMMA RevalStep ==
  ASSUME IInv, NEW gone, Keeps(table, table', gone, responded),
         UNCHANGED <<server, startup, lookups, responded>>,
         reval' \in RevalState, NonePinged',
         reval'.todo \cup reval'.pinged \subseteq table.peers \ gone,
         reval'.pc = "mark" => reval'.node \in table.peers \ gone,
         pings' \subseteq Node \X Ping, replied' \subseteq Node
  PROVE  IInv'
<1>1. /\ table' \in KademliaTable /\ BucketsOK(table)' /\ Proven'
      /\ table.peers \ gone \subseteq table'.peers
      /\ \A l \in Lookup : LookupOK(l)'
  BY TableStep, ZenonT(60)
<1>2. PingedStay'
  BY <1>1 DEF PingedStay
<1>3. Served' /\ ServerHasNode' /\ BootnodeLeft'
  BY DEF IInv, Served, ServerHasNode, BootnodeLeft
<1>4. TypeOK'
  BY <1>1 DEF IInv, TypeOK
<1> QED
  BY <1>1, <1>2, <1>3, <1>4, ZenonT(60) DEF IInv

LEMMA RevalidateStep ==
  ASSUME IInv, Revalidate
  PROVE  IInv'
<1>1. /\ table \in KademliaTable /\ BucketsOK(table) /\ reval \in RevalState
      /\ pings \subseteq Node \X Ping /\ replied \subseteq Node
      /\ PingedStay /\ NonePinged
  BY DEF IInv, TypeOK
<1>2. Keeps(table, table, {}, responded)
  BY <1>1, KeepsReflexive
<1>3. CASE RevalTick \/ RevalDone
  <2>1. /\ reval' \in RevalState /\ NonePinged'
        /\ reval'.todo \cup reval'.pinged \subseteq table.peers
        /\ reval'.pc # "mark"
    BY <1>1, <1>3, ZenonT(60) DEF RevalTick, RevalDone, RevalState, NonePinged, PingedStay
  <2> QED
    BY <1>1, <1>2, <1>3, <2>1, RevalStep DEF RevalTick, RevalDone
<1>4. CASE RevalMark
  <2>1. reval.node \in table.peers /\ reval.node \in Node /\ reval.hash \in OptionPing
    BY <1>1, <1>4 DEF RevalMark, PingedStay, KademliaTable, RevalState
  <2>2. Keeps(table, table', {}, responded)
    BY <1>1, <1>4, <2>1, UpdateRevalidationKeeps DEF RevalMark
  <2>3. /\ reval' \in RevalState /\ NonePinged'
        /\ reval'.todo \cup reval'.pinged \subseteq table.peers
        /\ reval'.pc = "ping"
    BY <1>1, <1>4, <2>1, ZenonT(60)
       DEF RevalMark, RevalState, NonePinged, PingedStay, OptionNode, OptionPing
  <2> QED
    BY <1>1, <1>4, <2>2, <2>3, RevalStep DEF RevalMark
<1>5. ASSUME NEW s \in SUBSET Node, SelectPeers(s)
      PROVE  IInv'
  <2>1. /\ reval' \in RevalState /\ NonePinged' /\ reval'.pc = "ping"
        /\ reval'.todo \cup reval'.pinged \subseteq table.peers
    BY <1>1, <1>5, ZenonT(60) DEF SelectPeers, Selections, RevalState, NonePinged, PingedStay
  <2> QED
    BY <1>1, <1>2, <1>5, <2>1, RevalStep DEF SelectPeers
<1>6. ASSUME NEW n \in Node, CheckKept(n)
      PROVE  IInv'
  <2> DEFINE p == CheckedPeer(n)
  <2>1. table.data[n] \in PeerData
    BY <1>1, RequestType
  <2>2. checked_liveness(table.data[n]) \in 0 .. LivenessModulus - 1
    BY <2>1, LivenessType
  <2>3. /\ p \in PeerData /\ p.is_proven = table.data[n].is_proven
        /\ p.find_node_request = table.data[n].find_node_request
    BY <2>1, <2>2, ZenonT(60) DEF CheckedPeer, PeerData
  <2>4. Keeps(table, table', {}, responded)
    BY <1>1, <1>6, <2>3, PeerKeeps DEF CheckKept, SameRequest
  <2>5. /\ reval' \in RevalState /\ NonePinged' /\ reval'.pc = "check"
        /\ reval'.todo \cup reval'.pinged \subseteq table.peers
    BY <1>1, <1>6 DEF CheckKept, RevalState, NonePinged, PingedStay
  <2>6. replied' \subseteq Node
    BY <1>1, <1>6 DEF CheckKept
  <2> QED
    BY <1>1, <1>6, <2>4, <2>5, <2>6, RevalStep, ZenonT(60) DEF CheckKept
<1>7. ASSUME NEW n \in Node, NEW h \in OptionPing, CheckReplaced(n, h)
      PROVE  IInv'
  <2> DEFINE new == replacement_of(table, n)
             t == replace_peer(table, n)
  <2>1. n \in table.peers
    BY <1>1, <1>7, ZenonT(60) DEF CheckReplaced, PingedStay
  <2>2. Keeps(table, t, {n}, responded) /\ new \in OptionNode
    BY <1>1, <2>1, ReplaceKeeps
  <2>3. \/ table' = t /\ pings' = pings
        \/ /\ new # None /\ table' = update_peer_ping(t, new, h)
           /\ pings' = pings \cup Sent(new, h)
    BY <1>7 DEF CheckReplaced
  <2> HIDE DEF new, t
  <2>4. new # None => Keeps(t, update_peer_ping(t, new, h), {}, responded)
    BY <2>2, UpdatePingKeeps, ZenonT(60) DEF Keeps, OptionNode
  <2>5. Keeps(table, table', {n}, responded)
    BY <2>2, <2>3, <2>4, KeepsTransitive
  <2>6. pings' \subseteq Node \X Ping
    BY <1>1, <2>2, <2>3, SentType DEF OptionNode
  <2>7. /\ reval' \in RevalState /\ NonePinged' /\ reval'.pc = "check"
        /\ reval'.todo \cup reval'.pinged \subseteq table.peers \ {n}
    BY <1>1, <1>7 DEF CheckReplaced, RevalState, NonePinged, PingedStay
  <2>8. replied' \subseteq Node
    BY <1>1, <1>7 DEF CheckReplaced
  <2> QED
    BY <1>7, <2>5, <2>6, <2>7, <2>8, RevalStep, ZenonT(60) DEF CheckReplaced
<1>8. ASSUME NEW n \in Node, NEW h \in OptionPing, RevalPing(n, h)
      PROVE  IInv'
  <2>1. pings' \subseteq Node \X Ping
    BY <1>1, <1>8, SentType DEF RevalPing
  <2>2. /\ reval' \in RevalState /\ NonePinged'
        /\ reval'.todo \cup reval'.pinged \subseteq table.peers
        /\ reval'.node \in table.peers
    BY <1>1, <1>8, ZenonT(60) DEF RevalPing, RevalState, NonePinged, PingedStay, OptionNode
  <2>3. replied' \subseteq Node
    BY <1>1, <1>8 DEF RevalPing
  <2> QED
    BY <1>2, <1>8, <2>1, <2>2, <2>3, RevalStep DEF RevalPing
<1> QED
  BY <1>3, <1>4, <1>5, <1>6, <1>7, <1>8 DEF Revalidate

-----------------------------------------------------------------------------
(***************************************************************************)
(* The lookups.                                                            *)
(***************************************************************************)

\* A step of the lookups that leaves the table alone.
LEMMA LookupsStep ==
  ASSUME IInv, lookups' \in [Lookup -> LookupState],
         \A l \in Lookup :
            \/ lookups'[l] = lookups[l]
            \/ /\ lookups'[l].pc # "wait"
               /\ lookups'[l].pc = "round" /\ lookups'[l].left # {}
                    => lookups'[l].queries < Alpha,
         UNCHANGED <<table, server, startup, reval, pings, responded, replied>>
  PROVE  IInv'
<1>1. \A l \in Lookup : LookupOK(l)'
  BY ZenonT(60) DEF IInv, LookupOK, Agrees
<1>2. /\ BucketsOK(table)' /\ Proven' /\ PingedStay' /\ NonePinged' /\ Served'
      /\ ServerHasNode' /\ BootnodeLeft'
  BY ZenonT(60) DEF IInv, BucketsOK, PeersOf, Proven, PingedStay, NonePinged, Served,
         ServerHasNode, BootnodeLeft
<1>3. TypeOK'
  BY DEF IInv, TypeOK
<1> QED
  BY <1>1, <1>2, <1>3, ZenonT(60) DEF IInv

LEMMA RestingType == Resting \in LookupState
  BY DiscoveryAssumption, KademliaAssumption DEF Resting, LookupState, OptionNode

LEMMA AskPeerStep ==
  ASSUME IInv, NEW l \in Lookup, NEW n \in Node, AskPeer(l, n)
  PROVE  IInv'
<1> DEFINE req == [nodes_sent |-> 0, expired |-> FALSE, tx |-> l]
           p == [table.data[n] EXCEPT !.find_node_request = req]
           left == lookups[l].left \ {n}
           asked == lookups[l].asked \cup {n}
           queries == lookups[l].queries + 1
           s == [lookups[l] EXCEPT !.pc = "wait", !.left = left,
                   !.asked = asked, !.queries = queries, !.node = n, !.got = 0]
<1>1. /\ table \in KademliaTable /\ BucketsOK(table)
      /\ lookups \in [Lookup -> LookupState] /\ table.data \in [Node -> PeerData]
  BY DEF IInv, TypeOK, KademliaTable
<1>2. req \in FindNodeRequests
  BY KademliaAssumption DEF FindNodeRequests
<1>3. /\ p \in PeerData /\ p.is_proven = table.data[n].is_proven
      /\ p.find_node_request = req
  BY <1>1, <1>2, ZenonT(60) DEF PeerData
<1>4. /\ table' = [table EXCEPT !.data[n] = p]
      /\ lookups' = [lookups EXCEPT ![l] = s]
      /\ UNCHANGED <<server, startup, reval, pings, responded, replied>>
  BY <1>1, ZenonT(60) DEF AskPeer, KademliaTable
<1>5. s \in LookupState /\ s.pc = "wait" /\ s.node = n /\ s.got = 0
  <2>1. lookups[l] \in LookupState
    BY <1>1
  <2>2. lookups[l].queries < Alpha
    BY DEF IInv, LookupOK, AskPeer
  <2>3. lookups[l].queries \in 0 .. Alpha
    BY <2>1 DEF LookupState
  <2>4. queries \in 0 .. Alpha
    BY <2>2, <2>3, DiscoveryAssumption
  <2>5. left \in SUBSET Node /\ asked \in SUBSET Node
    BY <2>1 DEF LookupState
  <2>6. 0 \in 0 .. MAX_NODES_PER_BUCKET /\ n \in OptionNode
    BY KademliaAssumption DEF OptionNode
  <2> HIDE DEF left
  <2> HIDE DEF asked
  <2> HIDE DEF queries
  <2> QED
    BY <2>1, <2>4, <2>5, <2>6, ZenonT(60) DEF LookupState
<1> HIDE DEF s
<1> HIDE DEF p
<1>6. /\ table' \in KademliaTable /\ BucketsOK(table)'
      /\ table'.peers = table.peers /\ table'.data = [table.data EXCEPT ![n] = p]
  <2> DEFINE u == [table EXCEPT !.data[n] = p]
  <2>1. /\ u \in KademliaTable /\ BucketsOK(u)
        /\ u.peers = table.peers /\ u.data = [table.data EXCEPT ![n] = p]
    BY <1>1, <1>3, DataStep
  <2> HIDE DEF u
  <2>2. table' = u
    BY <1>4 DEF u
  <2> QED
    BY <2>1, <2>2 DEF BucketsOK, PeersOf
<1>7. ASSUME NEW k \in Lookup
      PROVE  LookupOK(k)'
  <2>1. CASE k = l
    BY <1>1, <1>3, <1>4, <1>5, <1>6, <2>1 DEF LookupOK, Agrees
  <2>2. CASE k # l
    <3>1. LookupOK(k) /\ lookups'[k] = lookups[k]
      BY <1>1, <1>4, <2>2, ZenonT(60) DEF IInv
    <3>2. \A m \in Node : IF m = n THEN table'.data[m].find_node_request.tx = l
                          ELSE table'.data[m] = table.data[m]
      BY <1>1, <1>3, <1>6
    <3> QED
      BY <2>2, <3>1, <3>2, ZenonT(60) DEF LookupOK, Agrees
  <2> QED
    BY <2>1, <2>2, ZenonT(60)
<1>8. /\ Proven' /\ PingedStay' /\ NonePinged' /\ Served' /\ ServerHasNode'
      /\ BootnodeLeft'
  BY <1>1, <1>3, <1>4, <1>6 DEF IInv, Proven, PingedStay, NonePinged, Served,
     ServerHasNode, BootnodeLeft
<1>9. TypeOK'
  BY <1>1, <1>4, <1>5, <1>6 DEF IInv, TypeOK
<1> QED
  BY <1>6, <1>7, <1>8, <1>9, ZenonT(60) DEF IInv

LEMMA LookupStepKeeps ==
  ASSUME IInv, NEW l \in Lookup, LookupStep(l)
  PROVE  IInv'
<1>1. lookups \in [Lookup -> LookupState] /\ lookups[l] \in LookupState
      /\ LookupOK(l)
  BY DEF IInv, TypeOK
<1>2. ASSUME NEW s \in LookupState, lookups' = [lookups EXCEPT ![l] = s],
             s.pc # "wait",
             s.pc = "round" /\ s.left # {} => s.queries < Alpha,
             UNCHANGED <<table, server, startup, reval, pings, responded, replied>>
      PROVE  IInv'
  BY <1>1, <1>2, LookupsStep, ZenonT(60)
<1>3. CASE WaitEnds(l)
  <2> DEFINE left == IF lookups[l].queries = Alpha THEN {} ELSE lookups[l].left
             s == [lookups[l] EXCEPT !.pc = "round", !.node = None, !.left = left]
  <2>1. lookups' = [lookups EXCEPT ![l] = s]
    BY <1>1, <1>3, ZenonT(60) DEF WaitEnds
  <2>2. s \in LookupState /\ s.queries = lookups[l].queries /\ s.left = left /\ s.pc = "round"
    BY <1>1, ZenonT(60) DEF LookupState, OptionNode
  <2>3. left # {} => lookups[l].queries < Alpha
    BY <1>1, DiscoveryAssumption DEF LookupState
  <2> HIDE DEF s
  <2> QED
    BY <1>2, <1>3, <2>1, <2>2, <2>3, ZenonT(60) DEF WaitEnds
<1>4. ASSUME NEW n \in Node, SkipPeer(l, n)
      PROVE  IInv'
  <2> DEFINE s == [lookups[l] EXCEPT !.left = lookups[l].left \ {n}]
  <2>1. lookups' = [lookups EXCEPT ![l] = s]
    BY <1>1, <1>4 DEF SkipPeer
  <2>2. s \in LookupState /\ s.queries = lookups[l].queries /\ s.pc = "round"
    BY <1>1, <1>4 DEF LookupState, SkipPeer
  <2>3. lookups[l].queries < Alpha
    BY <1>1, <1>4 DEF SkipPeer, LookupOK
  <2> HIDE DEF s
  <2> QED
    BY <1>2, <1>4, <2>1, <2>2, <2>3, ZenonT(60) DEF SkipPeer
<1>5. ASSUME NEW t \in SUBSET Node, LookupStart(l, t)
      PROVE  IInv'
  <2> DEFINE s == [Resting EXCEPT !.pc = "round", !.seen = t \cup {Local},
                                  !.to_ask = t, !.left = t]
  <2>1. s \in LookupState /\ s.pc = "round" /\ s.queries = 0
    <3>1. t \cup {Local} \in SUBSET (Node \cup {Local})
      BY ZenonT(60)
    <3>2. Resting \in LookupState /\ Resting.queries = 0
      BY RestingType DEF Resting
    <3> QED
      BY <3>1, <3>2, ZenonT(60) DEF LookupState
  <2>2. lookups' = [lookups EXCEPT ![l] = s]
    BY <1>5 DEF LookupStart
  <2>3. s.queries < Alpha
    BY <2>1, DiscoveryAssumption
  <2> HIDE DEF s
  <2> QED
    BY <1>2, <1>5, <2>1, <2>2, <2>3, ZenonT(60) DEF LookupStart
<1>6. ASSUME NEW t \in SUBSET Node, RoundEnds(l, t)
      PROVE  IInv'
  <2> DEFINE seen == lookups[l].seen \cup lookups[l].found
             s == [lookups[l] EXCEPT !.seen = seen,
                     !.to_ask = t, !.left = t, !.found = {}, !.queries = 0]
  <2>1. \/ lookups' = [lookups EXCEPT ![l] = Resting]
        \/ lookups' = [lookups EXCEPT ![l] = s]
    <3>1. lookups' = [lookups EXCEPT ![l] =
                        IF lookups[l].queries = 0 THEN Resting ELSE s]
      BY <1>6 DEF RoundEnds
    <3> HIDE DEF s
    <3> QED
      BY <3>1, ZenonT(60)
  <2>2. s \in LookupState /\ s.queries = 0 /\ s.pc = "round"
    <3>1. seen \in SUBSET (Node \cup {Local}) /\ 0 \in 0 .. Alpha
      BY <1>1, DiscoveryAssumption DEF LookupState
    <3>2. lookups[l].pc = "round"
      BY <1>6 DEF RoundEnds
    <3> HIDE DEF seen
    <3> QED
      BY <1>1, <3>1, <3>2, ZenonT(60) DEF LookupState
  <2>3. s.queries < Alpha
    BY <2>2, DiscoveryAssumption
  <2>4. Resting \in LookupState /\ Resting.pc = "idle"
    BY RestingType DEF Resting
  <2> HIDE DEF s
  <2> QED
    BY <1>2, <1>6, <2>1, <2>2, <2>3, <2>4, ZenonT(60) DEF RoundEnds
<1> QED
  BY <1>3, <1>4, <1>5, <1>6, AskPeerStep DEF LookupStep

LEMMA StartLookupsStep ==
  ASSUME IInv, StartLookups
  PROVE  IInv'
<1> DEFINE s == [Resting EXCEPT !.pc = "start"]
<1>1. s \in LookupState /\ s.pc = "start"
  BY RestingType DEF Resting, LookupState
<1>2. lookups' = [l \in Lookup |-> s]
  BY DEF StartLookups
<1> HIDE DEF s
<1> QED
  BY <1>1, <1>2, LookupsStep DEF StartLookups

-----------------------------------------------------------------------------
\* The invariant holds initially and every step of every task preserves it.
THEOREM DiscoveryInductive == Spec => []IInv
<1>1. IInv /\ [Next]_vars => IInv'
  <2> SUFFICES ASSUME IInv, [Next]_vars PROVE IInv'
    OBVIOUS
  <2>1. CASE Next
    BY <2>1, ReceiveStep, ServeStep, StartupStep, RevalidateStep,
       StartLookupsStep, LookupStepKeeps, PassingStep, ZenonT(60) DEF Next
  <2>2. CASE UNCHANGED vars
    <3>1. table \in KademliaTable /\ BucketsOK(table)
      BY DEF IInv, TypeOK
    <3>2. Keeps(table, table, {}, responded)
      BY <3>1, KeepsReflexive
    <3> QED
      BY <2>2, <3>2, QuietStep
         DEF vars, IInv, TypeOK, ServerHasNode, Served, BootnodeLeft
  <2> QED
    BY <2>1, <2>2
<1> QED
  BY <1>1, InitIInv, PTL DEF Spec

\* The table, the tasks' locals and the packets have their types: in
\* particular a u16 liveness never leaves its range and a lookup never
\* receives more than MAX_NODES_PER_BUCKET nodes for one request.
THEOREM DiscoveryTypeCorrect == Spec => []TypeOK
<1>1. IInv => TypeOK
  BY DEF IInv
<1> QED
  BY <1>1, DiscoveryInductive, PTL

\* KademliaTable: no node is known twice and no bucket is over its bounds,
\* for any bucket sizes.
THEOREM TableIsWellFormed == Spec => []KnownOnce
<1>1. IInv => KnownOnce
  <2> SUFFICES ASSUME IInv, NEW i \in Bucket
               PROVE  LET r == table.replacements[i]
                      IN  /\ Cardinality(PeersOf(table, i)) <= MAX_NODES_PER_BUCKET
                          /\ Len(r) <= MAX_NUMBER_OF_REPLACEMENTS
                          /\ Elements(r) \cap table.peers = {}
                          /\ \A j, k \in DOMAIN r : r[j] = r[k] => j = k
                          /\ \A j \in DOMAIN r : BucketOf[r[j]] = i
    BY DEF KnownOnce
  <2> DEFINE r == table.replacements[i]
  <2>1. /\ Cardinality(PeersOf(table, i)) <= MAX_NODES_PER_BUCKET
        /\ SpareOK(r, i, table.peers)
    BY DEF IInv, BucketsOK
  <2>2. DOMAIN r = 1 .. Len(r)
    BY <2>1, Indexed DEF SpareOK
  <2> HIDE DEF r
  <2>3. Elements(r) \cap table.peers = {}
    BY <2>1, <2>2 DEF SpareOK, Elements
  <2> QED
    BY <2>1, <2>2, <2>3, ZenonT(60) DEF SpareOK, r
<1> QED
  BY <1>1, DiscoveryInductive, PTL

\* The unwrap in peers_revalidation never meets a peer that is gone.
THEOREM RevalidationIsSafe == Spec => []PingedStay
<1>1. IInv => PingedStay
  BY DEF IInv
<1> QED
  BY <1>1, DiscoveryInductive, PTL

\* Only nodes that answered a ping count as proven and are served.
THEOREM EndpointIsProven == Spec => []EndpointProof
<1>1. IInv => EndpointProof
  BY ZenonT(60) DEF IInv, TypeOK, KademliaTable, Proven, Served, EndpointProof
<1> QED
  BY <1>1, DiscoveryInductive, PTL

\* What a lookup got through its channel is what the peer's request counted.
THEOREM ChannelIsCounted == Spec => []ChannelAgrees
<1>1. IInv => ChannelAgrees
  BY ZenonT(60) DEF IInv, LookupOK, Agrees, ChannelAgrees
<1> QED
  BY <1>1, DiscoveryInductive, PTL

-----------------------------------------------------------------------------
(***************************************************************************)
(* Answers to revalidation pings.                                          *)
(***************************************************************************)

\* Whose answers the revalidation has yet to look at.
Pending == reval.pinged \cup (IF reval.pc = "check" THEN reval.todo ELSE {})

\* Who answered is marked so, or the server is between the match of the pong
\* and the mark; and nobody is pinged twice in a round.
AnswerInv ==
    /\ replied \subseteq Pending
    /\ \A n \in replied :
         \/ table.data[n].revalidation = "answered"
         \/ /\ table.data[n].revalidation = "sent"
            /\ server.pc = "pong" /\ server.node = n
    /\ reval.pc \in {"ping", "mark"} => reval.todo \cap reval.pinged = {}
    /\ reval.pc = "mark" => reval.node \notin reval.todo \cup reval.pinged

SameAnswers(t, u, gone) ==
    \A n \in t.peers \ gone : u.data[n].revalidation = t.data[n].revalidation

\* insert_node starts afresh what is known about a node that was not a peer.
LEMMA InsertNodeAnswers ==
  ASSUME NEW t \in KademliaTable, NEW n \in Node
  PROVE  SameAnswers(t, insert_node(t, n), {})
<1>1. CASE Known(t, n)
  BY <1>1 DEF insert_node, SameAnswers
<1>2. CASE ~Known(t, n) /\ Full(t, BucketOf[n])
  <2>1. insert_as_replacement(t, n).data = t.data
    BY DEF insert_as_replacement, KademliaTable
  <2> QED
    BY <1>2, <2>1 DEF insert_node, SameAnswers
<1>3. CASE ~Known(t, n) /\ ~Full(t, BucketOf[n])
  <2>1. n \notin t.peers
    BY <1>3 DEF Known
  <2>2. insert_node(t, n) = [t EXCEPT !.peers = t.peers \cup {n}, !.data[n] = NewPeer]
    BY <1>3 DEF insert_node
  <2>3. insert_node(t, n).data = [t.data EXCEPT ![n] = NewPeer]
    BY <2>2 DEF KademliaTable
  <2> QED
    BY <2>1, <2>3 DEF SameAnswers, KademliaTable
<1> QED
  BY <1>1, <1>2, <1>3

\* What is known of one peer changes, its revalidation does not.
LEMMA DataAnswers ==
  ASSUME NEW t \in KademliaTable, NEW n \in Node, NEW p,
         p.revalidation = t.data[n].revalidation
  PROVE  SameAnswers(t, [t EXCEPT !.data[n] = p], {})
<1>1. [t EXCEPT !.data[n] = p].data = [t.data EXCEPT ![n] = p]
  BY DEF KademliaTable
<1> QED
  BY <1>1 DEF SameAnswers, KademliaTable

\* update_peer_ping leaves a revalidation in progress as it is.
LEMMA UpdatePingAnswers ==
  ASSUME NEW t \in KademliaTable, NEW n \in Node, NEW h
  PROVE  SameAnswers(t, update_peer_ping(t, n, h), {})
<1> DEFINE p == [t.data[n] EXCEPT !.last_ping_hash = h, !.aged = FALSE]
<1>1. t.data[n] \in PeerData
  BY DEF KademliaTable
<1>2. p.revalidation = t.data[n].revalidation
  BY <1>1 DEF PeerData
<1>3. \/ update_peer_ping(t, n, h) = t
      \/ update_peer_ping(t, n, h) = [t EXCEPT !.data[n] = p]
  BY <1>1, ZenonT(60) DEF update_peer_ping, KademliaTable, PeerData
<1> HIDE DEF p
<1>4. SameAnswers(t, [t EXCEPT !.data[n] = p], {})
  BY <1>2, DataAnswers
<1> QED
  BY <1>3, <1>4, ZenonT(60) DEF SameAnswers

\* replace_peer touches the peer that goes and the one that comes.
LEMMA ReplaceAnswers ==
  ASSUME NEW t \in KademliaTable, BucketsOK(t), NEW n \in Node
  PROVE  SameAnswers(t, replace_peer(t, n), {n})
<1> DEFINE i == BucketOf[n]
           r == t.replacements[i]
<1>1. i \in Bucket /\ SpareOK(r, i, t.peers)
  BY KademliaAssumption DEF BucketsOK
<1>2. t.data \in [Node -> PeerData]
  BY DEF KademliaTable
<1>3. CASE r = <<>>
  <2>1. replace_peer(t, n) = [t EXCEPT !.peers = t.peers \ {n}, !.data[n] = NewPeer]
    BY <1>3 DEF replace_peer
  <2>2. replace_peer(t, n).data = [t.data EXCEPT ![n] = NewPeer]
    BY <2>1 DEF KademliaTable
  <2> QED
    BY <1>2, <2>2 DEF SameAnswers, KademliaTable
<1>4. CASE r # <<>>
  <2> DEFINE last == r[Len(r)]
  <2>1. last \in Node /\ last \notin t.peers
    BY <1>1, <1>4, FrontSpare, ZenonT(60)
  <2>2. replace_peer(t, n).data = [t.data EXCEPT ![n] = NewPeer, ![last] = NewPeer]
    BY <1>4 DEF replace_peer
  <2> HIDE DEF last
  <2> QED
    BY <1>2, <2>1, <2>2 DEF SameAnswers, KademliaTable
<1> QED
  BY <1>3, <1>4

\* pong_answered marks the answer to a revalidation ping, of that peer alone.
LEMMA PongAnswers ==
  ASSUME NEW t \in KademliaTable, NEW n \in Node
  PROVE  /\ n \in t.peers /\ t.data[n].revalidation # "none" =>
              pong_answered(t, n).data[n].revalidation = "answered"
         /\ \A m \in Node \ {n} : pong_answered(t, n).data[m] = t.data[m]
<1> DEFINE p == [t.data[n] EXCEPT !.is_proven = TRUE, !.last_ping_hash = None,
                   !.revalidation = IF @ = "none" THEN "none" ELSE "answered"]
<1>1. t.data[n] \in PeerData /\ t.data \in [Node -> PeerData]
  BY DEF KademliaTable
<1>2. t.data[n].revalidation # "none" => p.revalidation = "answered"
  BY <1>1 DEF PeerData
<1>3. n \in t.peers => pong_answered(t, n) = [t EXCEPT !.data[n] = p]
  BY ZenonT(60) DEF pong_answered, KademliaTable
<1> HIDE DEF p
<1>4. [t EXCEPT !.data[n] = p].data = [t.data EXCEPT ![n] = p]
  BY DEF KademliaTable
<1> QED
  BY <1>1, <1>2, <1>3, <1>4 DEF pong_answered

\* A step that neither revalidates nor handles a pong.
LEMMA QuietAnswers ==
  ASSUME IInv, AnswerInv, SameAnswers(table, table', {}),
         UNCHANGED <<reval, replied>>,
         server.pc = "pong" => server' = server
  PROVE  AnswerInv'
<1>1. replied \subseteq table.peers
  BY DEF AnswerInv, Pending, IInv, PingedStay
<1>2. \A n \in replied : table'.data[n].revalidation = table.data[n].revalidation
  BY <1>1 DEF SameAnswers
<1> QED
  BY <1>2 DEF AnswerInv, Pending

\* The server marks an answer, and forgets none.
LEMMA ServeAnswers ==
  ASSUME IInv, AnswerInv, Serve
  PROVE  AnswerInv'
<1>1. /\ table \in KademliaTable /\ BucketsOK(table) /\ server \in ServerState /\ ServerHasNode
      /\ replied \subseteq table.peers
  BY DEF IInv, TypeOK, AnswerInv, Pending, PingedStay
<1>2. UNCHANGED <<reval, replied>>
  BY ZenonT(60) DEF Serve, ServerInsert, ServerUpdate, ServerPong, ServerNeighbors,
         NeighborsDone, ServerPing, ServerInsertNeighbor
<1>3. table' = table => SameAnswers(table, table', {})
  BY DEF SameAnswers
<1>4. CASE ServerInsert
  <2>1. server.node \in Node /\ server.pc # "pong"
    BY <1>1, <1>4, ZenonT(60) DEF ServerInsert, ServerHasNode
  <2> QED
    BY <1>1, <1>2, <1>4, <2>1, InsertNodeAnswers, QuietAnswers DEF ServerInsert
<1>5. CASE ServerUpdate
  <2>1. server.node \in Node /\ server.pc # "pong"
    BY <1>1, <1>5, ZenonT(60) DEF ServerUpdate, ServerHasNode
  <2> QED
    BY <1>1, <1>2, <1>5, <2>1, UpdatePingAnswers, QuietAnswers, ZenonT(60) DEF ServerUpdate
<1>6. CASE ServerPong
  <2> DEFINE n == server.node
  <2>1. n \in Node /\ server.pc = "pong"
    BY <1>1, <1>6 DEF ServerPong, ServerHasNode
  <2>2. table.data \in [Node -> PeerData]
    BY <1>1 DEF KademliaTable
  <2>3. table' = pong_answered(table, n)
    BY <1>6 DEF ServerPong
  <2>4. \A m \in replied : table'.data[m].revalidation = "answered"
    <3> SUFFICES ASSUME NEW m \in replied PROVE table'.data[m].revalidation = "answered"
      OBVIOUS
    <3>1. m \in table.peers /\ m \in Node
      BY <1>1 DEF KademliaTable
    <3>2. CASE m = n
      <4>1. table.data[n].revalidation # "none"
        BY <3>2, ZenonT(60) DEF AnswerInv
      <4> QED
        BY <1>1, <2>1, <2>3, <3>1, <3>2, <4>1, PongAnswers, ZenonT(60)
    <3>3. CASE m # n
      <4>1. table.data[m].revalidation = "answered"
        BY <3>3, ZenonT(60) DEF AnswerInv
      <4>2. table'.data[m] = table.data[m]
        BY <1>1, <2>1, <2>3, <3>1, <3>3, PongAnswers, ZenonT(60)
      <4> QED
        BY <4>1, <4>2
    <3> QED
      BY <3>2, <3>3
  <2> QED
    BY <1>2, <2>4, ZenonT(60) DEF AnswerInv, Pending
<1>7. CASE ServerNeighbors \/ NeighborsDone
  BY <1>2, <1>3, <1>7, QuietAnswers DEF ServerNeighbors, NeighborsDone
<1>8. ASSUME NEW h \in OptionPing, ServerPing(h)
      PROVE  AnswerInv'
  BY <1>2, <1>3, <1>8, QuietAnswers DEF ServerPing
<1>9. ASSUME NEW h \in OptionPing, ServerInsertNeighbor(h)
      PROVE  AnswerInv'
  <2> DEFINE n == Head(server.rest)
             t == insert_node(table, n)
  <2>1. n \in Node
    <3>1. server.rest \in Seq(Node) /\ server.rest # <<>>
      BY <1>1, <1>9 DEF ServerInsertNeighbor, ServerState
    <3> QED
      BY <3>1, HeadAndTail
  <2>2. SameAnswers(table, t, {})
    BY <1>1, <2>1, InsertNodeAnswers
  <2>3. table' = t \/ table' = update_peer_ping(t, n, h)
    BY <1>9 DEF ServerInsertNeighbor
  <2>4. Keeps(table, t, {}, responded)
    BY <1>1, <2>1, InsertNodeKeeps
  <2> HIDE DEF n, t
  <2>5. t \in KademliaTable /\ table.peers \subseteq t.peers
    BY <2>4 DEF Keeps
  <2>6. SameAnswers(t, update_peer_ping(t, n, h), {})
    BY <2>1, <2>5, UpdatePingAnswers
  <2>7. SameAnswers(table, table', {})
    BY <2>2, <2>3, <2>5, <2>6 DEF SameAnswers
  <2> QED
    BY <1>2, <1>9, <2>7, QuietAnswers, ZenonT(60) DEF ServerInsertNeighbor
<1> QED
  BY <1>4, <1>5, <1>6, <1>7, <1>8, <1>9, ZenonT(60) DEF Serve

\* A pong that answers a recorded revalidation ping matches it.
LEMMA ReceiveAnswers ==
  ASSUME IInv, AnswerInv, Receive
  PROVE  AnswerInv'
<1>1. PICK n \in Node :
        \/ RecvPing(n) \/ RecvFindNode(n) \/ NeighborsLate(n)
        \/ \E h \in OptionPing : RecvPong(n, h)
        \/ \E nodes \in Neighbors : RecvNeighbors(n, nodes)
  BY DEF Receive
<1>2. /\ table \in KademliaTable /\ table.data[n] \in PeerData
      /\ reval.pinged \subseteq table.peers
  BY RequestType DEF IInv, TypeOK, PingedStay
<1>3. CASE RecvPing(n) \/ RecvFindNode(n)
  <2>1. SameAnswers(table, table', {}) /\ UNCHANGED <<reval, replied>> /\ server.pc # "pong"
    BY <1>3 DEF RecvPing, RecvFindNode, SameAnswers
  <2> QED
    BY <2>1, QuietAnswers
<1>4. CASE NeighborsLate(n)
  <2> DEFINE p == [table.data[n] EXCEPT !.find_node_request = None]
  <2>1. p.revalidation = table.data[n].revalidation
    BY <1>2 DEF PeerData
  <2>2. table' = [table EXCEPT !.data[n] = p]
    BY <1>2, <1>4 DEF NeighborsLate, KademliaTable
  <2> HIDE DEF p
  <2> QED
    BY <1>2, <1>4, <2>1, <2>2, DataAnswers, QuietAnswers DEF NeighborsLate
<1>5. ASSUME NEW h \in OptionPing, RecvPong(n, h)
      PROVE  AnswerInv'
  <2>1. server.pc = "idle" /\ UNCHANGED <<table, reval>>
    BY <1>5 DEF RecvPong
  <2>2. \A m \in replied : table.data[m].revalidation = "answered"
    BY <2>1 DEF AnswerInv
  <2>3. CASE replied' = replied
    BY <2>1, <2>2, <2>3, ZenonT(60) DEF AnswerInv, Pending
  <2>4. CASE replied' # replied
    <3>1. /\ replied' = replied \cup {n} /\ h # None
          /\ n \in reval.pinged
          /\ table.data[n].revalidation = "sent" /\ table.data[n].last_ping_hash = h
      BY <1>5, <2>4 DEF RecvPong, Revalidates
    <3>2. server' = [Idle EXCEPT !.pc = "pong", !.node = n]
      BY <1>2, <1>5, <3>1 DEF RecvPong, PongMatches
    <3>3. server'.pc = "pong" /\ server'.node = n
      BY <3>2 DEF Idle
    <3> QED
      BY <2>1, <2>2, <3>1, <3>3 DEF AnswerInv, Pending
  <2> QED
    BY <2>3, <2>4
<1>6. ASSUME NEW nodes \in Neighbors, RecvNeighbors(n, nodes)
      PROVE  AnswerInv'
  <2>1. PICK r : table' = [table EXCEPT !.data[n].find_node_request = r]
    BY <1>6, ZenonT(60) DEF RecvNeighbors
  <2> DEFINE p == [table.data[n] EXCEPT !.find_node_request = r]
  <2>2. p.revalidation = table.data[n].revalidation
    BY <1>2 DEF PeerData
  <2>3. table' = [table EXCEPT !.data[n] = p]
    BY <1>2, <2>1 DEF KademliaTable
  <2> HIDE DEF p
  <2>4. UNCHANGED <<reval, replied>> /\ server.pc # "pong"
    BY <1>6, ZenonT(60) DEF RecvNeighbors
  <2>5. SameAnswers(table, table', {})
    BY <1>2, <2>2, <2>3, DataAnswers
  <2> QED
    BY <2>4, <2>5, QuietAnswers
<1> QED
  BY <1>1, <1>3, <1>4, <1>5, <1>6

\* Neither the start-up, nor time, nor a lookup touches an answer.
LEMMA OtherAnswers ==
  ASSUME IInv, AnswerInv,
         Startup \/ Passing \/ StartLookups \/ \E l \in Lookup : LookupStep(l)
  PROVE  AnswerInv'
<1>1. /\ table \in KademliaTable /\ startup \in StartupState /\ BootnodeLeft
  BY DEF IInv, TypeOK
<1>2. ASSUME table' = table, UNCHANGED <<reval, replied, server>>
      PROVE  AnswerInv'
  BY <1>2, QuietAnswers DEF SameAnswers
<1>3. ASSUME NEW n \in Node, NEW p, p.revalidation = table.data[n].revalidation,
             table' = [table EXCEPT !.data[n] = p], UNCHANGED <<reval, replied, server>>
      PROVE  AnswerInv'
  BY <1>1, <1>3, DataAnswers, QuietAnswers
<1>4. \A n \in Node : table.data[n] \in PeerData
  BY <1>1 DEF KademliaTable
<1>5. CASE Startup
  <2>1. Len(Bootnodes) \in Nat /\ startup.next \in 1 .. Len(Bootnodes) + 1
    BY <1>1, DiscoveryAssumption, Indexed DEF StartupState
  <2>2. startup.next <= Len(Bootnodes) => Bootnodes[startup.next] \in Node
    BY <2>1, DiscoveryAssumption, ElementOf
  <2>3. UNCHANGED <<reval, replied, server>>
    BY <1>5, ZenonT(60) DEF Startup, StartupInsert, StartupUpdate, StartupPing
  <2>4. CASE StartupInsert
    BY <1>1, <2>2, <2>3, <2>4, InsertNodeAnswers, QuietAnswers, ZenonT(60) DEF StartupInsert
  <2>5. CASE StartupUpdate
    <3>1. startup.next <= Len(Bootnodes)
      BY <1>1, <2>5 DEF StartupUpdate, BootnodeLeft
    <3> QED
      BY <1>1, <2>2, <2>3, <2>5, <3>1, UpdatePingAnswers, QuietAnswers, ZenonT(60) DEF StartupUpdate
  <2>6. CASE \E h \in OptionPing : StartupPing(h)
    BY <1>2, <2>3, <2>6 DEF StartupPing
  <2> QED
    BY <1>5, <2>4, <2>5, <2>6 DEF Startup
<1>6. CASE Passing
  <2>1. PICK n \in Node : ProofAges(n) \/ RequestAges(n) \/ \E h \in Ping : PingLost(n, h)
    BY <1>6 DEF Passing
  <2>2. CASE ProofAges(n)
    <3> DEFINE p == [table.data[n] EXCEPT !.aged = TRUE]
    <3>1. p.revalidation = table.data[n].revalidation
      BY <1>4 DEF PeerData
    <3>2. table' = [table EXCEPT !.data[n] = p]
      BY <1>1, <2>2 DEF ProofAges, KademliaTable
    <3> HIDE DEF p
    <3> QED
      BY <1>3, <2>2, <3>1, <3>2, ZenonT(60) DEF ProofAges
  <2>3. CASE RequestAges(n)
    <3> DEFINE new == [table.data[n].find_node_request EXCEPT !.expired = TRUE]
               p == [table.data[n] EXCEPT !.find_node_request = new]
    <3>1. p.revalidation = table.data[n].revalidation
      BY <1>4 DEF PeerData
    <3>2. table' = [table EXCEPT !.data[n] = p]
      BY <1>1, <1>4, <2>3 DEF RequestAges, KademliaTable, PeerData
    <3> HIDE DEF p
    <3> QED
      BY <1>3, <2>3, <3>1, <3>2, ZenonT(60) DEF RequestAges
  <2>4. CASE \E h \in Ping : PingLost(n, h)
    BY <1>2, <2>4 DEF PingLost
  <2> QED
    BY <2>1, <2>2, <2>3, <2>4
<1>7. CASE StartLookups
  BY <1>2, <1>7 DEF StartLookups
<1>8. ASSUME NEW l \in Lookup, LookupStep(l)
      PROVE  AnswerInv'
  <2>1. CASE WaitEnds(l)
    BY <1>2, <2>1 DEF WaitEnds
  <2>2. ASSUME NEW n \in Node, SkipPeer(l, n)
        PROVE  AnswerInv'
    BY <1>2, <2>2 DEF SkipPeer
  <2>3. ASSUME NEW n \in Node, AskPeer(l, n)
        PROVE  AnswerInv'
    <3> DEFINE p == [table.data[n] EXCEPT !.find_node_request =
                       [nodes_sent |-> 0, expired |-> FALSE, tx |-> l]]
    <3>1. p.revalidation = table.data[n].revalidation
      BY <1>4, ZenonT(60) DEF PeerData
    <3>2. table' = [table EXCEPT !.data[n] = p]
      BY <1>1, <2>3 DEF AskPeer, KademliaTable
    <3> HIDE DEF p
    <3> QED
      BY <1>3, <2>3, <3>1, <3>2, ZenonT(60) DEF AskPeer
  <2>4. CASE \E s \in SUBSET Node : LookupStart(l, s) \/ RoundEnds(l, s)
    BY <1>2, <2>4 DEF LookupStart, RoundEnds
  <2> QED
    BY <1>8, <2>1, <2>2, <2>3, <2>4, ZenonT(60) DEF LookupStep
<1> QED
  BY <1>5, <1>6, <1>7, <1>8

\* The revalidation forgets an answer only when it checks or pings the peer again.
LEMMA RevalidateAnswers ==
  ASSUME IInv, AnswerInv, Revalidate
  PROVE  AnswerInv'
<1>1. /\ table \in KademliaTable /\ BucketsOK(table) /\ reval \in RevalState
      /\ replied \subseteq table.peers /\ replied \subseteq Node
      /\ PingedStay /\ NonePinged
  BY ZenonT(60) DEF IInv, TypeOK, AnswerInv, Pending, PingedStay
<1>2. UNCHANGED server
  BY ZenonT(60) DEF Revalidate, RevalTick, RevalMark, RevalDone, SelectPeers, CheckKept, CheckReplaced,
         RevalPing
<1>3. ASSUME replied' \subseteq replied, replied' \subseteq Pending',
             \A m \in replied' : table'.data[m].revalidation = table.data[m].revalidation,
             reval'.pc \in {"ping", "mark"} => reval'.todo \cap reval'.pinged = {},
             reval'.pc = "mark" => reval'.node \notin reval'.todo \cup reval'.pinged
      PROVE  AnswerInv'
  BY <1>2, <1>3 DEF AnswerInv
<1>4. CASE RevalTick
  <2>1. UNCHANGED <<table, replied>> /\ reval.pc = "tick"
    BY <1>4 DEF RevalTick
  <2>2. reval'.pc = "check" /\ reval'.todo = reval.pinged
    BY <1>1, <1>4, ZenonT(60) DEF RevalTick, RevalState
  <2> QED
    BY <1>3, <2>1, <2>2, ZenonT(60) DEF AnswerInv, Pending
<1>5. CASE RevalDone
  <2>1. UNCHANGED <<table, replied>> /\ reval.pc = "ping"
    BY <1>5 DEF RevalDone
  <2>2. reval'.pc = "tick" /\ reval'.pinged = reval.pinged
    BY <1>1, <1>5 DEF RevalDone, RevalState
  <2> QED
    BY <1>3, <2>1, <2>2 DEF AnswerInv, Pending
<1>6. CASE RevalMark
  <2> DEFINE n == reval.node
             p == [table.data[n] EXCEPT !.last_ping_hash = reval.hash, !.aged = FALSE,
                                        !.revalidation = "sent"]
  <2>1. /\ reval.pc = "mark" /\ UNCHANGED replied
        /\ n \in table.peers /\ n \in Node
        /\ n \notin reval.todo \cup reval.pinged /\ reval.todo \cap reval.pinged = {}
    BY <1>1, <1>6 DEF RevalMark, PingedStay, KademliaTable, AnswerInv
  <2>2. /\ reval'.pc = "ping" /\ reval'.pinged = reval.pinged \cup {n}
        /\ reval'.todo = reval.todo
    BY <1>1, <1>6 DEF RevalMark, RevalState
  <2>3. table' = [table EXCEPT !.data[n] = p]
    BY <1>1, <1>6, <2>1, ZenonT(60) DEF RevalMark, update_peer_ping_with_revalidation, KademliaTable
  <2> HIDE DEF p
  <2>4. table'.data = [table.data EXCEPT ![n] = p]
    BY <1>1, <2>3, ZenonT(60) DEF KademliaTable
  <2>5. n \notin replied
    BY <2>1 DEF AnswerInv, Pending
  <2>6. \A m \in replied : table'.data[m] = table.data[m]
    BY <1>1, <2>4, <2>5, ZenonT(60) DEF KademliaTable
  <2>7. replied' \subseteq Pending'
    BY <2>1, <2>2 DEF AnswerInv, Pending
  <2>8. reval'.todo \cap reval'.pinged = {}
    BY <2>1, <2>2, ZenonT(60)
  <2> HIDE DEF n
  <2> QED
    BY <1>3, <2>1, <2>2, <2>6, <2>7, <2>8
<1>7. ASSUME NEW s \in SUBSET Node, SelectPeers(s)
      PROVE  AnswerInv'
  <2>1. UNCHANGED <<table, replied>> /\ reval.pc = "check" /\ reval.todo = {}
    BY <1>7 DEF SelectPeers
  <2>2. reval'.pc = "ping" /\ reval'.pinged = reval.pinged /\ reval.pinged = {}
    BY <1>1, <1>7 DEF SelectPeers, RevalState, NonePinged
  <2> QED
    BY <1>3, <2>1, <2>2 DEF AnswerInv, Pending
<1>8. ASSUME NEW n \in Node, CheckKept(n)
      PROVE  AnswerInv'
  <2> DEFINE p == CheckedPeer(n)
  <2>1. replied' = replied \ {n} /\ reval.pc = "check" /\ table' = [table EXCEPT !.data[n] = p]
    BY <1>8 DEF CheckKept
  <2>2. reval'.pc = "check" /\ reval'.todo = reval.todo \ {n} /\ reval'.pinged = reval.pinged
    BY <1>1, <1>8 DEF CheckKept, RevalState
  <2> HIDE DEF p
  <2>3. table'.data = [table.data EXCEPT ![n] = p]
    BY <1>1, <2>1 DEF KademliaTable
  <2>4. \A m \in replied' : table'.data[m] = table.data[m]
    BY <1>1, <2>1, <2>3 DEF KademliaTable
  <2>5. replied' \subseteq Pending'
    BY <2>1, <2>2 DEF AnswerInv, Pending
  <2> QED
    BY <1>3, <2>1, <2>2, <2>4, <2>5
<1>9. ASSUME NEW n \in Node, NEW h \in OptionPing, CheckReplaced(n, h)
      PROVE  AnswerInv'
  <2> DEFINE new == replacement_of(table, n)
             t == replace_peer(table, n)
  <2>1. n \in table.peers /\ replied' = replied \ {n} /\ reval.pc = "check"
    BY <1>1, <1>9 DEF CheckReplaced, PingedStay
  <2>2. reval'.pc = "check" /\ reval'.todo = reval.todo \ {n} /\ reval'.pinged = reval.pinged
    BY <1>1, <1>9, ZenonT(60) DEF CheckReplaced, RevalState
  <2>3. Keeps(table, t, {n}, responded) /\ new \in OptionNode
    BY <1>1, <2>1, ReplaceKeeps, ZenonT(60)
  <2>4. SameAnswers(table, t, {n})
    BY <1>1, ReplaceAnswers
  <2>5. table' = t \/ (new # None /\ table' = update_peer_ping(t, new, h))
    BY <1>9 DEF CheckReplaced
  <2> HIDE DEF new, t
  <2>6. t \in KademliaTable /\ table.peers \ {n} \subseteq t.peers
    BY <2>3, ZenonT(60) DEF Keeps
  <2>7. new # None => SameAnswers(t, update_peer_ping(t, new, h), {})
    BY <2>3, <2>6, UpdatePingAnswers, ZenonT(60) DEF OptionNode
  <2>8. \A m \in replied' : table'.data[m].revalidation = table.data[m].revalidation
    BY <1>1, <2>1, <2>4, <2>5, <2>6, <2>7, ZenonT(60) DEF SameAnswers
  <2>9. replied' \subseteq Pending'
    BY <2>1, <2>2, ZenonT(60) DEF AnswerInv, Pending
  <2> QED
    BY <1>3, <2>1, <2>2, <2>8, <2>9
<1>10. ASSUME NEW n \in Node, NEW h \in OptionPing, RevalPing(n, h)
       PROVE  AnswerInv'
  <2>1. replied' = replied \ {n} /\ reval.pc = "ping" /\ UNCHANGED table /\ n \in reval.todo
    BY <1>10 DEF RevalPing
  <2>2. /\ reval'.pc = "mark" /\ reval'.todo = reval.todo \ {n} /\ reval'.pinged = reval.pinged
        /\ reval'.node = n
    BY <1>1, <1>10 DEF RevalPing, RevalState
  <2> QED
    BY <1>3, <2>1, <2>2 DEF AnswerInv, Pending
<1> QED
  BY <1>4, <1>5, <1>6, <1>7, <1>8, <1>9, <1>10, ZenonT(60) DEF Revalidate

\* The operations on the table, replace_peer aside, take out nobody.
LEMMA OperationsKeepPeers ==
  ASSUME NEW t \in KademliaTable, NEW n \in Node, NEW h
  PROVE  /\ t.peers \subseteq insert_node(t, n).peers
         /\ update_peer_ping(t, n, h).peers = t.peers
         /\ update_peer_ping_with_revalidation(t, n, h).peers = t.peers
         /\ pong_answered(t, n).peers = t.peers
<1>1. t.peers \subseteq insert_node(t, n).peers
  BY DEF insert_node, insert_as_replacement, KademliaTable
<1>2. update_peer_ping(t, n, h).peers = t.peers
  BY DEF update_peer_ping, KademliaTable
<1>3. update_peer_ping_with_revalidation(t, n, h).peers = t.peers
  BY DEF update_peer_ping_with_revalidation, KademliaTable
<1>4. pong_answered(t, n).peers = t.peers
  BY DEF pong_answered, KademliaTable
<1> QED
  BY <1>1, <1>2, <1>3, <1>4, ZenonT(60)

\* A peer leaves the table only when the revalidation replaces it.
LEMMA OnlyCheckRemoves ==
  ASSUME IInv, Next, NEW n \in table.peers, n \notin table'.peers
  PROVE  \E h \in OptionPing : CheckReplaced(n, h)
<1>1. /\ table \in KademliaTable /\ BucketsOK(table)
      /\ server \in ServerState /\ ServerHasNode /\ startup \in StartupState /\ BootnodeLeft
      /\ reval \in RevalState /\ PingedStay
  BY DEF IInv, TypeOK
<1>2. ~ table.peers \subseteq table'.peers
  OBVIOUS
<1>3. ~Receive
  <2>1. ASSUME NEW m \in Node PROVE ~RecvPing(m) /\ ~RecvFindNode(m) /\ ~NeighborsLate(m)
    BY <1>1, <1>2 DEF RecvPing, RecvFindNode, NeighborsLate, KademliaTable
  <2>2. ASSUME NEW m \in Node, NEW h PROVE ~RecvPong(m, h)
    BY <1>2 DEF RecvPong
  <2>3. ASSUME NEW m \in Node, NEW nodes, RecvNeighbors(m, nodes) PROVE FALSE
    <3>1. PICK r : table' = [table EXCEPT !.data[m].find_node_request = r]
      BY <2>3, ZenonT(60) DEF RecvNeighbors
    <3> QED
      BY <1>1, <1>2, <3>1 DEF KademliaTable
  <2> QED
    BY <2>1, <2>2, <2>3 DEF Receive
<1>4. ~Serve
  <2>1. ~ServerInsert /\ ~ServerUpdate /\ ~ServerPong
    BY <1>1, <1>2, OperationsKeepPeers
       DEF ServerInsert, ServerUpdate, ServerPong, ServerHasNode
  <2>2. ~ServerNeighbors /\ ~NeighborsDone
    BY <1>2 DEF ServerNeighbors, NeighborsDone
  <2>3. ASSUME NEW h PROVE ~ServerPing(h)
    BY <1>2 DEF ServerPing
  <2>4. ASSUME NEW h, ServerInsertNeighbor(h) PROVE FALSE
    <3> DEFINE m == Head(server.rest)
               t == insert_node(table, m)
    <3>1. m \in Node
      <4>1. server.rest \in Seq(Node) /\ server.rest # <<>>
        BY <1>1, <2>4 DEF ServerInsertNeighbor, ServerState
      <4> QED
        BY <4>1, HeadAndTail
    <3>2. table' = t \/ table' = update_peer_ping(t, m, h)
      BY <2>4 DEF ServerInsertNeighbor
    <3>3. Keeps(table, t, {}, responded)
      BY <1>1, <3>1, InsertNodeKeeps
    <3> HIDE DEF m, t
    <3>4. t \in KademliaTable /\ table.peers \subseteq t.peers
      BY <3>3, ZenonT(60) DEF Keeps
    <3>5. update_peer_ping(t, m, h).peers = t.peers
      BY <3>1, <3>4, OperationsKeepPeers
    <3> QED
      BY <1>2, <3>2, <3>4, <3>5
  <2> QED
    BY <2>1, <2>2, <2>3, <2>4 DEF Serve
<1>5. ~Startup
  <2>1. Len(Bootnodes) \in Nat /\ startup.next \in 1 .. Len(Bootnodes) + 1
    BY <1>1, DiscoveryAssumption, Indexed DEF StartupState
  <2>2. startup.next <= Len(Bootnodes) => Bootnodes[startup.next] \in Node
    BY <2>1, DiscoveryAssumption, ElementOf
  <2>3. ~StartupInsert
    BY <1>1, <1>2, <2>2, OperationsKeepPeers, ZenonT(60) DEF StartupInsert
  <2>4. ~StartupUpdate
    <3>1. ASSUME StartupUpdate PROVE FALSE
      <4>1. Bootnodes[startup.next] \in Node
        BY <1>1, <2>2, <3>1, ZenonT(60) DEF StartupUpdate, BootnodeLeft
      <4>2. table' = update_peer_ping(table, Bootnodes[startup.next], startup.hash)
        BY <3>1, ZenonT(60) DEF StartupUpdate
      <4>3. table \in KademliaTable
        BY <1>1, ZenonT(60)
      <4> QED
        BY <1>2, <4>1, <4>2, <4>3, OperationsKeepPeers, ZenonT(60)
    <3> QED
      BY <3>1, ZenonT(60)
  <2>5. ASSUME NEW h PROVE ~StartupPing(h)
    BY <1>2 DEF StartupPing
  <2> QED
    BY <2>3, <2>4, <2>5 DEF Startup
<1>6. ~StartLookups /\ ~Passing
  BY <1>1, <1>2, ZenonT(60) DEF StartLookups, Passing, ProofAges, RequestAges, PingLost, KademliaTable
<1>7. ASSUME NEW l \in Lookup PROVE ~LookupStep(l)
  BY <1>1, <1>2, ZenonT(60)
     DEF LookupStep, WaitEnds, SkipPeer, AskPeer, LookupStart, RoundEnds, KademliaTable
<1>8. Revalidate
  BY <1>3, <1>4, <1>5, <1>6, <1>7 DEF Next
<1>9. ~RevalTick /\ ~RevalDone /\ \A s : ~SelectPeers(s)
  BY <1>2, ZenonT(60) DEF RevalTick, RevalDone, SelectPeers
<1>10. ~RevalMark
  <2>1. reval.pc = "mark" => reval.node \in Node
    BY <1>1 DEF PingedStay, KademliaTable
  <2> QED
    BY <1>1, <1>2, <2>1, OperationsKeepPeers DEF RevalMark
<1>11. ASSUME NEW m \in Node PROVE ~CheckKept(m)
  BY <1>1, <1>2 DEF CheckKept, KademliaTable
<1>12. ASSUME NEW m \in Node, NEW h PROVE ~RevalPing(m, h)
  BY <1>2 DEF RevalPing
<1>13. PICK m \in Node, h \in OptionPing : CheckReplaced(m, h)
  BY <1>8, <1>9, <1>10, <1>11, <1>12, ZenonT(60) DEF Revalidate
<1>14. m = n
  <2> DEFINE new == replacement_of(table, m)
             t == replace_peer(table, m)
  <2>1. m \in table.peers
    BY <1>1, <1>13, ZenonT(60) DEF CheckReplaced, PingedStay
  <2>2. Keeps(table, t, {m}, responded) /\ new \in OptionNode
    BY <1>1, <2>1, ReplaceKeeps
  <2>3. table' = t \/ (new # None /\ table' = update_peer_ping(t, new, h))
    BY <1>13 DEF CheckReplaced
  <2> HIDE DEF new, t
  <2>4. t \in KademliaTable /\ table.peers \ {m} \subseteq t.peers
    BY <2>2, ZenonT(60) DEF Keeps
  <2>5. new # None => update_peer_ping(t, new, h).peers = t.peers
    <3>1. new # None => new \in Node
      BY <2>2, ZenonT(60) DEF OptionNode
    <3> QED
      BY <2>4, <3>1, OperationsKeepPeers
  <2> QED
    BY <2>3, <2>4, <2>5
<1> QED
  BY <1>13, <1>14

\* A peer whose pong to its revalidation ping is handled is not thrown out for
\* lack of liveness, however the server's own pings and pongs interleave with
\* the revalidation, for any number of nodes and any width of the liveness.
THEOREM AnsweredPeersStay == Spec => AnsweredKept
<1> DEFINE Step == \A n \in table.peers :
                     n \in replied /\ ~(server.pc = "pong" /\ server.node = n)
                     /\ table.data[n].liveness + 1 < LivenessModulus
                         => n \in table'.peers
<1>1. Init => AnswerInv
  BY DEF Init, AnswerInv
<1>2. IInv /\ AnswerInv /\ [Next]_vars => AnswerInv'
  <2> SUFFICES ASSUME IInv, AnswerInv, [Next]_vars PROVE AnswerInv'
    OBVIOUS
  <2>1. CASE UNCHANGED vars
    BY <2>1, QuietAnswers DEF vars, SameAnswers
  <2> QED
    BY <2>1, ReceiveAnswers, ServeAnswers, RevalidateAnswers, OtherAnswers, ZenonT(60) DEF Next
<1>3. IInv /\ AnswerInv /\ [Next]_vars => [Step]_vars
  <2> SUFFICES ASSUME IInv, AnswerInv, Next, NEW n \in table.peers, n \in replied,
                      ~(server.pc = "pong" /\ server.node = n),
                      table.data[n].liveness + 1 < LivenessModulus,
                      n \notin table'.peers
               PROVE  FALSE
    BY ZenonT(60)
  <2>1. /\ table \in KademliaTable /\ BucketsOK(table) /\ n \in Node
        /\ table.data[n] \in PeerData
    BY ZenonT(60) DEF IInv, TypeOK, KademliaTable
  <2>2. \E h \in OptionPing : CheckReplaced(n, h)
    BY OnlyCheckRemoves, ZenonT(60)
  <2>4. table.data[n].revalidation = "answered"
    BY DEF AnswerInv
  <2>3. table.data[n].liveness \in Nat
    BY <2>1, KademliaAssumption DEF PeerData
  <2>5. checked_liveness(table.data[n]) = table.data[n].liveness + 1
    BY <2>3, <2>4, KademliaAssumption DEF checked_liveness
  <2>6. CheckedPeer(n).liveness = checked_liveness(table.data[n])
    BY <2>1 DEF CheckedPeer, PeerData
  <2>7. CheckedPeer(n).liveness = 0
    BY <2>2 DEF CheckReplaced
  <2> QED
    BY <2>3, <2>5, <2>6, <2>7
<1>4. AnsweredKept <=> [][Step]_vars
  BY DEF AnsweredKept
<1> QED
  BY DiscoveryInductive, <1>1, <1>2, <1>3, <1>4, PTL DEF Spec
=============================================================================
