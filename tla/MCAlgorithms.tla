--------------------------- MODULE MCAlgorithms ---------------------------
(* An instance of the algorithms for TLC: words of two bytes of two bits.    *)
EXTENDS Algorithms

MCCodeBytes ==
  {Byte("JUMPDEST", 0, 1), Byte("PUSH", 1, 2), Byte("PUSH", 2, 3), Byte("ADD", 0, 0),
   Byte("DUP", 1, 1), Byte("0x0c", 0, 2)}

\* No calldata, a pair of points, the length blake2f takes, and odd ones; the
\* sizes are those of a modular exponentiation.
MCPrecompileInputs ==
  {[len |-> len, ok |-> ok, b_size |-> size, e_size |-> 33, e_bits |-> bits,
    m_size |-> size, rounds |-> 12, flag |-> flag] :
      len \in {0, 1, 33, 192, 213}, ok \in BOOLEAN, size \in {0, 1, 40}, bits \in {0, 3},
      flag \in {1, 2}}

MCGasLimits == {0, 11, 12, 13, 149, 150, 200, 720, 3000, 79000}

\* Some of the gas that is needed may be given back at the end, and the sender
\* may pay for just enough, for more, or for too little.
MCEstimated ==
  {[needed |-> used + back + extra, used |-> used, refunded |-> back, priced |-> priced,
    affordable |-> used + back + extra + rest, plain |-> plain] :
      used \in {21, 60, 301}, back \in {0, 40}, extra \in {0, 1, 90}, rest \in {-1, 0, 3, 500},
      priced \in BOOLEAN, plain \in BOOLEAN}

MCCaps == {21, 61, 100, 305, 600, 1000}

MCIdKey == <<7, 8>>

MCStoredTypes ==
  {U8, U64, ByteString, BlockHeader, BlockBody, BlockType, TransactionType, Receipt, AccountInfo,
   AccountState, PingMessage, PongMessage, FindNodeMessage, NeighborsMessage, ENRRequestMessage}

\* One value of each type.
RECURSIVE One(_)
One(t) ==
  CASE t.kind = "bool" -> TRUE
    [] t.kind = "u8" -> 2
    [] t.kind = "uint" -> 3
    [] t.kind = "array" -> [i \in 1 .. t.n |-> RLP_BYTE - i]
    [] t.kind = "bytes" -> <<4, 5>>
    [] t.kind = "ip" -> <<1, 2>>
    [] t.kind = "to" -> [i \in 1 .. t.n |-> i]
    [] t.kind = "transaction" -> Transaction(2, One(t.of[2]))
    [] t.kind = "vec" -> <<One(t.of)>>
    [] t.kind = "struct" ->
         [i \in DOMAIN t.types |-> IF i \in t.optional THEN <<One(t.types[i])>> ELSE One(t.types[i])]

Shortest(t) ==
  CASE t.kind = "bool" -> FALSE
    [] t.kind = "uint" -> 0
    [] OTHER -> <<>>

\* The bounds of what is written in one, two or more bytes, strings that are
\* short, long, and of a single byte, and structs with one field of each of these
\* or with some of the optional fields.
RECURSIVE MCSamples(_)
MCSamples(t) ==
  CASE t.kind = "bool" -> BOOLEAN
    [] t.kind = "u8" -> {0, RLP_NULL - 1, RLP_NULL, RLP_BYTE - 1}
    [] t.kind = "uint" -> {0, 1, RLP_NULL, RLP_BYTE, RLP_BYTE ^ t.n - 1}
    [] t.kind = "array" -> {[i \in 1 .. t.n |-> 0], [i \in 1 .. t.n |-> RLP_BYTE - i]}
    [] t.kind = "bytes" -> {<<>>, <<0>>, <<RLP_NULL>>, [i \in 1 .. SHORT_MAX + 1 |-> i]}
    [] t.kind = "ip" -> {[i \in 1 .. n |-> i - 1] : n \in IP_BYTES}
    [] t.kind = "to" -> {<<>>, [i \in 1 .. t.n |-> 0]}
    [] t.kind = "transaction" ->
         {Transaction(2, [i \in DOMAIN t.of[2].types |-> Shortest(t.of[2].types[i])])}
         \union UNION {{Transaction(tx_type, v) : v \in MCSamples(t.of[tx_type])} : tx_type \in 0 .. 3}
    [] t.kind = "vec" ->
         {<<>>} \union {<<v>> : v \in MCSamples(t.of)} \union {<<One(t.of), v>> : v \in MCSamples(t.of)}
    [] t.kind = "struct" ->
         LET one == One(t)
         IN  {[i \in DOMAIN one |-> IF i \in absent THEN <<>> ELSE one[i]] : absent \in SUBSET t.optional}
             \union UNION {{[one EXCEPT ![i] = IF i \in t.optional THEN <<v>> ELSE v] :
                              v \in MCSamples(t.types[i])} : i \in DOMAIN one}

MCRecords ==
  {[signature |-> one, seq |-> seq, pairs |-> pairs] :
     one \in MCSamples(H512), seq \in MCSamples(U64),
     pairs \in {<<[key |-> ID_KEY, item |-> encode_bytes(id)]>> \o more :
                  id \in MCSamples(ByteString),
                  more \in {<<>>} \union {<<[key |-> key, item |-> item]>> :
                             key \in MCSamples(ByteString),
                             item \in {<<1>>, encode(VecOf(U64), <<0, 1>>)}}}}

MCDecodedTypes ==
  {U8, U16, Bool, ByteString, Array(2), VecOf(U8), VecOf(Bool), Struct(<<U8, U16>>),
   StructOf(<<U8, U16, Array(2)>>, {2, 3}, TRUE), StructOf(<<Bool, U16>>, {2}, FALSE)}

MCRlpBytes ==
  {0, 1, RLP_NULL, RLP_NULL + 1, RLP_NULL + 2, RLP_NULL + SHORT_MAX + 1, RLP_EMPTY_LIST,
   RLP_EMPTY_LIST + 2, RLP_EMPTY_LIST + 3, RLP_BYTE - USIZE_BYTES, RLP_BYTE - 1}

MCAddresses == {"a", "b"}

Contract(code_hash, balance, storage) ==
  [nonce |-> 1, balance |-> balance, code_hash |-> code_hash, storage_root |-> storage]

\* Accounts of a sender and of contracts with two codes and different storage.
MCAccountStates ==
  {Contract(EMPTY_CODE, 1, EmptyRoot), Contract(EMPTY_CODE, 2, EmptyRoot),
   Contract("c", 0, EmptyRoot), Contract("c", 0, 1 :> 1), Contract("c", 0, 1 :> 2 @@ 2 :> 1),
   Contract("d", 3, 1 :> 1), Contract("d", 0, 2 :> 1)}

MCGenesisAccounts ==
  {[nonce |-> 0, balance |-> 1, code_hash |-> code, storage |-> storage] :
     code \in {EMPTY_CODE, "c"}, storage \in {EmptyRoot, 1 :> 0, 1 :> 0 @@ 2 :> 1, 1 :> 1 @@ 2 :> 1}}
=============================================================================
