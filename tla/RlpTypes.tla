------------------------------ MODULE RlpTypes ------------------------------
(* What is stored and sent in RLP: blocks, transactions, receipts and        *)
(* accounts (core/types), and the messages and node records of discovery     *)
(* (net/discv4.rs, net/types.rs).                                            *)
EXTENDS Rlp

CONSTANTS U16_BYTES, U64_BYTES, U256_BYTES, HASH_BYTES, ADDRESS_LEN, BLOOM_BYTES,
          ID_KEY,      \* the key "id" of a node record
          MAX_NODE_RECORD_ENCODED_SIZE

U16 == Uint(U16_BYTES)
U64 == Uint(U64_BYTES)
U256 == Uint(U256_BYTES)
H256 == Array(HASH_BYTES)
H512 == Array(2 * HASH_BYTES)
Address == Array(ADDRESS_LEN)
AccessList == VecOf(Struct(<<Address, VecOf(H256)>>))

LegacyTransaction ==
  Struct(<<U64, U64, U64, TxKind(ADDRESS_LEN), U256, ByteString, U256, U256, U256>>)

EIP2930Transaction ==
  Struct(<<U64, U64, U64, U64, TxKind(ADDRESS_LEN), U256, ByteString, AccessList, Bool, U256, U256>>)

EIP1559Transaction ==
  Struct(<<U64, U64, U64, U64, U64, TxKind(ADDRESS_LEN), U256, ByteString, AccessList, Bool, U256,
           U256>>)

EIP4844Transaction ==
  Struct(<<U64, U64, U64, U64, U64, Address, U256, ByteString, AccessList, U256, VecOf(H256), Bool,
           U256, U256>>)

TransactionType ==
  TransactionOf([tx_type \in 0 .. 3 |-> <<LegacyTransaction, EIP2930Transaction,
                                          EIP1559Transaction, EIP4844Transaction>>[tx_type + 1]])

\* The last five fields of a header are optional.
BlockHeader ==
  StructOf(<<H256, H256, Address, H256, H256, H256, Array(BLOOM_BYTES), U256, U64, U64, U64, U64,
             ByteString, H256, Array(U64_BYTES), U64, H256, U64, U64, H256>>, 16 .. 20, TRUE)

Withdrawal == Struct(<<U64, U64, Address, U64>>)

BlockBody ==
  StructOf(<<VecOf(TransactionType), VecOf(BlockHeader), VecOf(Withdrawal)>>, {3}, TRUE)

BlockType ==
  StructOf(<<BlockHeader, VecOf(TransactionType), VecOf(BlockHeader), VecOf(Withdrawal)>>, {4}, TRUE)

Log == Struct(<<Address, VecOf(H256), ByteString>>)
Receipt == Struct(<<Bool, U64, Array(BLOOM_BYTES), VecOf(Log)>>)

AccountInfo == Struct(<<H256, U256, U64>>)
AccountState == Struct(<<U64, U256, H256, H256>>)

Endpoint == Struct(<<IpAddr, U16, U16>>)
Node == StructOf(<<IpAddr, U16, U16, H512>>, {}, FALSE)
PingMessage == StructOf(<<U8, Endpoint, Endpoint, U64, U64>>, {5}, FALSE)
PongMessage == StructOf(<<Endpoint, H256, U64, U64>>, {4}, FALSE)
FindNodeMessage == StructOf(<<H512, U64>>, {}, FALSE)
NeighborsMessage == StructOf(<<VecOf(Node), U64>>, {}, FALSE)
ENRRequestMessage == StructOf(<<U64>>, {}, FALSE)

----------------------------------------------------------------------------
(* Receipts: the type of the transaction, unless it is a legacy one, and the *)
(* fields.                                                                   *)

encode_receipt(receipt) ==
  (IF receipt.tx_type = 0 THEN <<>> ELSE <<receipt.tx_type>>) \o encode(Receipt, receipt.fields)

\* Rlp::to on a stored receipt
decode_receipt(data) ==
  decode_canonical(TransactionOf([tx_type \in 0 .. 3 |-> Receipt]), data)

----------------------------------------------------------------------------
(* Node records: a signature, a number, and pairs of a key and an item that  *)
(* is kept as it was encoded.                                                *)

encode_record(record) ==
  encode_length(encode(H512, record.signature) \o encode(U64, record.seq)
    \o FlattenSeq([i \in DOMAIN record.pairs |->
         encode_bytes(record.pairs[i].key) \o record.pairs[i].item]))

\* The pairs, until what is left does not begin with a key.
RECURSIVE decode_node_record_optional_fields(_)
decode_node_record_optional_fields(payload) ==
  LET key == decode_bytes(payload)
      item == get_item_with_prefix(key.rest)
  IN  IF key.result = "Err" THEN Decoded(<<>>, payload)
      ELSE IF key.result = "panic" \/ item.result # "Ok" THEN DecodePanics
      ELSE Then(decode_node_record_optional_fields(item.rest), LAMBDA pairs, rest :
             Decoded(<<[key |-> key.value, item |-> item.value]>> \o pairs, rest))

\* A record has a pair with the key id, the first of which is unwrapped as a
\* string.
RecordOf(signature, seq, pairs) ==
  LET id == SelectInSeq(pairs, LAMBDA pair : pair.key = ID_KEY)
  IN  IF id = 0 THEN RLPDecodeError
      ELSE IF decode(ByteString, pairs[id].item).result # "Ok" THEN DecodePanics
      ELSE Decoded([signature |-> signature, seq |-> seq, pairs |-> pairs], <<>>)

decode_record(data) ==
  IF Len(data) > MAX_NODE_RECORD_ENCODED_SIZE THEN RLPDecodeError
  ELSE Then(DecoderNew(data), LAMBDA payload, rest :
    Then(decode_fields(Struct(<<H512, U64>>), 1, payload), LAMBDA fields, others :
      Then(decode_node_record_optional_fields(others), LAMBDA pairs, left :
        Then(RecordOf(fields[1], fields[2], pairs), LAMBDA record, none :
          IF left # <<>> THEN RLPDecodeError ELSE Decoded(record, rest)))))

\* ENRResponseMessage: the hash of the request, and a record
encode_enr_response(response) ==
  encode_length(encode(H256, response.request_hash) \o encode_record(response.node_record))

decode_enr_response(data) ==
  Then(DecoderNew(data), LAMBDA payload, rest :
    Then(decode_unfinished(H256, payload), LAMBDA hash, others :
      Then(decode_record(others), LAMBDA record, left :
        Decoded([request_hash |-> hash, node_record |-> record], rest))))
=============================================================================
