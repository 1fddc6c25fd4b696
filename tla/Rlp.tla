-------------------------------- MODULE Rlp --------------------------------
(* The RLP codec (crates/rlp): the encodings of the basic types and of       *)
(* lists, the helpers that encode and decode structs field by field, and the *)
(* two functions that split an item from what follows it; and the envelope   *)
(* of a transaction (core/types/transaction.rs), which occurs in lists.      *)
(*                                                                           *)
(* The traits are implemented type by type, so the operators take a type: a  *)
(* record with a kind.  An optional value is a sequence of at most one.  A   *)
(* decoder returns a value and the bytes after it, an error, or panics.      *)
EXTENDS Integers, SequencesExt

CONSTANTS
  RLP_NULL,      \* 0x80: how many bytes stand for themselves
  SHORT_MAX,     \* 55: the longest payload whose length is in the prefix
  USIZE_BYTES,   \* 8: the most bytes a length has
  IP_BYTES       \* {4, 16}: how long an address of a host may be

ASSUME RlpAssumption ==
  /\ {RLP_NULL, SHORT_MAX, USIZE_BYTES} \subseteq Nat \ {0}
  /\ IP_BYTES \subseteq Nat

RLP_EMPTY_LIST == RLP_NULL + SHORT_MAX + 1 + USIZE_BYTES
RLP_BYTE == RLP_EMPTY_LIST + SHORT_MAX + 1 + USIZE_BYTES
USIZE == RLP_BYTE ^ USIZE_BYTES

----------------------------------------------------------------------------
(* Types                                                                     *)

Bool == [kind |-> "bool"]
U8 == [kind |-> "u8"]
Uint(n) == [kind |-> "uint", n |-> n]       \* u16, u32, u64, u128, usize, U256
Array(n) == [kind |-> "array", n |-> n]     \* [u8; N] and the types made of one
ByteString == [kind |-> "bytes"]            \* Bytes, BytesMut, String (of any bytes)
IpAddr == [kind |-> "ip"]
VecOf(t) == [kind |-> "vec", of |-> t]

\* Fields in order, whether each is optional, and whether finish checks that no
\* payload is left.  A tuple is a struct that does.
StructOf(types, optional, checked) ==
  [kind |-> "struct", types |-> types, optional |-> optional, checked |-> checked]
Struct(types) == StructOf(types, {}, TRUE)

\* A TxKind is the address that is called, or no bytes.  A transaction is its
\* type, 0 to 3, and the fields of the struct of its type.
TxKind(n) == [kind |-> "to", n |-> n]
TransactionOf(structs) == [kind |-> "transaction", of |-> structs]
Transaction(tx_type, fields) == [tx_type |-> tx_type, fields |-> fields]

----------------------------------------------------------------------------
(* Encoding                                                                  *)

\* to_be_bytes, from the first byte that is not zero
RECURSIVE significant_bytes(_)
significant_bytes(n) ==
  IF n = 0 THEN <<>> ELSE Append(significant_bytes(n \div RLP_BYTE), n % RLP_BYTE)

\* The prefix of a payload: its length, or the length of its length and that.
Prefixed(offset, payload) ==
  LET len == Len(payload)
      length_bytes == significant_bytes(len)
  IN  IF len <= SHORT_MAX THEN <<offset + len>> \o payload
      ELSE <<offset + SHORT_MAX + Len(length_bytes)>> \o length_bytes \o payload

encode_bytes(bytes) ==
  IF Len(bytes) = 1 /\ bytes[1] < RLP_NULL THEN bytes ELSE Prefixed(RLP_NULL, bytes)

encode_uint(n) ==
  IF n = 0 THEN <<RLP_NULL>>
  ELSE IF n < RLP_NULL THEN <<n>>
  ELSE <<RLP_NULL + Len(significant_bytes(n))>> \o significant_bytes(n)

encode_bool(b) == IF b THEN <<1>> ELSE <<RLP_NULL>>

\* encode_length, and the items after it
encode_length(payload) == Prefixed(RLP_EMPTY_LIST, payload)

RECURSIVE encode(_, _)

\* TransactionType || Transaction, or a legacy transaction without a type
encode_canonical(t, v) ==
  (IF v.tx_type = 0 THEN <<>> ELSE <<v.tx_type>>) \o encode(t.of[v.tx_type], v.fields)

encode_transaction(t, v) ==
  IF v.tx_type = 0 THEN encode_canonical(t, v) ELSE encode_bytes(encode_canonical(t, v))

encode(t, v) ==
  CASE t.kind = "bool" -> encode_bool(v)
    [] t.kind \in {"u8", "uint"} -> encode_uint(v)
    [] t.kind \in {"array", "bytes", "ip", "to"} -> encode_bytes(v)
    [] t.kind = "transaction" -> encode_transaction(t, v)
    [] t.kind = "vec" -> encode_length(FlattenSeq([i \in DOMAIN v |-> encode(t.of, v[i])]))
    [] t.kind = "struct" ->
         encode_length(FlattenSeq([i \in DOMAIN v |->
           IF i \notin t.optional THEN encode(t.types[i], v[i])
           ELSE IF v[i] = <<>> THEN <<>>
           ELSE encode(t.types[i], v[i][1])]))

----------------------------------------------------------------------------
(* Decoding                                                                  *)

Decoded(value, rest) == [result |-> "Ok", value |-> value, rest |-> rest]
RLPDecodeError == [result |-> "Err"]
DecodePanics == [result |-> "panic"]

\* Rust's ? operator: go on with the value and what follows it, or return what
\* went wrong.
Then(decoded, Continue(_, _)) ==
  IF decoded.result # "Ok" THEN decoded ELSE Continue(decoded.value, decoded.rest)

From(data, i) == SubSeq(data, i, Len(data))

\* The number a big-endian slice stands for in an array of n bytes.  Copying a
\* longer slice into the array panics.
static_left_pad(n, data) ==
  IF data # <<>> /\ data[1] = 0 THEN RLPDecodeError
  ELSE IF Len(data) > n THEN DecodePanics
  ELSE Decoded(FoldLeft(LAMBDA acc, b : acc * RLP_BYTE + b, 0, data), <<>>)

\* The number of bytes before the payload and the number of payload bytes, by
\* the five ranges of the first byte, or an error.
Extent(data) ==
  LET first == data[1]
      is_list == first >= RLP_EMPTY_LIST
      offset == IF is_list THEN RLP_EMPTY_LIST ELSE RLP_NULL
      length_of_length == first - offset - SHORT_MAX
      item(before, len) ==
        IF Len(data) < (before + len) % USIZE THEN RLPDecodeError
        ELSE Decoded([is_list |-> is_list, before |-> before, len |-> len], <<>>)
  IN  IF data = <<>> THEN RLPDecodeError
      ELSE IF first < RLP_NULL THEN item(0, 1)
      ELSE IF first <= offset + SHORT_MAX THEN item(1, first - offset)
      ELSE IF Len(data) < length_of_length + 1 THEN RLPDecodeError
      ELSE Then(static_left_pad(USIZE_BYTES, SubSeq(data, 2, length_of_length + 1)),
                LAMBDA length, rest : item(length_of_length + 1, length))

\* Faulty variant: what follows a long item begins within its last byte.
decode_rlp_item_early(data) ==
  Then(Extent(data), LAMBDA x, rest :
    IF x.before + x.len >= USIZE THEN DecodePanics
    ELSE Decoded([is_list |-> x.is_list,
                  payload |-> SubSeq(data, x.before + 1, x.before + x.len)],
                 From(data, x.before + x.len + (IF x.before > 1 THEN 0 ELSE 1))))

\* An end that does not fit a usize wraps around, and is before the payload.
decode_rlp_item(data) ==
  Then(Extent(data), LAMBDA x, rest :
    IF x.before + x.len >= USIZE THEN DecodePanics
    ELSE Decoded([is_list |-> x.is_list,
                  payload |-> SubSeq(data, x.before + 1, x.before + x.len)],
                 From(data, x.before + x.len + 1)))

get_item_with_prefix(data) ==
  Then(Extent(data), LAMBDA x, rest :
    LET end == (x.before + x.len) % USIZE
    IN  Decoded(SubSeq(data, 1, end), From(data, end + 1)))

decode_bytes(data) ==
  Then(decode_rlp_item(data), LAMBDA item, rest :
    IF item.is_list THEN RLPDecodeError ELSE Decoded(item.payload, rest))

decode_bool(data) ==
  IF data = <<>> \/ data[1] \notin {RLP_NULL, 1} THEN RLPDecodeError
  ELSE Decoded(data[1] = 1, Tail(data))

decode_u8(data) ==
  IF data = <<>> THEN RLPDecodeError
  ELSE IF data[1] < RLP_NULL THEN Decoded(data[1], Tail(data))
  ELSE IF data[1] = RLP_NULL THEN Decoded(0, Tail(data))
  ELSE IF Len(data) >= 2 /\ data[1] = RLP_NULL + 1 THEN Decoded(data[2], From(data, 3))
  ELSE RLPDecodeError

decode_uint(n, data) ==
  Then(decode_bytes(data), LAMBDA bytes, rest :
    Then(static_left_pad(n, bytes), LAMBDA number, none : Decoded(number, rest)))

\* Bytes whose number is among lengths
decode_sized(lengths, data) ==
  Then(decode_bytes(data), LAMBDA bytes, rest :
    IF Len(bytes) \in lengths THEN Decoded(bytes, rest) ELSE RLPDecodeError)

\* Decoder::new: the payload of a list
DecoderNew(data) ==
  Then(decode_rlp_item(data), LAMBDA item, rest :
    IF item.is_list THEN Decoded(item.payload, rest) ELSE RLPDecodeError)

decode_kind(n, data) ==
  IF data # <<>> /\ data[1] = RLP_NULL THEN Decoded(<<>>, Tail(data))
  ELSE decode_sized({n}, data)

RECURSIVE decode_unfinished(_, _), decode_fields(_, _, _), decode_items(_, _)

\* The elements of a Vec, until the payload is used up
decode_items(t, payload) ==
  IF payload = <<>> THEN Decoded(<<>>, <<>>)
  ELSE Then(decode_unfinished(t, payload), LAMBDA first, others :
         Then(decode_items(t, others), LAMBDA items, none : Decoded(<<first>> \o items, none)))

\* What decode_optional_field makes of an attempt to decode the field: one that
\* cannot be decoded is absent, and the payload is left to the next.
Optional(field, payload) ==
  CASE field.result = "Ok" -> Decoded(<<field.value>>, field.rest)
    [] field.result = "Err" -> Decoded(<<>>, payload)
    [] field.result = "panic" -> field

\* decode_field and decode_optional_field, from the i-th field on.
decode_fields(t, i, payload) ==
  LET field == decode_unfinished(t.types[i], payload)
  IN  IF i > Len(t.types) THEN Decoded(<<>>, payload)
      ELSE Then(IF i \in t.optional THEN Optional(field, payload) ELSE field, LAMBDA value, left :
             Then(decode_fields(t, i + 1, left), LAMBDA values, rest :
               Decoded(<<value>> \o values, rest)))

decode_struct(t, data) ==
  Then(DecoderNew(data), LAMBDA payload, rest :
    Then(decode_fields(t, 1, payload), LAMBDA fields, left :
      IF t.checked /\ left # <<>> THEN RLPDecodeError ELSE Decoded(fields, rest)))

decode_vec(t, data) ==
  Then(DecoderNew(data), LAMBDA payload, rest :
    Then(decode_items(t.of, payload), LAMBDA items, none : Decoded(items, rest)))

\* A transaction of the given type, whose struct the bytes begin with
decode_typed(t, tx_type, data) ==
  IF tx_type \notin DOMAIN t.of THEN RLPDecodeError
  ELSE Then(decode_struct(t.of[tx_type], data), LAMBDA fields, rest :
         Decoded(Transaction(tx_type, fields), rest))

is_encoded_as_bytes(data) ==
  data[1] \in RLP_NULL + SHORT_MAX + 1 .. RLP_EMPTY_LIST - 1

\* All that follows the length of the item, to the end of the slice
get_rlp_bytes_item_payload(data) == From(data, data[1] - RLP_NULL - SHORT_MAX + 2)

\* A legacy transaction, or the bytes of a typed one, more than SHORT_MAX of them
decode_transaction(t, data) ==
  LET payload == get_rlp_bytes_item_payload(data)
  IN  IF data = <<>> THEN DecodePanics
      ELSE IF ~is_encoded_as_bytes(data) THEN decode_typed(t, 0, data)
      ELSE IF payload = <<>> THEN DecodePanics
      ELSE decode_typed(t, payload[1], Tail(payload))

decode_unfinished(t, data) ==
  CASE t.kind = "bool" -> decode_bool(data)
    [] t.kind = "u8" -> decode_u8(data)
    [] t.kind = "uint" -> decode_uint(t.n, data)
    [] t.kind = "array" -> decode_sized({t.n}, data)
    [] t.kind = "bytes" -> decode_bytes(data)
    [] t.kind = "ip" -> decode_sized(IP_BYTES, data)
    [] t.kind = "to" -> decode_kind(t.n, data)
    [] t.kind = "transaction" -> decode_transaction(t, data)
    [] t.kind = "vec" -> decode_vec(t, data)
    [] t.kind = "struct" -> decode_struct(t, data)

\* RLPDecode::decode: nothing may follow the value
Finished(value, rest) == IF rest = <<>> THEN Decoded(value, rest) ELSE RLPDecodeError

decode(t, data) == Then(decode_unfinished(t, data), Finished)

\* A first byte below 0x7f is a type.
decode_canonical(t, bytes) ==
  LET typed == bytes # <<>> /\ bytes[1] < RLP_NULL - 1
  IN  Then(decode_typed(t, IF typed THEN bytes[1] ELSE 0, IF typed THEN Tail(bytes) ELSE bytes),
           Finished)
=============================================================================
