----------------------------- MODULE NibblePath -----------------------------
(* The half-byte paths of the Merkle Patricia trie (crates/trie/nibble.rs).   *)
(*                                                                            *)
(* A byte is a pair <<high, low>> of nibbles and a path a sequence of bytes.  *)
(* A NibbleSlice is a path with the number of nibbles already walked.  A      *)
(* NibbleVec keeps whole bytes too, with flags that say whether the high half *)
(* of the first byte and the low half of the last one are not part of it:     *)
(* those halves hold whatever was there.  A slice of Rust that is out of its  *)
(* bounds panics; here the sequence it would take is undefined.               *)
EXTENDS Integers, Sequences, FiniteSetsExt

Odd(n) == n % 2 # 0

AsNat(flag) == IF flag THEN 1 ELSE 0

\* The nibble at position i of the data, positions from zero.
NibbleAt(data, i) == data[i \div 2 + 1][(i % 2) + 1]

----------------------------------------------------------------------------
(* NibbleSlice                                                                *)

NibbleSlice(data) == [data |-> data, offset |-> 0]

slice_len(path) == 2 * Len(path.data) - path.offset

offset_add(path, delta) == [path EXCEPT !.offset = @ + delta]

\* NibbleSlice::next returns None at the end of the path.
AtEnd(path) == path.offset \div 2 >= Len(path.data)

Next_(path) == NibbleAt(path.data, path.offset)

split_to_vec(path, offset) ==
  [data |-> SubSeq(path.data, path.offset \div 2 + 1, (path.offset + offset + 1) \div 2),
   first_is_half |-> Odd(path.offset),
   last_is_half |-> Odd(path.offset + offset)]

\* The assertion of skip_prefix: the prefix starts at the half the path is at.
Aligned(path, prefix) == Odd(path.offset) = prefix.first_is_half

\* Whether the prefix leads the rest of the path, and the path after it.
skip_prefix(path, prefix) ==
  LET n == Len(prefix.data)
      base == path.offset \div 2
      Same(i, half) == prefix.data[i][half] = path.data[base + i][half]
      skipped ==
        /\ Len(path.data) >= n
        /\ \/ n = 0
           \/ n = 1 /\ prefix.first_is_half /\ prefix.last_is_half
           \/ /\ prefix.first_is_half => Same(1, 2)
              /\ prefix.last_is_half => Same(n, 1)
              /\ \A i \in 1 + AsNat(prefix.first_is_half) .. n - AsNat(prefix.last_is_half) :
                   Same(i, 1) /\ Same(i, 2)
  IN  [skipped |-> skipped,
       path |-> IF skipped /\ n > 0
                THEN offset_add(path, 2 * n - AsNat(prefix.first_is_half)
                                            - AsNat(prefix.last_is_half))
                ELSE path]

\* Whether the rest of the path is the rest of the other path.
cmp_rest(path, other) ==
  LET base == path.offset \div 2
  IN  /\ Len(path.data) = Len(other)
      /\ Odd(path.offset) => path.data[base + 1][2] = other[base + 1][2]
      /\ \A i \in base + 1 + (path.offset % 2) .. Len(other) : path.data[i] = other[i]

\* How many nibbles two byte strings share: whole bytes, and one more when only
\* the high half of the next byte is the same.
SharedBytes(a, b) ==
  LET m == Min({Len(a), Len(b)})
      n == Max({k \in 0 .. m : \A i \in 1 .. k : a[i] = b[i]})
  IN  [nibbles |-> 2 * n + AsNat(n < m /\ a[n + 1][1] = b[n + 1][1]), all |-> n = m]

From(data, i) == SubSeq(data, i, Len(data))

count_prefix_vec(path, other) ==
  LET first == AsNat(other.first_is_half)
      inner == SubSeq(other.data, 1 + first, Len(other.data) - AsNat(other.last_is_half))
      start == path.offset + first
      shared == SharedBytes(From(path.data, (start + 1) \div 2 + 1), inner)
      rest == [path EXCEPT !.offset = start + shared.nibbles]
      last == AsNat(/\ shared.all
                    /\ other.last_is_half
                    /\ ~AtEnd(rest)
                    /\ Next_(rest) = other.data[Len(other.data)][1])
  IN  IF \/ other.data = <<>>
         \/ other.first_is_half /\ (AtEnd(path) \/ Next_(path) # other.data[1][2])
      THEN 0 ELSE first + shared.nibbles + last

count_prefix_slice(path, other) ==
  LET odd == path.offset % 2
      base == path.offset \div 2 + odd + 1
  IN  IF odd = 1 /\ path.data[base - 1][2] # other.data[base - 1][2] THEN 0
      ELSE odd + SharedBytes(From(path.data, base), From(other.data, base)).nibbles

----------------------------------------------------------------------------
(* NibbleVec                                                                  *)

EmptyVec == [data |-> <<>>, first_is_half |-> FALSE, last_is_half |-> FALSE]

from_single(nibble, is_right_half) ==
  [data |-> <<IF is_right_half THEN <<0, nibble>> ELSE <<nibble, 0>> >>,
   first_is_half |-> is_right_half,
   last_is_half |-> ~is_right_half]

vec_len(vec) == 2 * Len(vec.data) - AsNat(vec.first_is_half) - AsNat(vec.last_is_half)

\* The nibbles NibbleVecIter yields.
Nibbles(vec) == [i \in 1 .. vec_len(vec) |-> NibbleAt(vec.data, i - 1 + AsNat(vec.first_is_half))]

normalize(vec) ==
  IF vec.data = <<>> \/ (Len(vec.data) = 1 /\ vec.first_is_half /\ vec.last_is_half)
  THEN EmptyVec ELSE vec

\* Faulty variant: the right part keeps the alignment of the whole.
split_extract_misaligned(vec, index) ==
  LET at == index + AsNat(vec.first_is_half)
      offset == (at + 1) \div 2
  IN  [left |-> normalize([vec EXCEPT !.data = SubSeq(@, 1, offset), !.last_is_half = Odd(at)]),
       nibble |-> NibbleAt(vec.data, at),
       right |-> normalize([vec EXCEPT !.data = From(@, offset + 1)])]

\* The nibbles before position index, the nibble there and the nibbles after it.
split_extract_at(vec, index) ==
  LET at == index + AsNat(vec.first_is_half)
      offset == (at + 1) \div 2
  IN  [left |-> normalize([vec EXCEPT !.data = SubSeq(@, 1, offset), !.last_is_half = Odd(at)]),
       nibble |-> NibbleAt(vec.data, at),
       right |-> normalize([vec EXCEPT !.data = From(@, offset + 1),
                                       !.first_is_half = ~Odd(at)])]

prepend(vec, nibble) ==
  [vec EXCEPT !.data = IF vec.first_is_half THEN [@ EXCEPT ![1] = <<nibble, @[2]>>]
                       ELSE << <<0, nibble>> >> \o @,
              !.first_is_half = ~@]

\* The assertion of NibbleVec::extend.
Fits(vec, other) == vec.last_is_half = other.first_is_half

extend(vec, other) ==
  LET n == Len(vec.data)
      joined == IF vec.last_is_half
                THEN [vec.data EXCEPT ![n] = <<@[1], other.data[1][2]>>] ELSE vec.data
  IN  [data |-> joined \o From(other.data, 1 + AsNat(other.first_is_half)),
       first_is_half |-> vec.first_is_half,
       last_is_half |-> other.last_is_half]
=============================================================================
