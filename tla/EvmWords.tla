------------------------------ MODULE EvmWords ------------------------------
(* The arithmetic of the two EVM implementations: what the code generated by *)
(* evm_mlir computes (the Mlir operators, one LLVM instruction per line) and *)
(* what the LEVM interpreter computes (the Levm operators), for words of     *)
(* WORD_BYTES bytes of BYTE_BITS bits.  The source has 32 bytes of 8 bits.   *)
EXTENDS Integers, Sequences, FiniteSets, FiniteSetsExt

CONSTANTS BYTE_BITS, WORD_BYTES

ASSUME WordAssumption == /\ BYTE_BITS \in Nat \ {0}
                         /\ WORD_BYTES \in Nat \ {0}

WORD_BITS == BYTE_BITS * WORD_BYTES
WORD == 2 ^ WORD_BITS
Word == 0 .. WORD - 1
MIN_SIGNED == 2 ^ (WORD_BITS - 1)

Bit(value, i) == (value \div 2 ^ i) % 2 = 1
Bits(value) == {i \in 0 .. WORD_BITS - 1 : Bit(value, i)}
FromBits(S) == MapThenSumSet(LAMBDA i : 2 ^ i, S)
Flag(b) == IF b THEN 1 ELSE 0

\* A word read as a two's complement integer, and back.
Signed(a) == IF a < MIN_SIGNED THEN a ELSE a - WORD
Unsigned(x) == x % WORD
Magnitude(x) == IF x < 0 THEN -x ELSE x
Sign(x) == IF x < 0 THEN -1 ELSE 1

----------------------------------------------------------------------------
(* LLVM instructions the generated code uses.                                *)

Shl(a, n) == (a * 2 ^ n) % WORD
Lshr(a, n) == a \div 2 ^ n
Ashr(a, n) == Unsigned(Signed(a) \div 2 ^ n)
Minui(a, b) == IF a < b THEN a ELSE b

----------------------------------------------------------------------------
(* codegen/operations.rs.  "any" is the outcome of an instruction that LLVM  *)
(* leaves undefined: the smallest signed number divided by -1.               *)

MlirDiv(a, b) == IF b = 0 THEN 0 ELSE a \div b

MlirMod(a, b) == IF b = 0 THEN 0 ELSE a % b

MlirSdiv(a, b, any) ==
  CASE b = 0 -> 0
    [] a = MIN_SIGNED /\ b = WORD - 1 -> any
    [] OTHER -> Unsigned(Sign(Signed(a)) * Sign(Signed(b))
                         * (Magnitude(Signed(a)) \div Magnitude(Signed(b))))

MlirSmod(a, b, any) ==
  CASE b = 0 -> 0
    [] a = MIN_SIGNED /\ b = WORD - 1 -> any
    [] OTHER -> Unsigned(Sign(Signed(a)) * (Magnitude(Signed(a)) % Magnitude(Signed(b))))

\* The sum is taken in one bit more, the product in twice the bits.
MlirAddmod(a, b, n) == IF n = 0 THEN 0 ELSE (a + b) % n

MlirMulmod(a, b, n) == IF n = 0 THEN 0 ELSE (a * b) % n

\* ipowi
MlirExp(a, n) == FoldSet(LAMBDA i, acc : (acc * a) % WORD, 1 % WORD, 1 .. n)

\* Faulty variant: the sign bit of the top byte is looked for one byte further.
MlirSignextendNextByte(b, value) ==
  LET size == Minui(b + 1, WORD_BYTES - 1)
      shift == (WORD_BITS - 1) - (size * BYTE_BITS + (BYTE_BITS - 1))
  IN  Ashr(Shl(value, shift), shift)

MlirSignextend(b, value) ==
  LET size == Minui(b, WORD_BYTES - 1)
      shift == (WORD_BITS - 1) - (size * BYTE_BITS + (BYTE_BITS - 1))
  IN  Ashr(Shl(value, shift), shift)

\* The comparison with 255 is strict, so a shift by 255 already gives zero.
MlirShr(n, value) == IF n < WORD_BITS - 1 THEN Lshr(value, n) ELSE 0

MlirShl(n, value) == IF n < WORD_BITS - 1 THEN Shl(value, n) ELSE 0

MlirSar(n, value) == Ashr(value, Minui(n, WORD_BITS - 1))

\* The bound is checked on the offset in bits, a product that wraps.
MlirByte(offset, value) ==
  LET offset_in_bits == (offset * BYTE_BITS) % WORD
      max_shift == (WORD_BYTES - 1) * BYTE_BITS
  IN  IF offset_in_bits > max_shift
      THEN 0
      ELSE Lshr(value, max_shift - offset_in_bits) % 2 ^ BYTE_BITS

MlirSlt(a, b) == Flag(Signed(a) < Signed(b))

MlirSgt(a, b) == Flag(Signed(a) > Signed(b))

And(a, b) == FromBits(Bits(a) \intersect Bits(b))
Or(a, b) == FromBits(Bits(a) \union Bits(b))
Xor(a, b) == FromBits((Bits(a) \union Bits(b)) \ (Bits(a) \intersect Bits(b)))
Not(a) == WORD - 1 - a

----------------------------------------------------------------------------
(* levm/src/vm.rs                                                            *)

\* What an operation of U256 that overflows returns: the interpreter panics.
PANIC == -1

is_negative(value) == Bit(value, WORD_BITS - 1)

\* The addition is the checked one of U256, so negating zero panics.
negate(value) == IF Not(value) + 1 = WORD THEN PANIC ELSE Not(value) + 1

LevmMagnitude(a) == IF is_negative(a) THEN negate(a) ELSE a

LevmSdiv(a, b) ==
  IF b = 0 THEN 0
  ELSE LET quotient == LevmMagnitude(a) \div LevmMagnitude(b)
       IN  IF is_negative(a) # is_negative(b) THEN negate(quotient) ELSE quotient

\* The sign of the remainder is taken from both operands.
LevmSmod(a, b) ==
  IF b = 0 THEN 0
  ELSE LET remainder == LevmMagnitude(a) % LevmMagnitude(b)
       IN  IF is_negative(a) # is_negative(b) THEN negate(remainder) ELSE remainder

\* The carry of the sum is accounted for by subtracting the divisor once.
LevmAddmod(a, b, n) ==
  IF n = 0 THEN 0
  ELSE LET overflow == a + b >= WORD
           remainder == ((a + b) % WORD) % n
       IN  IF overflow \/ remainder > n THEN (remainder - n) % WORD ELSE remainder

LevmMulmod(a, b, n) == IF n = 0 THEN 0 ELSE (a * b) % n

LevmSignextend(b, value) ==
  LET sign_bit_index == BYTE_BITS * Minui(b, WORD_BYTES - 1) + (BYTE_BITS - 1)
      mask == 2 ^ sign_bit_index - 1
  IN  IF Bit(value, sign_bit_index) THEN Or(value, Not(mask)) ELSE And(value, mask)

LevmSlt(a, b) ==
  IF is_negative(a) = is_negative(b) THEN Flag(a < b) ELSE Flag(is_negative(a))

LevmSgt(a, b) ==
  IF is_negative(a) = is_negative(b) THEN Flag(a > b) ELSE Flag(is_negative(b))

LevmByte(i, value) ==
  IF i < WORD_BYTES THEN Lshr(value, (WORD_BYTES - 1 - i) * BYTE_BITS) % 2 ^ BYTE_BITS ELSE 0

LevmShl(n, value) == IF n < WORD_BITS THEN Shl(value, n) ELSE 0

LevmShr(n, value) == IF n < WORD_BITS THEN Lshr(value, n) ELSE 0

arithmetic_shift_right(value, n) ==
  IF is_negative(value)
  THEN Or(Lshr(value, n), Shl(WORD - 1, WORD_BITS - n))
  ELSE Lshr(value, n)

LevmSar(n, value) ==
  IF n < WORD_BITS THEN arithmetic_shift_right(value, n)
  ELSE IF is_negative(value) THEN WORD - 1 ELSE 0
=============================================================================
