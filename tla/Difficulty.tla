----------------------------- MODULE Difficulty -----------------------------
(***************************************************************************)
(* The proof-of-work arithmetic of pow.cpp and the compact target format   *)
(* of arith_uint256.cpp, as pure operators.                                *)
(*                                                                         *)
(* Targets are unsigned integers of BITS bits (256 in the code) and wrap   *)
(* as arith_uint256 does.  A compact target is a size in bytes of BYTE     *)
(* bits (8 in the code) and a three-byte word without its top bit, the     *)
(* sign: no negative number is represented.  Small values of BITS and BYTE *)
(* keep every rounding and overflow case of the real widths.  The rules    *)
(* are those of the networks with retargeting: no minimum-difficulty       *)
(* blocks.                                                                 *)
(***************************************************************************)
EXTENDS Integers

CONSTANTS BITS,                             \* width of arith_uint256
          BYTE,                             \* bits in a byte of the compact form
          powLimit,                         \* the easiest target
          nPowTargetTimespan,
          DifficultyAdjustmentInterval      \* blocks between retargets

\* Four times the easiest target fits the width, as on every network whose
\* difficulty changes (powLimit is below 2^240 there), and clamping never
\* yields an empty timespan.
ASSUME WidthAssumption ==
    /\ BITS \in Nat \ {0} /\ BYTE \in Nat \ {0}
    /\ powLimit \in Nat \ {0} /\ 4 * powLimit < 2^BITS
    /\ nPowTargetTimespan \in Nat /\ nPowTargetTimespan >= 4
    /\ 4 * nPowTargetTimespan * nPowTargetTimespan < 2^BITS
    /\ DifficultyAdjustmentInterval \in Nat \ {0}

Wrap(n) == n % 2^BITS
SmallerOf(a, b) == IF a < b THEN a ELSE b
LargerOf(a, b) == IF a < b THEN b ELSE a

\* Bytes needed for value: the least size whose power of the base exceeds it.
ByteLength(value) == CHOOSE size \in 0..BITS :
    /\ value < 2^(BYTE * size)
    /\ size = 0 \/ value >= 2^(BYTE * (size - 1))

SetCompact(nCompact) ==
    IF nCompact.size <= 3
      THEN nCompact.word \div 2^(BYTE * (3 - nCompact.size))
      ELSE Wrap(nCompact.word * 2^(BYTE * (nCompact.size - 3)))

\* A compact form whose value does not fit the width.
Overflows(nCompact) ==
    nCompact.size > 3 /\ nCompact.word * 2^(BYTE * (nCompact.size - 3)) >= 2^BITS

\* The three leading bytes of a value that needs size bytes.
LeadingBytes(value, size) ==
    IF size <= 3 THEN value * 2^(BYTE * (3 - size)) ELSE value \div 2^(BYTE * (size - 3))

\* A word whose sign bit would be set loses its last byte.
Unsigned(size, word) ==
    IF word < 2^(3 * BYTE - 1) THEN [size |-> size, word |-> word]
    ELSE [size |-> size + 1, word |-> word \div 2^BYTE]

CompactOfSize(value, size) == Unsigned(size, LeadingBytes(value, size))
GetCompact(value) == CompactOfSize(value, ByteLength(value))

MultiplyDivide(value, multiplier, divisor) ==
    Wrap(Wrap((value \div divisor) * multiplier)
         + Wrap((value % divisor) * multiplier) \div divisor)

smallest_timespan == nPowTargetTimespan \div 4
largest_timespan == nPowTargetTimespan * 4

\* The compact target after an interval with target old that took timespan.
Retarget(old, timespan) ==
    GetCompact(SmallerOf(powLimit, MultiplyDivide(old, timespan, nPowTargetTimespan)))

CalculateNextWorkRequired(nBits, timespan) ==
    Retarget(SetCompact(nBits),
             SmallerOf(largest_timespan, LargerOf(smallest_timespan, timespan)))

PermittedTarget(old, new) ==
    new \in SetCompact(Retarget(old, smallest_timespan))..SetCompact(Retarget(old, largest_timespan))

PermittedDifficultyTransition(height, old_nbits, new_nbits) ==
    IF height % DifficultyAdjustmentInterval = 0
      THEN PermittedTarget(SetCompact(old_nbits), SetCompact(new_nbits))
      ELSE old_nbits = new_nbits

\* The target of nBits, if it is one a block may have.
DerivesTarget(nBits) == ~Overflows(nBits) /\ SetCompact(nBits) \in 1..powLimit

\* GetBlockProof: the expected number of hashes, 2^BITS / (target + 1).
GetBlockProof(nBits) ==
    IF SetCompact(nBits) = 0 \/ Overflows(nBits) THEN 0 ELSE 2^BITS \div (SetCompact(nBits) + 1)
=============================================================================
