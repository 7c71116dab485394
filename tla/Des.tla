---------------------------------- MODULE Des ----------------------------------
(***************************************************************************)
(* d3des.c: the key register KnL, the calls that set it (rfbDesKey,        *)
(* rfbUseKey), copy it (rfbCPKey) and encrypt with it (rfbDes).            *)
(*                                                                         *)
(* A byte or an unsigned long is the set of the positions of its one bits, *)
(* so xor is the symmetric difference of sets and a shift moves positions. *)
(* An unsigned long has LongBits bits: 64 on the platforms the program is  *)
(* built for, where the code shifts bits past the 32 it means.             *)
(***************************************************************************)
EXTENDS Naturals, Sequences, SequencesExt

CONSTANTS
    LongBits,   \* bits of an unsigned long
    HexKeys,    \* keys the callers use: 8 bytes
    Blocks,     \* blocks they encrypt: 8 bytes
    MaxCalls    \* calls in a run

Byte == SUBSET (0 .. 7)
Long == SUBSET (0 .. LongBits - 1)

ASSUME DesAssumption ==
    /\ LongBits \in {32, 64}
    /\ HexKeys \subseteq [1 .. 8 -> Byte]
    /\ Blocks \subseteq [1 .. 8 -> Byte]
    /\ MaxCalls \in Nat

EN0 == "encrypt"
DE1 == "decrypt"
Modes == {EN0, DE1}

-------------------------------------------------------------------------------
(* Words.                                                                  *)

Xor(a, b) == (a \ b) \cup (b \ a)
Shl(a, n) == {i + n : i \in a} \cap (0 .. LongBits - 1)
Shr(a, n) == {i - n : i \in {j \in a : j >= n}}

\* The mask of the bits from..to.
Mask(from, to) == from .. to

\* 0x0f0f0f0f, 0x0000ffff, 0x33333333, 0x00ff00ff: the low half of every group
\* of 2n bits.  0xaaaaaaaa: the odd bits.
Halves(n) == {i \in 0 .. 31 : i % (2 * n) < n}
OddBits == {i \in 0 .. 31 : i % 2 = 1}

\* The low six bits of a as a number.
Index(a) ==
    LET bit(i) == IF i \in a THEN 2 ^ i ELSE 0
    IN bit(0) + bit(1) + bit(2) + bit(3) + bit(4) + bit(5)

-------------------------------------------------------------------------------
(* The key schedule.                                                       *)

\* (mutant) The bits of a key byte from the most significant one.
bytebitForward == [m \in 0 .. 7 |-> 7 - m]

\* bytebit[m] is 1 << m, bigbyte[j] is 1 << (23 - j).
bytebit == [m \in 0 .. 7 |-> m]
bigbyte == [j \in 0 .. 23 |-> 23 - j]

\* The tables are indexed from 0, TLA+ sequences from 1.
pc1 ==
    <<56, 48, 40, 32, 24, 16,  8,  0, 57, 49, 41, 33, 25, 17,
       9,  1, 58, 50, 42, 34, 26, 18, 10,  2, 59, 51, 43, 35,
      62, 54, 46, 38, 30, 22, 14,  6, 61, 53, 45, 37, 29, 21,
      13,  5, 60, 52, 44, 36, 28, 20, 12,  4, 27, 19, 11,  3>>

totrot == <<1, 2, 4, 6, 8, 10, 12, 14, 15, 17, 19, 21, 23, 25, 27, 28>>

pc2 ==
    <<13, 16, 10, 23,  0,  4,  2, 27, 14,  5, 20,  9,
      22, 18, 11,  3, 25,  7, 15,  6, 26, 19, 12,  1,
      40, 51, 30, 36, 46, 54, 29, 39, 50, 44, 32, 47,
      43, 48, 38, 55, 33, 52, 45, 41, 49, 35, 28, 31>>

\* pc1m[j]: the bit of the key that pc1 puts at j.
pc1m(key) ==
    [j \in 0 .. 55 |-> LET l == pc1[j + 1] IN bytebit[l % 8] \in key[(l \div 8) + 1]]

\* pcr[j] in round i: each half rotated by totrot[i].
pcr(key, i) ==
    LET bits == pc1m(key)
    IN [j \in 0 .. 55 |->
           LET l == j + totrot[i + 1]
           IN bits[IF l < (IF j < 28 THEN 28 ELSE 56) THEN l ELSE l - 28]]

\* (mutant) Decryption counts down from 16.
SlotFromSixteen(i, edf) == IF edf = DE1 THEN (16 - i) % 16 ELSE i

\* Which pair of kn round i goes to.
Slot(i, edf) == IF edf = DE1 THEN 15 - i ELSE i

\* kn before cookey: two words of 24 bits for every round.
Raw(key, edf) ==
    LET bits == [i \in 0 .. 15 |-> pcr(key, Slot(i, edf))]
    IN [k \in 0 .. 31 |->
           {bigbyte[j] : j \in {n \in 0 .. 23 : bits[k \div 2][pc2[n + 1 + 24 * (k % 2)]]}}]

\* (mutant) The last group of six bits is not masked.
cookeyUnmasked(raw) ==
    [k \in 0 .. 31 |->
        LET raw0 == raw[2 * (k \div 2)]
            raw1 == raw[2 * (k \div 2) + 1]
        IN IF k % 2 = 0
           THEN UNION {Shl(raw0 \cap Mask(18, 23), 6), Shl(raw0 \cap Mask(6, 11), 10),
                       Shr(raw1 \cap Mask(18, 23), 10), Shr(raw1 \cap Mask(6, 11), 6)}
           ELSE UNION {Shl(raw0 \cap Mask(12, 17), 12), Shl(raw0 \cap Mask(0, 5), 16),
                       Shr(raw1 \cap Mask(12, 17), 4), raw1}]

\* cookey: the groups of six bits, four of the eight to a word.
cookey(raw) ==
    [k \in 0 .. 31 |->
        LET raw0 == raw[2 * (k \div 2)]
            raw1 == raw[2 * (k \div 2) + 1]
        IN IF k % 2 = 0
           THEN UNION {Shl(raw0 \cap Mask(18, 23), 6), Shl(raw0 \cap Mask(6, 11), 10),
                       Shr(raw1 \cap Mask(18, 23), 10), Shr(raw1 \cap Mask(6, 11), 6)}
           ELSE UNION {Shl(raw0 \cap Mask(12, 17), 12), Shl(raw0 \cap Mask(0, 5), 16),
                       Shr(raw1 \cap Mask(12, 17), 4), raw1 \cap Mask(0, 5)}]

Cooked(key, edf) == cookey(Raw(key, edf))

-------------------------------------------------------------------------------
(* The rounds.                                                             *)

\* An SP table: its entries have one bits at four positions only, bits[1] the
\* highest; digits[i + 1] says which of them entry i has.
Table(bits, digits) ==
    [i \in 0 .. 63 |-> {bits[b] : b \in {c \in 1 .. 4 : (digits[i + 1] \div 2 ^ (4 - c)) % 2 = 1}}]

SP1 == Table(<<24, 16, 10, 2>>,
    <<14,  0,  4, 15, 13,  7,  1,  4,  2, 14, 15,  2, 11, 13,  8,  1,
       3, 10, 10,  6,  6, 12, 12, 11,  5,  9,  9,  5,  0,  3,  7,  8,
       4, 15,  1, 12, 14,  8,  8,  2, 13,  4,  6,  9,  2,  1, 11,  7,
      15,  5, 12, 11,  9,  3,  7, 14,  3, 10, 10,  0,  5,  6,  0, 13>>)

SP2 == Table(<<31, 20, 15, 5>>,
    <<15, 10,  2,  7,  4,  1, 13, 11,  9, 15, 14,  8, 10,  4,  1, 13,
       6,  5, 11,  0,  8,  2,  7, 12,  5,  9,  0,  6,  3, 14, 12,  3,
       0,  7, 13,  4, 11, 12, 14,  2, 12, 10,  1, 15,  7,  1,  2,  8,
       3, 14,  4,  9,  5, 11,  9,  5,  6,  0, 10,  3,  8, 13, 15,  6>>)

SP3 == Table(<<27, 17, 9, 3>>,
    << 3, 14,  0, 13, 10,  0,  7, 10,  5,  9,  9,  4, 15,  5, 12,  3,
       8,  1, 14,  2,  6, 12, 13,  7, 11,  6,  4, 11,  1, 15,  2,  8,
      14,  8,  5,  3,  4, 14, 10,  0,  2,  5, 15, 10,  9,  2,  0, 13,
      11,  4,  8, 15,  1,  7,  6,  9, 12, 11,  3, 12,  7,  1, 13,  6>>)

SP4 == Table(<<23, 13, 7, 0>>,
    <<13,  7,  7,  2, 14, 11,  9,  5,  0, 12, 12, 15,  3,  0, 10,  9,
       1,  4,  8, 13,  2,  8,  5,  6, 11,  1,  6, 10,  4, 14, 15,  3,
      10,  9, 12, 15,  3,  0,  0, 12,  6, 10, 11,  1, 13,  7,  7,  2,
      15,  3,  1,  4,  9,  5, 14, 11,  5,  6,  8, 13,  2,  8,  4, 14>>)

SP5 == Table(<<30, 25, 19, 8>>,
    << 1,  7,  6, 13,  2,  1,  8,  6, 11,  2,  5, 11, 13, 14,  3,  8,
       4, 10, 10,  0,  9, 15, 15,  5, 14,  9,  0, 12,  7,  4, 12,  3,
       2, 13,  1,  4,  8,  6, 13, 11,  5,  8, 14,  7, 11,  1,  4, 14,
      15,  3, 12, 15,  6,  0, 10, 12,  3,  5,  9,  2,  0, 10,  7,  9>>)

SP6 == Table(<<29, 22, 14, 4>>,
    << 9, 12,  2, 15, 12,  1, 15,  4, 10,  7,  4,  9,  5, 10,  8,  3,
       0,  5, 11,  2,  6, 11,  1, 13, 13,  0,  7, 14,  3,  6, 14,  8,
      10,  1, 13,  6, 15,  4,  3,  9,  4, 10,  8,  3,  9, 15,  6, 12,
       7, 14,  0, 13,  1,  2, 12,  7,  2,  5, 11,  0, 14,  8,  5, 11>>)

SP7 == Table(<<26, 21, 11, 1>>,
    << 4, 13, 11,  0,  2, 11,  7, 14, 15,  4,  0,  9,  1,  8, 13,  3,
      10,  7,  5, 10,  9, 12, 14,  5, 12,  2,  3, 15,  6,  1,  8,  6,
       8,  6,  4, 11, 11, 13, 13,  1,  5,  8, 10,  4, 14,  3,  7, 14,
       3,  9, 15, 12,  6,  0,  1, 15,  0,  7, 12,  2,  9, 10,  2,  5>>)

SP8 == Table(<<28, 18, 12, 6>>,
    <<11,  2,  4, 15,  8, 11,  1,  8,  5, 12, 15,  6, 14,  7,  2,  1,
      12,  9, 10,  3,  6,  5, 13, 14,  3,  0,  0, 13,  9, 10,  7,  4,
       7,  4, 14,  2,  1, 13,  2,  7, 10,  1,  9, 12, 13,  8,  4, 11,
       0, 15,  5,  9, 12, 10, 11,  0, 15,  6,  6,  3,  3,  5,  8, 14>>)

\* The words of a block, the first byte being the highest.
scrunch(block) ==
    [l |-> UNION {Shl(block[i], 32 - 8 * i) : i \in 1 .. 4},
     r |-> UNION {Shl(block[i], 64 - 8 * i) : i \in 5 .. 8}]

unscrun(w) ==
    [i \in 1 .. 8 |->
        IF i <= 4 THEN Shr(w.l, 32 - 8 * i) \cap Mask(0, 7) ELSE Shr(w.r, 64 - 8 * i) \cap Mask(0, 7)]

\* work = ((a >> n) ^ b) & mask; b ^= work; a ^= work << n, with leftt as a ...
SwapLeft(w, n, mask) ==
    LET work == Xor(Shr(w.l, n), w.r) \cap mask
    IN [l |-> Xor(w.l, Shl(work, n)), r |-> Xor(w.r, work)]

\* ... and with right as a.
SwapRight(w, n, mask) ==
    LET work == Xor(Shr(w.r, n), w.l) \cap mask
    IN [l |-> Xor(w.l, work), r |-> Xor(w.r, Shl(work, n))]

\* ((a << 1) | ((a >> 31) & 1)) & 0xffffffff, and without a mask a << 31 | a >> 1.
RotateUp(a) == (Shl(a, 1) \cup (Shr(a, 31) \cap Mask(0, 0))) \cap Mask(0, 31)
RotateDown(a) == Shl(a, 31) \cup Shr(a, 1)

InitialPermutation(w) ==
    LET a == SwapLeft(SwapLeft(w, 4, Halves(4)), 16, Halves(16))
        b == SwapRight(SwapRight(a, 2, Halves(2)), 8, Halves(8))
        c == SwapLeft([b EXCEPT !.r = RotateUp(@)], 0, OddBits)
    IN [c EXCEPT !.l = RotateUp(@)]

\* (mutant) The low bit of right is lost, not moved up, when it is shifted.
FinalPermutationShifted(w) ==
    LET a == SwapLeft([w EXCEPT !.r = Shr(@, 1)], 0, OddBits)
        b == SwapLeft([a EXCEPT !.l = RotateDown(@)], 8, Halves(8))
        c == SwapLeft(b, 2, Halves(2))
        d == SwapRight(SwapRight(c, 16, Halves(16)), 4, Halves(4))
    IN [l |-> d.r, r |-> d.l]

FinalPermutation(w) ==
    LET a == SwapLeft([w EXCEPT !.r = RotateDown(@)], 0, OddBits)
        b == SwapLeft([a EXCEPT !.l = RotateDown(@)], 8, Halves(8))
        c == SwapLeft(b, 2, Halves(2))
        d == SwapRight(SwapRight(c, 16, Halves(16)), 4, Halves(4))
    IN [l |-> d.r, r |-> d.l]

\* fval of one half, under two words of the key.
fval(half, key0, key1) ==
    LET work == Xor(Shl(half, 28) \cup Shr(half, 4), key0)
        work1 == Xor(half, key1)
    IN UNION {SP7[Index(work)], SP5[Index(Shr(work, 8))],
              SP3[Index(Shr(work, 16))], SP1[Index(Shr(work, 24))],
              SP8[Index(work1)], SP6[Index(Shr(work1, 8))],
              SP4[Index(Shr(work1, 16))], SP2[Index(Shr(work1, 24))]}

\* Half a pass of the loop: leftt changes in the even ones, right in the odd.
HalfRound(w, keys, i) ==
    IF i % 2 = 0
    THEN [w EXCEPT !.l = Xor(@, fval(w.r, keys[2 * i], keys[2 * i + 1]))]
    ELSE [w EXCEPT !.r = Xor(@, fval(w.l, keys[2 * i], keys[2 * i + 1]))]

\* The words of w after each half pass.
HalfRounds(w, keys) ==
    LET after[i \in 0 .. 16] ==
            IF i = 0 THEN InitialPermutation(w) ELSE HalfRound(after[i - 1], keys, i - 1)
    IN after

desfunc(w, keys) == FinalPermutation(HalfRounds(w, keys)[16])

Enciphered(keys, block) == unscrun(desfunc(scrunch(block), keys))

-------------------------------------------------------------------------------
(* The calls.  The program makes them with global_m held, one at a time.   *)

VARIABLES
    KnL,        \* the key register: 32 words
    cooked,     \* the array a caller keeps for rfbCPKey and rfbUseKey
    from, to,   \* the blocks of the last rfbDes
    calls,
    \* History: the key and the mode that KnL and cooked hold and that to was
    \* computed with.
    holds, cookedHolds, under

vars == <<KnL, cooked, from, to, calls, holds, cookedHolds, under>>

ZeroWords == [k \in 0 .. 31 |-> {}]
ZeroBytes == [i \in 1 .. 8 |-> {}]

\* The words of KnL are zero at first, as they are for a key of zero bytes.
Unset == [key |-> ZeroBytes, edf |-> EN0]

Init ==
    /\ KnL = ZeroWords
    /\ cooked = ZeroWords
    /\ from = ZeroBytes
    /\ to = ZeroBytes
    /\ calls = 0
    /\ holds = Unset
    /\ cookedHolds = Unset
    /\ under = [key |-> ZeroBytes, edf |-> "none"]

Call ==
    /\ calls < MaxCalls
    /\ calls' = calls + 1

rfbDesKey(key, edf) ==
    /\ Call
    /\ KnL' = Cooked(key, edf)
    /\ holds' = [key |-> key, edf |-> edf]
    /\ UNCHANGED <<cooked, from, to, cookedHolds, under>>

rfbCPKey ==
    /\ Call
    /\ cooked' = KnL
    /\ cookedHolds' = holds
    /\ UNCHANGED <<KnL, from, to, holds, under>>

rfbUseKey ==
    /\ Call
    /\ KnL' = cooked
    /\ holds' = cookedHolds
    /\ UNCHANGED <<cooked, from, to, cookedHolds, under>>

\* The input may be the block the last call wrote: "They can be the same".
rfbDes(inblock) ==
    /\ Call
    /\ from' = inblock
    /\ to' = Enciphered(KnL, inblock)
    /\ under' = holds
    /\ UNCHANGED <<KnL, cooked, holds, cookedHolds>>

Next ==
    \/ \E key \in HexKeys, edf \in Modes : rfbDesKey(key, edf)
    \/ rfbCPKey
    \/ rfbUseKey
    \/ \E inblock \in Blocks \cup {to} : rfbDes(inblock)

Spec == Init /\ [][Next]_vars

-------------------------------------------------------------------------------
(* Properties.                                                             *)

\* The standard's bits of a block: the first is the highest of the first byte.
Bits(block) ==
    [n \in 1 .. 64 |-> IF 7 - ((n - 1) % 8) \in block[((n - 1) \div 8) + 1] THEN 1 ELSE 0]

\* The standard's bits of a key as this file reads it: "the bytebit[] array has
\* been reversed" (d3des.c:4), so the first is the lowest of the first byte.
KeyBits(key) ==
    [n \in 1 .. 64 |-> IF (n - 1) % 8 \in key[((n - 1) \div 8) + 1] THEN 1 ELSE 0]

Standard == INSTANCE StandardDes

\* A word of the register has its 24 bits in the low six of every byte, where
\* the masks of the rounds (& 0x3fL) look for them: nothing cookey shifts
\* falls outside, and nothing rfbUseKey brings back does.
SixBitGroups ==
    /\ \A k \in 0 .. 31 : \A i \in KnL[k] : i < 32 /\ i % 8 < 6
    /\ to \in [1 .. 8 -> Byte]

\* "Encrypts/Decrypts (according to the key currently loaded in the internal
\* key register)" (d3des.h:50): whatever calls set and restored the register,
\* rfbDes is the standard's cipher, and the bits that the rotations of desfunc
\* shift above the 32nd of a long never reach the block.
IsStandardDes ==
    under.edf \in Modes =>
        Bits(to) = Standard!StandardDes(under.edf, KeyBits(under.key), Bits(from))

\* What rfbDes wrote in one mode, it turns back in the other, with the key
\* from rfbDesKey or kept by rfbCPKey meanwhile.
Decrypts ==
    [][(rfbDes(to) /\ under.key = holds.key /\ {under.edf, holds.edf} = Modes)
       => to' = from]_vars

\* "the most significant bit in each byte of the key is ignored" (d3des.c:4):
\* passwords that differ in the top bit of a character are the same password.
TopBitsIgnored ==
    \A i \in 1 .. 8 :
        KnL = Cooked([holds.key EXCEPT ![i] = Xor(@, {7})], holds.edf)

===============================================================================
