------------------------------ MODULE StandardDes ------------------------------
(***************************************************************************)
(* The Data Encryption Standard (ANSI X3.92, FIPS 46) as it is published:  *)
(* blocks and keys are sequences of 64 bits, numbered from 1, the first    *)
(* being the most significant bit of the first byte.  The reference that   *)
(* Des is checked against; nothing of it is taken from d3des.c.            *)
(***************************************************************************)
EXTENDS Naturals, Sequences

Permute(bits, by) == [i \in DOMAIN by |-> bits[by[i]]]
XorBits(a, b) == [i \in DOMAIN a |-> (a[i] + b[i]) % 2]

\* The halves of n bits of a block or of a key.
LeftHalf(bits, n) == [i \in 1 .. n |-> bits[i]]
RightHalf(bits, n) == [i \in 1 .. n |-> bits[i + n]]
RotateLeft(half, n) == [i \in 1 .. 28 |-> half[((i - 1 + n) % 28) + 1]]

IP == [i \in 1 .. 64 |->
    LET row == (i - 1) \div 8
        col == (i - 1) % 8
    IN 58 - 8 * col + 2 * (row % 4) - (IF row > 3 THEN 1 ELSE 0)]

Unpermute(bits, by) ==
    [i \in DOMAIN by |-> bits[CHOOSE j \in DOMAIN by : by[j] = i]]

Expansion == [i \in 1 .. 48 |->
    LET group == (i - 1) \div 6
        pos == (i - 1) % 6
    IN ((4 * group + pos + 31) % 32) + 1]

P ==
    <<16,  7, 20, 21, 29, 12, 28, 17,  1, 15, 23, 26,  5, 18, 31, 10,
       2,  8, 24, 14, 32, 27,  3,  9, 19, 13, 30,  6, 22, 11,  4, 25>>

PC1 ==
    <<57, 49, 41, 33, 25, 17,  9,  1, 58, 50, 42, 34, 26, 18,
      10,  2, 59, 51, 43, 35, 27, 19, 11,  3, 60, 52, 44, 36,
      63, 55, 47, 39, 31, 23, 15,  7, 62, 54, 46, 38, 30, 22,
      14,  6, 61, 53, 45, 37, 29, 21, 13,  5, 28, 20, 12,  4>>

PC2 ==
    <<14, 17, 11, 24,  1,  5,  3, 28, 15,  6, 21, 10,
      23, 19, 12,  4, 26,  8, 16,  7, 27, 20, 13,  2,
      41, 52, 31, 37, 47, 55, 30, 40, 51, 45, 33, 48,
      44, 49, 39, 56, 34, 53, 46, 42, 50, 36, 29, 32>>

LeftShifts == <<1, 1, 2, 2, 2, 2, 2, 2, 1, 2, 2, 2, 2, 2, 2, 1>>

S1 ==
    <<14,  4, 13,  1,  2, 15, 11,  8,  3, 10,  6, 12,  5,  9,  0,  7,
      0, 15,  7,  4, 14,  2, 13,  1, 10,  6, 12, 11,  9,  5,  3,  8,
      4,  1, 14,  8, 13,  6,  2, 11, 15, 12,  9,  7,  3, 10,  5,  0,
     15, 12,  8,  2,  4,  9,  1,  7,  5, 11,  3, 14, 10,  0,  6, 13>>

S2 ==
    <<15,  1,  8, 14,  6, 11,  3,  4,  9,  7,  2, 13, 12,  0,  5, 10,
      3, 13,  4,  7, 15,  2,  8, 14, 12,  0,  1, 10,  6,  9, 11,  5,
      0, 14,  7, 11, 10,  4, 13,  1,  5,  8, 12,  6,  9,  3,  2, 15,
     13,  8, 10,  1,  3, 15,  4,  2, 11,  6,  7, 12,  0,  5, 14,  9>>

S3 ==
    <<10,  0,  9, 14,  6,  3, 15,  5,  1, 13, 12,  7, 11,  4,  2,  8,
     13,  7,  0,  9,  3,  4,  6, 10,  2,  8,  5, 14, 12, 11, 15,  1,
     13,  6,  4,  9,  8, 15,  3,  0, 11,  1,  2, 12,  5, 10, 14,  7,
      1, 10, 13,  0,  6,  9,  8,  7,  4, 15, 14,  3, 11,  5,  2, 12>>

S4 ==
    << 7, 13, 14,  3,  0,  6,  9, 10,  1,  2,  8,  5, 11, 12,  4, 15,
     13,  8, 11,  5,  6, 15,  0,  3,  4,  7,  2, 12,  1, 10, 14,  9,
     10,  6,  9,  0, 12, 11,  7, 13, 15,  1,  3, 14,  5,  2,  8,  4,
      3, 15,  0,  6, 10,  1, 13,  8,  9,  4,  5, 11, 12,  7,  2, 14>>

S5 ==
    << 2, 12,  4,  1,  7, 10, 11,  6,  8,  5,  3, 15, 13,  0, 14,  9,
     14, 11,  2, 12,  4,  7, 13,  1,  5,  0, 15, 10,  3,  9,  8,  6,
      4,  2,  1, 11, 10, 13,  7,  8, 15,  9, 12,  5,  6,  3,  0, 14,
     11,  8, 12,  7,  1, 14,  2, 13,  6, 15,  0,  9, 10,  4,  5,  3>>

S6 ==
    <<12,  1, 10, 15,  9,  2,  6,  8,  0, 13,  3,  4, 14,  7,  5, 11,
     10, 15,  4,  2,  7, 12,  9,  5,  6,  1, 13, 14,  0, 11,  3,  8,
      9, 14, 15,  5,  2,  8, 12,  3,  7,  0,  4, 10,  1, 13, 11,  6,
      4,  3,  2, 12,  9,  5, 15, 10, 11, 14,  1,  7,  6,  0,  8, 13>>

S7 ==
    << 4, 11,  2, 14, 15,  0,  8, 13,  3, 12,  9,  7,  5, 10,  6,  1,
     13,  0, 11,  7,  4,  9,  1, 10, 14,  3,  5, 12,  2, 15,  8,  6,
      1,  4, 11, 13, 12,  3,  7, 14, 10, 15,  6,  8,  0,  5,  9,  2,
      6, 11, 13,  8,  1,  4, 10,  7,  9,  5,  0, 15, 14,  2,  3, 12>>

S8 ==
    <<13,  2,  8,  4,  6, 15, 11,  1, 10,  9,  3, 14,  5,  0, 12,  7,
      1, 15, 13,  8, 10,  3,  7,  4, 12,  5,  6, 11,  0, 14,  9,  2,
      7, 11,  4,  1,  9, 12, 14,  2,  0,  6, 10, 13, 15,  3,  5,  8,
      2,  1, 14,  7,  4, 10,  8, 13, 15, 12,  9,  0,  3,  5,  6, 11>>

S == <<S1, S2, S3, S4, S5, S6, S7, S8>>

\* How far the halves of the key have been shifted by round r.
Shifted[r \in 0 .. 16] == IF r = 0 THEN 0 ELSE Shifted[r - 1] + LeftShifts[r]

KeyOfRound(key, r) ==
    LET cd == Permute(key, PC1)
    IN Permute(RotateLeft(LeftHalf(cd, 28), Shifted[r])
                    \o RotateLeft(RightHalf(cd, 28), Shifted[r]), PC2)

\* Box i on six bits: the outer two choose the row, the inner four the column.
Box(i, six) ==
    LET row == 2 * six[1] + six[6]
        column == 8 * six[2] + 4 * six[3] + 2 * six[4] + six[5]
        v == S[i][16 * row + column + 1]
    IN <<(v \div 8) % 2, (v \div 4) % 2, (v \div 2) % 2, v % 2>>

Cipher(right, roundKey) ==
    LET in == XorBits(Permute(right, Expansion), roundKey)
        out == [i \in 1 .. 8 |-> Box(i, [p \in 1 .. 6 |-> in[6 * (i - 1) + p]])]
    IN Permute([n \in 1 .. 32 |-> out[((n - 1) \div 4) + 1][((n - 1) % 4) + 1]], P)

Round(block, roundKey) ==
    RightHalf(block, 32) \o XorBits(LeftHalf(block, 32), Cipher(RightHalf(block, 32), roundKey))

Encrypt == "encrypt"
Decrypt == "decrypt"

\* The rounds of a block, whose keys decryption takes from the last to the first.
Rounds(mode, key, block) ==
    LET after[r \in 0 .. 16] ==
            IF r = 0
            THEN Permute(block, IP)
            ELSE Round(after[r - 1], KeyOfRound(key, IF mode = Encrypt THEN r ELSE 17 - r))
    IN after

\* The block under the key: the halves are exchanged after the last round.
StandardDes(mode, key, block) ==
    LET last == Rounds(mode, key, block)[16]
    IN Unpermute(RightHalf(last, 32) \o LeftHalf(last, 32), IP)

===============================================================================
