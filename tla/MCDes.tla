--------------------------------- MODULE MCDes ---------------------------------
(* Des with keys and blocks of the validation set of d3des.c:410-413.      *)
EXTENDS Des

\* A byte from its two hexadecimal digits, and a sequence of bytes.
ByteOf(n) == {i \in 0 .. 7 : (n \div 2 ^ i) % 2 = 1}
BytesOf(numbers) == [i \in 1 .. 8 |-> ByteOf(numbers[i])]
Mirrored(bytes) == [i \in 1 .. 8 |-> {7 - b : b \in bytes[i]}]

ValidKey == BytesOf(<<1, 35, 69, 103, 137, 171, 205, 239>>)
ValidPlain == BytesOf(<<1, 35, 69, 103, 137, 171, 205, 231>>)
ValidCipher == BytesOf(<<201, 87, 68, 37, 106, 94, 211, 29>>)

\* The reference reproduces the validation set.
ASSUME ValidationSet ==
    LET bits(block) == Bits(block)
    IN Standard!StandardDes(Standard!Encrypt, bits(ValidKey), bits(ValidPlain)) = bits(ValidCipher)

\* The set's key as this file has to be given it, and a short password whose
\* missing characters are zero bytes.
MCKeys == {Mirrored(ValidKey), BytesOf(<<115, 101, 99, 0, 0, 0, 0, 0>>)}
MCBlocks == {ValidPlain}

===============================================================================
