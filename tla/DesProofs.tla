------------------------------- MODULE DesProofs -------------------------------
(***************************************************************************)
(* Theorems about d3des.c, for every key, every block and every sequence   *)
(* of calls: what is in the key register is the schedule of the key that   *)
(* was set or brought back last, no round sees anything of a word but its  *)
(* groups of six bits, the top bit of a key byte is ignored, rfbDes in one *)
(* mode turns back what it did in the other, and it is the cipher of the   *)
(* standard.                                                               *)
(***************************************************************************)
EXTENDS Des, SequenceTheorems, TLAPS

Key == [1 .. 8 -> Byte]

-------------------------------------------------------------------------------
(* The tables.                                                             *)

\* pc1 picks bits of the key, and never bit 7 of a byte.
LEMMA Pc1Picks == \A j \in 1 .. 56 : pc1[j] \in 0 .. 63 /\ pc1[j] % 8 # 7
BY DEF pc1

\* pc2 picks bits of a rotated key.
LEMMA Pc2Picks == \A j \in 1 .. 48 : pc2[j] \in 0 .. 55
BY DEF pc2

\* No rotation is longer than a half.
LEMMA Rotations == \A i \in 1 .. 16 : totrot[i] \in 1 .. 28
BY DEF totrot

-------------------------------------------------------------------------------
(* The key schedule.                                                       *)

\* The bits that pc1 does not pick do not matter.
LEMMA TopBitUnused ==
    ASSUME NEW key \in Key, NEW i \in 1 .. 8
    PROVE  pc1m([key EXCEPT ![i] = Xor(@, {7})]) = pc1m(key)
<1> DEFINE other == [key EXCEPT ![i] = Xor(@, {7})]
<1>1. ASSUME NEW m \in 1 .. 8, NEW b \in 0 .. 6
      PROVE  b \in other[m] <=> b \in key[m]
  BY DEF Xor, Key
<1> HIDE DEF other
<1>2. ASSUME NEW j \in 0 .. 55
      PROVE  (bytebit[pc1[j + 1] % 8] \in other[(pc1[j + 1] \div 8) + 1])
                 = (bytebit[pc1[j + 1] % 8] \in key[(pc1[j + 1] \div 8) + 1])
  <2>0. j + 1 \in 1 .. 56
    OBVIOUS
  <2>1. PICK l \in 0 .. 63 : l = pc1[j + 1] /\ l % 8 # 7
    BY <2>0, Pc1Picks
  <2>2. l % 8 \in 0 .. 6 /\ (l \div 8) + 1 \in 1 .. 8 /\ bytebit[l % 8] = l % 8
    BY <2>1 DEF bytebit
  <2> QED BY <1>1, <2>1, <2>2
<1> QED BY <1>2, Zenon DEF pc1m, other

\* The schedule of a key without them is the same.
LEMMA TopBitSchedule ==
    ASSUME NEW key \in Key, NEW i \in 1 .. 8, NEW edf
    PROVE  Cooked([key EXCEPT ![i] = Xor(@, {7})], edf) = Cooked(key, edf)
<1> DEFINE other == [key EXCEPT ![i] = Xor(@, {7})]
<1>1. pc1m(other) = pc1m(key)
  BY TopBitUnused
<1> HIDE DEF other
<1>2. \A r : pcr(other, r) = pcr(key, r)
  BY <1>1, Zenon DEF pcr
<1>3. [r \in 0 .. 15 |-> pcr(other, Slot(r, edf))] = [r \in 0 .. 15 |-> pcr(key, Slot(r, edf))]
  BY <1>2, Zenon
<1>4. Raw(other, edf) = Raw(key, edf)
  BY <1>3, Zenon DEF Raw
<1> QED BY <1>4, Zenon DEF Cooked, other

\* A word before cookey has 24 bits.
LEMMA RawWords ==
    ASSUME NEW key, NEW edf, NEW k \in 0 .. 31
    PROVE  Raw(key, edf)[k] \subseteq 0 .. 23
<1>1. Raw(key, edf)[k] \subseteq {bigbyte[j] : j \in 0 .. 23}
  BY Zenon DEF Raw
<1>2. \A j \in 0 .. 23 : bigbyte[j] \in 0 .. 23
  BY DEF bigbyte
<1> QED BY <1>1, <1>2

\* cookey puts each of its groups into the low six bits of a byte.
LEMMA GroupsOfSix ==
    ASSUME NEW raw, \A k \in 0 .. 31 : raw[k] \subseteq 0 .. 23, NEW k \in 0 .. 31,
           NEW i \in cookey(raw)[k]
    PROVE  i < 32 /\ i % 8 < 6
<1>1. PICK a \in SUBSET (0 .. 23), b \in SUBSET (0 .. 23) :
          a = raw[2 * (k \div 2)] /\ b = raw[2 * (k \div 2) + 1]
  <2>1. 2 * (k \div 2) \in 0 .. 31 /\ 2 * (k \div 2) + 1 \in 0 .. 31
    OBVIOUS
  <2> QED BY <2>1
<1>2. CASE k % 2 = 0
  <2>1. i \in UNION {Shl(a \cap Mask(18, 23), 6), Shl(a \cap Mask(6, 11), 10),
                     Shr(b \cap Mask(18, 23), 10), Shr(b \cap Mask(6, 11), 6)}
    BY <1>1, <1>2 DEF cookey
  <2>2. \/ \E j \in 18 .. 23 : i = j + 6
        \/ \E j \in 6 .. 11 : i = j + 10
        \/ \E j \in 18 .. 23 : i = j - 10
        \/ \E j \in 6 .. 11 : i = j - 6
    BY <2>1 DEF Shl, Shr, Mask
  <2> QED BY <2>2
<1>3. CASE k % 2 # 0
  <2>1. i \in UNION {Shl(a \cap Mask(12, 17), 12), Shl(a \cap Mask(0, 5), 16),
                     Shr(b \cap Mask(12, 17), 4), b \cap Mask(0, 5)}
    BY <1>1, <1>3 DEF cookey
  <2>2. \/ \E j \in 12 .. 17 : i = j + 12
        \/ \E j \in 0 .. 5 : i = j + 16
        \/ \E j \in 12 .. 17 : i = j - 4
        \/ i \in 0 .. 5
    BY <2>1 DEF Shl, Shr, Mask
  <2> QED BY <2>2
<1> QED BY <1>2, <1>3

\* The schedule of a key of zero bytes is zero, as the register is at first.
LEMMA ZeroSchedule == Cooked(ZeroBytes, EN0) = ZeroWords
<1>1. \A j \in 0 .. 55 : ~pc1m(ZeroBytes)[j]
  <2> SUFFICES ASSUME NEW j \in 0 .. 55 PROVE ~pc1m(ZeroBytes)[j]
    OBVIOUS
  <2>0. j + 1 \in 1 .. 56
    OBVIOUS
  <2>1. PICK l \in 0 .. 63 : l = pc1[j + 1]
    BY <2>0, Pc1Picks
  <2>2. ZeroBytes[(pc1[j + 1] \div 8) + 1] = {}
    BY <2>1 DEF ZeroBytes
  <2>3. pc1m(ZeroBytes)[j] = (bytebit[pc1[j + 1] % 8] \in ZeroBytes[(pc1[j + 1] \div 8) + 1])
    BY Zenon DEF pc1m
  <2> QED BY <2>2, <2>3
<1>2. ASSUME NEW i \in 0 .. 15, NEW j \in 0 .. 55
      PROVE  ~pcr(ZeroBytes, i)[j]
  <2>1. PICK l \in 1 .. 83 : l = j + totrot[i + 1]
    BY Rotations
  <2> DEFINE n == IF l < (IF j < 28 THEN 28 ELSE 56) THEN l ELSE l - 28
  <2>2. n \in 0 .. 55
    BY <2>1
  <2>3. pcr(ZeroBytes, i)[j] = pc1m(ZeroBytes)[n]
    BY <2>1, Zenon DEF pcr
  <2> QED BY <1>1, <2>2, <2>3
<1>3. ASSUME NEW k \in 0 .. 31 PROVE Raw(ZeroBytes, EN0)[k] = {}
  <2> DEFINE bits == [i \in 0 .. 15 |-> pcr(ZeroBytes, Slot(i, EN0))]
  <2>1. ASSUME NEW n \in 0 .. 23 PROVE ~bits[k \div 2][pc2[n + 1 + 24 * (k % 2)]]
    <3>1. k \div 2 \in 0 .. 15 /\ n + 1 + 24 * (k % 2) \in 1 .. 48
      OBVIOUS
    <3>2. Slot(k \div 2, EN0) = k \div 2
      BY DEF Slot, EN0, DE1
    <3>3. bits[k \div 2] = pcr(ZeroBytes, k \div 2)
      BY <3>1, <3>2
    <3>4. PICK i \in 0 .. 15, c \in 0 .. 55 : i = k \div 2 /\ c = pc2[n + 1 + 24 * (k % 2)]
      BY <3>1, Pc2Picks
    <3> QED BY <1>2, <3>3, <3>4
  <2>2. Raw(ZeroBytes, EN0)[k] =
            {bigbyte[j] : j \in {n \in 0 .. 23 : bits[k \div 2][pc2[n + 1 + 24 * (k % 2)]]}}
    BY Zenon DEF Raw
  <2> HIDE DEF bits
  <2> QED BY <2>1, <2>2
<1>4. ASSUME NEW k \in 0 .. 31 PROVE cookey(Raw(ZeroBytes, EN0))[k] = {}
  <2>1. Raw(ZeroBytes, EN0)[2 * (k \div 2)] = {} /\ Raw(ZeroBytes, EN0)[2 * (k \div 2) + 1] = {}
    <3>1. 2 * (k \div 2) \in 0 .. 31 /\ 2 * (k \div 2) + 1 \in 0 .. 31
      OBVIOUS
    <3> QED BY <1>3, <3>1
  <2>2. \A n, m \in Nat : Shl({} \cap Mask(n, m), 6) = {}
    BY DEF Shl
  <2> QED BY <2>1 DEF cookey, Shl, Shr
<1> QED BY <1>4, Zenon DEF Cooked, cookey, ZeroWords

-------------------------------------------------------------------------------
(* The register.                                                           *)

Schedules == [key : Key, edf : Modes]

\* The register and the array kept by a caller hold schedules.
RegisterInv ==
    /\ holds \in Schedules
    /\ cookedHolds \in Schedules
    /\ KnL = Cooked(holds.key, holds.edf)
    /\ cooked = Cooked(cookedHolds.key, cookedHolds.edf)
    /\ to \in [1 .. 8 -> Byte]

\* RegisterInv holds initially.
LEMMA RegisterInit == Init => RegisterInv
<1> SUFFICES ASSUME Init PROVE RegisterInv
  OBVIOUS
<1>1. ZeroBytes \in [1 .. 8 -> Byte]
  BY DEF ZeroBytes, Byte
<1>2. Unset \in Schedules /\ Unset.key = ZeroBytes /\ Unset.edf = EN0
  BY <1>1 DEF Unset, Schedules, Key, Modes
<1> QED BY <1>1, <1>2, ZeroSchedule DEF Init, RegisterInv

\* unscrun() makes bytes of whatever desfunc() leaves in the words.
LEMMA BytesOut == ASSUME NEW w PROVE unscrun(w) \in [1 .. 8 -> Byte]
<1>1. \A a : a \cap Mask(0, 7) \in Byte
  BY DEF Mask, Byte
<1> QED BY <1>1 DEF unscrun

\* RegisterInv is inductive.
LEMMA RegisterNext == RegisterInv /\ [Next]_vars => RegisterInv'
<1> SUFFICES ASSUME RegisterInv, [Next]_vars PROVE RegisterInv'
  OBVIOUS
<1>1. ASSUME NEW key \in HexKeys, NEW edf \in Modes, rfbDesKey(key, edf)
      PROVE  RegisterInv'
  <2>1. [key |-> key, edf |-> edf] \in Schedules
    BY DesAssumption DEF Schedules, Key
  <2> QED BY <1>1, <2>1 DEF rfbDesKey, RegisterInv
<1>2. CASE rfbCPKey \/ rfbUseKey \/ UNCHANGED vars
  BY <1>2 DEF rfbCPKey, rfbUseKey, vars, RegisterInv
<1>3. ASSUME NEW inblock \in Blocks \cup {to}, rfbDes(inblock)
      PROVE  RegisterInv'
  BY <1>3, BytesOut DEF rfbDes, Enciphered, RegisterInv
<1> QED BY <1>1, <1>2, <1>3 DEF Next

\* Whatever keys are set, kept and brought back, a word of the register has its
\* bits where the rounds of desfunc() look for them, and a block is bytes.
THEOREM WordsInGroups == Spec => []SixBitGroups
<1>1. RegisterInv => SixBitGroups
  BY RawWords, GroupsOfSix DEF RegisterInv, SixBitGroups, Cooked
<1> QED BY <1>1, RegisterInit, RegisterNext, PTL DEF Spec

\* Two keys that differ in the top bit of a byte give the same register: of a
\* character of a password only seven bits count.
THEOREM SevenBitKeys == Spec => []TopBitsIgnored
<1>1. RegisterInv => TopBitsIgnored
  BY TopBitSchedule DEF RegisterInv, TopBitsIgnored, Schedules
<1> QED BY <1>1, RegisterInit, RegisterNext, PTL DEF Spec

-------------------------------------------------------------------------------
(* The words of a block.                                                   *)

\* A word of 32 bits; what a long of 64 bits may hold.
Word == SUBSET (0 .. 31)
AnyWords == [l : SUBSET Int, r : SUBSET Int]
Words == [l : Word, r : Word]
\* The 32 bits of a word that the code means.
Low(a) == a \cap (0 .. 31)
LowWords(w) == [l |-> Low(w.l), r |-> Low(w.r)]
Turned(w) == [l |-> w.r, r |-> w.l]

\* A mask that a shift by n does not move out of the 32 bits.
Fits(mask, n) == n \in 0 .. 31 /\ mask \subseteq 0 .. 31 - n

\* The masks of the permutations fit.
LEMMA MasksFit ==
    /\ Fits(Halves(2), 2) /\ Fits(Halves(4), 4) /\ Fits(Halves(8), 8) /\ Fits(Halves(16), 16)
    /\ Fits(OddBits, 0)
BY DEF Fits, Halves, OddBits

\* Where the bits are after a swap.
LEMMA SwapBits ==
    ASSUME NEW n, NEW mask, Fits(mask, n), NEW w \in AnyWords
    PROVE  /\ SwapLeft(w, n, mask) \in AnyWords
           /\ \A i \in Int : i \in SwapLeft(w, n, mask).l <=>
                                 IF i - n \in mask THEN i - n \in w.r ELSE i \in w.l
           /\ \A i \in Int : i \in SwapLeft(w, n, mask).r <=>
                                 IF i \in mask THEN i + n \in w.l ELSE i \in w.r
<1>0. n \in 0 .. 31 /\ mask \subseteq 0 .. 31 /\ \A i \in mask : i + n \in 0 .. 31
  BY DEF Fits
<1>1. PICK a \in SUBSET Int, b \in SUBSET Int : w = [l |-> a, r |-> b]
  BY DEF AnyWords
<1>2. PICK work : work = Xor(Shr(a, n), b) \cap mask
  OBVIOUS
<1>3. ASSUME NEW i \in Int PROVE i \in Shr(a, n) <=> i + n \in a /\ i >= 0
  <2>1. Shr(a, n) = {j - n : j \in {k \in a : k >= n}}
    BY Zenon DEF Shr
  <2>2. i \in Shr(a, n) <=> \E j \in a : j >= n /\ i = j - n
    BY <2>1
  <2> QED BY <1>0, <2>2
<1>4. ASSUME NEW i \in Int PROVE i \in work <=> i \in mask /\ (i + n \in a <=> i \notin b)
  BY <1>0, <1>2, <1>3 DEF Xor
<1>5. work \subseteq mask
  BY <1>2
<1>6. ASSUME NEW i \in Int PROVE i \in Shl(work, n) <=> i - n \in work
  <2>1. \A j \in work : j + n \in 0 .. LongBits - 1
    BY <1>0, <1>5, DesAssumption
  <2> QED BY <1>0, <1>5, <2>1 DEF Shl
<1> DEFINE x == Xor(a, Shl(work, n))
           y == Xor(b, work)
<1>7. \A i \in Int : i \in y <=> IF i \in mask THEN i + n \in a ELSE i \in b
  BY <1>4 DEF Xor
<1>8. ASSUME NEW i \in Int PROVE i \in x <=> IF i - n \in mask THEN i - n \in b ELSE i \in a
  <2>1. i - n \in Int /\ (i - n) + n = i
    BY <1>0
  <2>2. i \in Shl(work, n) <=> i - n \in mask /\ (i \in a <=> i - n \notin b)
    BY <1>4, <1>6, <2>1
  <2> QED BY <2>2 DEF Xor
<1>9. x \subseteq Int /\ y \subseteq Int
  <2>1. Shl(work, n) \subseteq Int /\ work \subseteq Int
    BY <1>0, <1>5, DesAssumption DEF Shl
  <2> QED BY <2>1 DEF Xor
<1>10. SwapLeft(w, n, mask) = [l |-> x, r |-> y]
  BY <1>1, <1>2 DEF SwapLeft
<1> HIDE DEF x, y
<1>11. SwapLeft(w, n, mask) \in AnyWords
  BY <1>9, <1>10 DEF AnyWords
<1> QED BY <1>1, <1>7, <1>8, <1>10, <1>11

\* SwapRight is SwapLeft with the words exchanged.
LEMMA SwapOther ==
    ASSUME NEW n, NEW mask, NEW w
    PROVE  SwapRight(w, n, mask) = Turned(SwapLeft(Turned(w), n, mask))
BY DEF SwapRight, SwapLeft, Turned

\* Words with the same bits are the same.
LEMMA SameWords ==
    ASSUME NEW v \in AnyWords, NEW w \in AnyWords,
           \A i \in Int : (i \in v.l <=> i \in w.l) /\ (i \in v.r <=> i \in w.r)
    PROVE  v = w
<1>1. v.l \subseteq Int /\ w.l \subseteq Int /\ v.r \subseteq Int /\ w.r \subseteq Int
  BY DEF AnyWords
<1>2. v.l = w.l /\ v.r = w.r
  BY <1>1
<1> QED BY <1>2 DEF AnyWords

\* Words of 32 bits are words.
LEMMA WordsAny == Words \subseteq AnyWords
<1>1. Word \subseteq SUBSET Int
  BY DEF Word
<1> QED BY <1>1 DEF Words, AnyWords

\* A swap stays in 32 bits, ...
LEMMA SwapWords ==
    ASSUME NEW n, NEW mask, Fits(mask, n), NEW w \in Words
    PROVE  SwapLeft(w, n, mask) \in Words
<1>1. w \in AnyWords /\ w.l \subseteq 0 .. 31 /\ w.r \subseteq 0 .. 31
  BY WordsAny DEF Words, Word
<1>2. PICK v : v = SwapLeft(w, n, mask)
  OBVIOUS
<1>3. /\ v \in AnyWords
      /\ \A i \in Int : i \in v.l <=> IF i - n \in mask THEN i - n \in w.r ELSE i \in w.l
      /\ \A i \in Int : i \in v.r <=> IF i \in mask THEN i + n \in w.l ELSE i \in w.r
  BY <1>1, <1>2, SwapBits
<1>4. n \in 0 .. 31 /\ mask \subseteq 0 .. 31 /\ \A i \in mask : i + n \in 0 .. 31
  BY DEF Fits
<1>5. v.l \subseteq 0 .. 31
  <2> SUFFICES ASSUME NEW i \in v.l PROVE i \in 0 .. 31
    OBVIOUS
  <2>1. i \in Int
    BY <1>3 DEF AnyWords
  <2>2. CASE i - n \in mask
    <3>1. (i - n) + n \in 0 .. 31
      BY <1>4, <2>2
    <3> QED BY <2>1, <3>1, <1>4
  <2>3. CASE i - n \notin mask
    BY <1>1, <1>3, <2>1, <2>3
  <2> QED BY <2>2, <2>3
<1>6. v.r \subseteq 0 .. 31
  <2> SUFFICES ASSUME NEW i \in v.r PROVE i \in 0 .. 31
    OBVIOUS
  <2>1. i \in Int
    BY <1>3 DEF AnyWords
  <2> QED BY <1>1, <1>3, <1>4, <2>1
<1> QED BY <1>2, <1>3, <1>5, <1>6 DEF AnyWords, Words, Word

\* ... undone by another, ...
LEMMA SwapTwice ==
    ASSUME NEW n, NEW mask, Fits(mask, n), NEW w \in Words
    PROVE  SwapLeft(SwapLeft(w, n, mask), n, mask) = w
<1>1. w \in AnyWords
  BY WordsAny
<1>2. PICK v : v = SwapLeft(w, n, mask)
  OBVIOUS
<1>3. PICK u : u = SwapLeft(v, n, mask)
  OBVIOUS
<1>4. /\ v \in AnyWords
      /\ \A i \in Int : i \in v.l <=> IF i - n \in mask THEN i - n \in w.r ELSE i \in w.l
      /\ \A i \in Int : i \in v.r <=> IF i \in mask THEN i + n \in w.l ELSE i \in w.r
  BY <1>1, <1>2, SwapBits
<1>5. /\ u \in AnyWords
      /\ \A i \in Int : i \in u.l <=> IF i - n \in mask THEN i - n \in v.r ELSE i \in v.l
      /\ \A i \in Int : i \in u.r <=> IF i \in mask THEN i + n \in v.l ELSE i \in v.r
  BY <1>3, <1>4, SwapBits
<1>6. n \in Int
  BY DEF Fits
<1>7. ASSUME NEW i \in Int PROVE (i \in u.l <=> i \in w.l) /\ (i \in u.r <=> i \in w.r)
  <2>1. i - n \in Int /\ i + n \in Int /\ (i - n) + n = i /\ (i + n) - n = i
    BY <1>6
  <2> QED BY <1>4, <1>5, <2>1
<1> QED BY <1>1, <1>2, <1>3, <1>5, <1>7, SameWords

\* ... and does not look at the bits above them.
LEMMA SwapLow ==
    ASSUME NEW n, NEW mask, Fits(mask, n), NEW w \in AnyWords
    PROVE  /\ SwapLeft(w, n, mask) \in AnyWords
           /\ LowWords(SwapLeft(w, n, mask)) = SwapLeft(LowWords(w), n, mask)
           /\ LowWords(w) \in Words
<1>1. LowWords(w) \in Words /\ LowWords(w).l = w.l \cap (0 .. 31) /\ LowWords(w).r = w.r \cap (0 .. 31)
  BY DEF LowWords, Words, Low, Word
<1>2. PICK v : v = SwapLeft(w, n, mask)
  OBVIOUS
<1>3. PICK u : u = SwapLeft(LowWords(w), n, mask)
  OBVIOUS
<1>4. /\ v \in AnyWords
      /\ \A i \in Int : i \in v.l <=> IF i - n \in mask THEN i - n \in w.r ELSE i \in w.l
      /\ \A i \in Int : i \in v.r <=> IF i \in mask THEN i + n \in w.l ELSE i \in w.r
  BY <1>2, SwapBits
<1>5. /\ u \in AnyWords
      /\ \A i \in Int : i \in u.l <=> IF i - n \in mask THEN i - n \in LowWords(w).r ELSE i \in LowWords(w).l
      /\ \A i \in Int : i \in u.r <=> IF i \in mask THEN i + n \in LowWords(w).l ELSE i \in LowWords(w).r
  BY <1>1, <1>3, WordsAny, SwapBits
<1>6. n \in 0 .. 31 /\ mask \subseteq 0 .. 31 /\ \A i \in mask : i + n \in 0 .. 31
  BY DEF Fits
<1>7. LowWords(v) \in AnyWords /\ LowWords(v).l = v.l \cap (0 .. 31) /\ LowWords(v).r = v.r \cap (0 .. 31)
  BY DEF LowWords, AnyWords, Low
<1>8. ASSUME NEW i \in Int
      PROVE  (i \in u.l <=> i \in LowWords(v).l) /\ (i \in u.r <=> i \in LowWords(v).r)
  <2>1. i - n \in mask => i - n \in 0 .. 31 /\ i \in 0 .. 31
    <3>1. i - n \in mask => (i - n) + n \in 0 .. 31 /\ i - n \in 0 .. 31
      BY <1>6
    <3> QED BY <1>6, <3>1
  <2>2. i \in mask => i + n \in 0 .. 31 /\ i \in 0 .. 31
    BY <1>6
  <2> QED BY <1>1, <1>4, <1>5, <1>7, <2>1, <2>2
<1>9. LowWords(v) = u
  BY <1>5, <1>7, <1>8, SameWords
<1> QED BY <1>1, <1>2, <1>3, <1>4, <1>9

\* RotateUp rotates 32 bits by one.
LEMMA RotateUpBits ==
    ASSUME NEW a \in Word
    PROVE  /\ RotateUp(a) \in Word
           /\ \A i \in 0 .. 31 : i \in RotateUp(a) <=> IF i = 0 THEN 31 \in a ELSE i - 1 \in a
<1>1. ASSUME NEW i \in 0 .. 31 PROVE i \in Shl(a, 1) <=> i # 0 /\ i - 1 \in a
  <2>1. Shl(a, 1) = {j + 1 : j \in a} \cap (0 .. LongBits - 1)
    BY Zenon DEF Shl
  <2>2. i \in {j + 1 : j \in a} <=> i # 0 /\ i - 1 \in a
    BY DEF Word
  <2> QED BY <2>1, <2>2, DesAssumption
<1>2. ASSUME NEW i \in 0 .. 31 PROVE i \in (Shr(a, 31) \cap Mask(0, 0)) <=> i = 0 /\ 31 \in a
  <2>1. Shr(a, 31) = {j - 31 : j \in {k \in a : k >= 31}}
    BY Zenon DEF Shr
  <2>2. i \in Shr(a, 31) <=> i + 31 \in a
    BY <2>1 DEF Word
  <2> QED BY <2>2 DEF Mask
<1>3. RotateUp(a) = (Shl(a, 1) \cup (Shr(a, 31) \cap Mask(0, 0))) \cap (0 .. 31)
  BY DEF RotateUp, Mask
<1> QED BY <1>1, <1>2, <1>3 DEF Word

\* RotateDown does so the other way, but for what it leaves above them.
LEMMA RotateDownBits ==
    ASSUME NEW a \in Word
    PROVE  /\ RotateDown(a) \subseteq Int
           /\ \A i \in 0 .. 31 : i \in RotateDown(a) <=> IF i = 31 THEN 0 \in a ELSE i + 1 \in a
<1>1. ASSUME NEW i \in 0 .. 31 PROVE i \in Shl(a, 31) <=> i = 31 /\ 0 \in a
  <2>1. Shl(a, 31) = {j + 31 : j \in a} \cap (0 .. LongBits - 1)
    BY Zenon DEF Shl
  <2>2. i \in {j + 31 : j \in a} <=> i = 31 /\ 0 \in a
    BY DEF Word
  <2> QED BY <2>1, <2>2, DesAssumption
<1>2. Shr(a, 1) = {j - 1 : j \in {k \in a : k >= 1}}
  BY Zenon DEF Shr
<1>3. ASSUME NEW i \in 0 .. 31 PROVE i \in Shr(a, 1) <=> i # 31 /\ i + 1 \in a
  BY <1>2 DEF Word
<1>4. RotateDown(a) = Shl(a, 31) \cup Shr(a, 1)
  BY Zenon DEF RotateDown
<1>5. Shl(a, 31) \subseteq Int /\ Shr(a, 1) \subseteq Int
  BY <1>2, DesAssumption DEF Shl, Word
<1> QED BY <1>1, <1>3, <1>4, <1>5

\* What the code means by RotateDown.
Down(a) == Low(RotateDown(a))

\* One rotation undoes the other.
LEMMA UpAndDown ==
    ASSUME NEW a \in Word
    PROVE  /\ Down(a) \in Word /\ RotateUp(a) \in Word
           /\ Down(RotateUp(a)) = a
           /\ RotateUp(Down(a)) = a
<1>1. PICK b \in Word : b = RotateUp(a)
  BY RotateUpBits
<1>2. \A c \in Word : Down(c) \in Word /\ Down(c) \subseteq 0 .. 31
  BY DEF Down, Low, Word
<1>3. PICK c \in Word : c = Down(a)
  BY <1>2
<1>4. \A i \in 0 .. 31 : i \in b <=> IF i = 0 THEN 31 \in a ELSE i - 1 \in a
  BY <1>1, RotateUpBits
<1>5. \A i \in 0 .. 31 : i \in c <=> IF i = 31 THEN 0 \in a ELSE i + 1 \in a
  BY <1>3, RotateDownBits DEF Down, Low
<1>6. \A i \in 0 .. 31 : i \in Down(b) <=> IF i = 31 THEN 0 \in b ELSE i + 1 \in b
  BY RotateDownBits DEF Down, Low
<1>7. \A i \in 0 .. 31 : i \in RotateUp(c) <=> IF i = 0 THEN 31 \in c ELSE i - 1 \in c
  BY RotateUpBits
<1>8. \A i \in 0 .. 31 : i \in Down(b) <=> i \in a
  BY <1>4, <1>6
<1>9. \A i \in 0 .. 31 : i \in RotateUp(c) <=> i \in a
  BY <1>5, <1>7
<1>10. a \subseteq 0 .. 31 /\ Down(b) \subseteq 0 .. 31 /\ RotateUp(c) \subseteq 0 .. 31
  BY <1>2, RotateUpBits DEF Word
<1>11. Down(b) = a /\ RotateUp(c) = a
  BY <1>8, <1>9, <1>10
<1> QED BY <1>1, <1>3, <1>11

-------------------------------------------------------------------------------
(* The permutations before and behind the rounds.                          *)

\* The rotations of one word of two.
UpR(w) == [l |-> w.l, r |-> RotateUp(w.r)]
UpL(w) == [l |-> RotateUp(w.l), r |-> w.r]
DownR(w) == [l |-> w.l, r |-> Down(w.r)]
DownL(w) == [l |-> Down(w.l), r |-> w.r]

\* The swaps of desfunc(): each has its mask.
Swap(w, n) == SwapLeft(w, n, IF n = 0 THEN OddBits ELSE Halves(n))
Widths == {0, 2, 4, 8, 16}

\* What has been said of a swap, for those of desfunc().
LEMMA SwapLaws ==
    ASSUME NEW w \in Words, NEW n \in Widths
    PROVE  Swap(w, n) \in Words /\ Swap(Swap(w, n), n) = w
<1>1. Fits(IF n = 0 THEN OddBits ELSE Halves(n), n)
  BY MasksFit DEF Widths
<1> QED BY <1>1, SwapWords, SwapTwice DEF Swap

\* So is an exchange of the words.
LEMMA TurnLaws ==
    ASSUME NEW w \in Words
    PROVE  Turned(w) \in Words /\ Turned(Turned(w)) = w
BY DEF Words, Turned

\* The swap that shifts by nothing does the same to both words.
LEMMA SwapZero ==
    ASSUME NEW w \in Words
    PROVE  Swap(Turned(w), 0) = Turned(Swap(w, 0))
<1>1. Fits(OddBits, 0)
  BY MasksFit
<1>2. PICK u : u = Swap(Turned(w), 0)
  OBVIOUS
<1>3. PICK v : v = Swap(w, 0)
  OBVIOUS
<1>4. w \in AnyWords /\ Turned(w) \in AnyWords /\ Turned(w).l = w.r /\ Turned(w).r = w.l
  BY WordsAny, TurnLaws DEF Turned
<1>5. /\ v \in AnyWords
      /\ \A i \in Int : i \in v.l <=> IF i - 0 \in OddBits THEN i - 0 \in w.r ELSE i \in w.l
      /\ \A i \in Int : i \in v.r <=> IF i \in OddBits THEN i + 0 \in w.l ELSE i \in w.r
  BY <1>1, <1>3, <1>4, SwapBits DEF Swap
<1>6. /\ u \in AnyWords
      /\ \A i \in Int : i \in u.l <=> IF i - 0 \in OddBits THEN i - 0 \in w.l ELSE i \in w.r
      /\ \A i \in Int : i \in u.r <=> IF i \in OddBits THEN i + 0 \in w.r ELSE i \in w.l
  BY <1>1, <1>2, <1>4, SwapBits DEF Swap
<1>7. Turned(v) \in AnyWords /\ Turned(v).l = v.r /\ Turned(v).r = v.l
  BY <1>5 DEF Turned, AnyWords
<1>8. \A i \in Int : i - 0 = i /\ i + 0 = i
  OBVIOUS
<1>9. u = Turned(v)
  BY <1>5, <1>6, <1>7, <1>8, SameWords
<1> QED BY <1>2, <1>3, <1>9

\* Rotations undo each other and go with the words when these are exchanged.
LEMMA RotationLaws ==
    ASSUME NEW w \in Words
    PROVE  /\ UpR(w) \in Words /\ UpL(w) \in Words /\ DownR(w) \in Words /\ DownL(w) \in Words
           /\ UpR(DownR(w)) = w /\ UpL(DownL(w)) = w /\ DownR(UpR(w)) = w /\ DownL(UpL(w)) = w
           /\ UpR(Turned(w)) = Turned(UpL(w)) /\ UpL(Turned(w)) = Turned(UpR(w))
           /\ DownR(Turned(w)) = Turned(DownL(w)) /\ DownL(Turned(w)) = Turned(DownR(w))
<1>1. w.l \in Word /\ w.r \in Word /\ w = [l |-> w.l, r |-> w.r]
  BY DEF Words
<1>2. \A a \in {w.l, w.r} : /\ Down(a) \in Word /\ RotateUp(a) \in Word
                            /\ Down(RotateUp(a)) = a /\ RotateUp(Down(a)) = a
  BY <1>1, UpAndDown
<1> QED BY <1>1, <1>2 DEF UpR, UpL, DownR, DownL, Turned, Words

\* InitialPermutation and FinalPermutation, written with these.
Initial(w) == UpL(Swap(UpR(Turned(Swap(Swap(Turned(Swap(Swap(w, 4), 16)), 2), 8))), 0))
Final(w) == Swap(Swap(Turned(Swap(Swap(DownL(Swap(DownR(w), 0)), 8), 2)), 16), 4)

\* Initial is InitialPermutation.
LEMMA InitialIs == \A w \in Words : InitialPermutation(w) = Initial(w)
<1> SUFFICES ASSUME NEW w \in Words PROVE InitialPermutation(w) = Initial(w)
  OBVIOUS
<1> DEFINE a == Swap(Swap(w, 4), 16)
           b == Turned(Swap(Swap(Turned(a), 2), 8))
           c == Swap(UpR(b), 0)
<1>1. a \in Words /\ Swap(Turned(a), 2) \in Words
  BY SwapLaws, TurnLaws DEF Widths
<1>2. a = SwapLeft(SwapLeft(w, 4, Halves(4)), 16, Halves(16))
  BY DEF Swap
<1> HIDE DEF a
<1>3. SwapRight(SwapRight(a, 2, Halves(2)), 8, Halves(8)) = b
  <2>1. SwapRight(a, 2, Halves(2)) = Turned(Swap(Turned(a), 2))
    BY SwapOther DEF Swap
  <2>2. SwapRight(Turned(Swap(Turned(a), 2)), 8, Halves(8)) = Turned(Swap(Swap(Turned(a), 2), 8))
    BY <1>1, SwapOther, TurnLaws DEF Swap
  <2> QED BY <2>1, <2>2
<1>4. b \in Words
  BY <1>1, SwapLaws, TurnLaws DEF Widths
<1> HIDE DEF b
<1>5. [b EXCEPT !.r = RotateUp(@)] = UpR(b) /\ UpR(b) \in Words
  BY <1>4, RotationLaws DEF UpR, Words
<1>6. c = SwapLeft(UpR(b), 0, OddBits) /\ c \in Words
  BY <1>5, SwapLaws DEF Swap, Widths
<1> HIDE DEF c
<1>7. [c EXCEPT !.l = RotateUp(@)] = UpL(c)
  BY <1>6 DEF UpL, Words
<1>8. InitialPermutation(w) = UpL(c)
  BY <1>2, <1>3, <1>5, <1>6, <1>7, Zenon DEF InitialPermutation
<1> QED BY <1>8, Zenon DEF Initial, a, b, c

\* Final is what is left of FinalPermutation in 32 bits: no bit that its rotations
\* shift above them comes back.
LEMMA FinalIs ==
    ASSUME NEW w \in Words
    PROVE  FinalPermutation(w) \in AnyWords /\ LowWords(FinalPermutation(w)) = Final(w)
<1> DEFINE v == [w EXCEPT !.r = RotateDown(@)]
           a == SwapLeft(v, 0, OddBits)
           u == [a EXCEPT !.l = RotateDown(@)]
           b == SwapLeft(u, 8, Halves(8))
           c == SwapLeft(b, 2, Halves(2))
           e == SwapLeft(Turned(c), 16, Halves(16))
           d == SwapLeft(e, 4, Halves(4))
<1>1. v \in AnyWords /\ LowWords(v) = DownR(w) /\ v.l = w.l
  <2>1. w.l \in Word /\ w.r \in Word /\ v = [l |-> w.l, r |-> RotateDown(w.r)]
    BY DEF Words
  <2>2. Low(w.l) = w.l /\ w.l \subseteq Int
    BY <2>1 DEF Low, Word
  <2>3. RotateDown(w.r) \subseteq Int
    BY <2>1, RotateDownBits
  <2> HIDE DEF v
  <2> QED BY <2>1, <2>2, <2>3 DEF AnyWords, LowWords, DownR, Down
<1> HIDE DEF v
<1>2. a \in AnyWords /\ LowWords(a) = Swap(DownR(w), 0)
  BY <1>1, SwapLow, MasksFit DEF Swap
<1>3. a.l \in Word
  <2>1. \A i \in Int : i \in a.l <=> IF i - 0 \in OddBits THEN i - 0 \in v.r ELSE i \in v.l
    BY <1>1, SwapBits, MasksFit
  <2>2. OddBits \subseteq 0 .. 31 /\ v.l \subseteq 0 .. 31 /\ a.l \subseteq Int
    BY <1>1, <1>2 DEF OddBits, Words, Word, AnyWords
  <2> HIDE DEF a
  <2>3. a.l \subseteq 0 .. 31
    BY <2>1, <2>2
  <2> QED BY <2>3 DEF Word
<1> HIDE DEF a
<1>4. u \in AnyWords /\ LowWords(u) = DownL(LowWords(a))
  <2>1. Low(a.l) = a.l
    BY <1>3 DEF Low, Word
  <2>2. RotateDown(a.l) \subseteq Int /\ a.r \subseteq Int
    BY <1>2, <1>3, RotateDownBits DEF AnyWords
  <2>3. u = [l |-> RotateDown(a.l), r |-> a.r]
    BY <1>2 DEF AnyWords
  <2>4. u \in AnyWords
    BY <2>2, <2>3 DEF AnyWords
  <2>5. LowWords(u) = [l |-> Low(RotateDown(a.l)), r |-> Low(a.r)]
    BY <2>3 DEF LowWords
  <2>6. DownL(LowWords(a)) = [l |-> Low(RotateDown(Low(a.l))), r |-> Low(a.r)]
    BY DEF DownL, LowWords, Down
  <2> QED BY <2>1, <2>4, <2>5, <2>6
<1> HIDE DEF u
<1>5. b \in AnyWords /\ LowWords(b) = Swap(LowWords(u), 8)
  BY <1>4, SwapLow, MasksFit DEF Swap
<1> HIDE DEF b
<1>6. c \in AnyWords /\ LowWords(c) = Swap(LowWords(b), 2)
  BY <1>5, SwapLow, MasksFit DEF Swap
<1> HIDE DEF c
<1>7. Turned(c) \in AnyWords /\ LowWords(Turned(c)) = Turned(LowWords(c)) /\ Turned(Turned(c)) = c
  BY <1>6 DEF Turned, AnyWords, LowWords
<1>8. e \in AnyWords /\ LowWords(e) = Swap(Turned(LowWords(c)), 16)
  BY <1>7, SwapLow, MasksFit DEF Swap
<1>9. SwapRight(c, 16, Halves(16)) = Turned(e)
  BY SwapOther
<1> HIDE DEF e
<1>10. Turned(Turned(e)) = e
  BY <1>8 DEF Turned, AnyWords
<1>11. d \in AnyWords /\ LowWords(d) = Swap(LowWords(e), 4)
  BY <1>8, SwapLow, MasksFit DEF Swap
<1>12. SwapRight(Turned(e), 4, Halves(4)) = Turned(d)
  BY <1>10, SwapOther
<1> HIDE DEF d
<1>13. [l |-> Turned(d).r, r |-> Turned(d).l] = d
  BY <1>11 DEF Turned, AnyWords
<1>14. FinalPermutation(w) = [l |-> SwapRight(SwapRight(c, 16, Halves(16)), 4, Halves(4)).r,
                              r |-> SwapRight(SwapRight(c, 16, Halves(16)), 4, Halves(4)).l]
  BY Zenon DEF FinalPermutation, c, b, u, a, v
<1>15. FinalPermutation(w) = d
  BY <1>9, <1>12, <1>13, <1>14
<1> QED BY <1>2, <1>4, <1>5, <1>6, <1>8, <1>11, <1>15, Zenon DEF Final

\* Initial keeps to 32 bits.
LEMMA InitialWords == ASSUME NEW w \in Words PROVE Initial(w) \in Words
<1> DEFINE a == Swap(Swap(w, 4), 16)
           b == Turned(Swap(Swap(Turned(a), 2), 8))
<1>1. a \in Words
  BY SwapLaws DEF Widths
<1> HIDE DEF a
<1>2. b \in Words
  BY <1>1, SwapLaws, TurnLaws DEF Widths
<1> HIDE DEF b
<1>3. UpL(Swap(UpR(b), 0)) \in Words
  BY <1>2, SwapLaws, RotationLaws DEF Widths
<1> QED BY <1>3, Zenon DEF Initial, a, b

\* Final as well.
LEMMA FinalWords == ASSUME NEW w \in Words PROVE Final(w) \in Words
<1> DEFINE a == DownL(Swap(DownR(w), 0))
           b == Swap(Swap(a, 8), 2)
<1>1. a \in Words
  BY SwapLaws, RotationLaws DEF Widths
<1> HIDE DEF a
<1>2. b \in Words
  BY <1>1, SwapLaws DEF Widths
<1> HIDE DEF b
<1>3. Swap(Swap(Turned(b), 16), 4) \in Words
  BY <1>2, SwapLaws, TurnLaws DEF Widths
<1> QED BY <1>3, Zenon DEF Final, a, b

\* Each of the two undoes the other, but for an exchange of the words.
LEMMA InitialFinal ==
    ASSUME NEW w \in Words
    PROVE  Initial(Final(w)) = Turned(w)
<1> DEFINE a == Swap(DownR(w), 0)
           b == DownL(a)
           c == Swap(b, 8)
           d == Swap(c, 2)
           e == Turned(d)
           f == Swap(e, 16)
<1>1. DownR(w) \in Words /\ a \in Words /\ Swap(a, 0) = DownR(w)
  BY SwapLaws, RotationLaws DEF Widths
<1>2. b \in Words /\ UpL(b) = a
  <2> HIDE DEF a
  <2> QED BY <1>1, RotationLaws
<1>3. c \in Words /\ Swap(c, 8) = b
  <2> HIDE DEF b
  <2> QED BY <1>2, SwapLaws DEF Widths
<1>4. d \in Words /\ Swap(d, 2) = c
  <2> HIDE DEF c
  <2> QED BY <1>3, SwapLaws DEF Widths
<1>5. e \in Words /\ Turned(e) = d
  <2> HIDE DEF d
  <2> QED BY <1>4, TurnLaws
<1>6. f \in Words /\ Swap(f, 16) = e
  <2> HIDE DEF e
  <2> QED BY <1>5, SwapLaws DEF Widths
<1>7. Final(w) = Swap(f, 4)
  BY Zenon DEF Final
<1> HIDE DEF a, b, c, d, e, f
<1>8. Swap(Swap(f, 4), 4) = f
  BY <1>6, SwapLaws DEF Widths
<1>9. Initial(Final(w)) = UpL(Swap(UpR(Turned(b)), 0))
  BY <1>3, <1>4, <1>5, <1>6, <1>7, <1>8 DEF Initial
<1>10. UpR(Turned(b)) = Turned(a)
  BY <1>2, RotationLaws
<1>11. Swap(Turned(a), 0) = Turned(DownR(w))
  BY <1>1, SwapZero
<1>12. UpL(Turned(DownR(w))) = Turned(UpR(DownR(w)))
  BY <1>1, RotationLaws
<1>13. UpR(DownR(w)) = w
  BY RotationLaws
<1> QED BY <1>9, <1>10, <1>11, <1>12, <1>13

\* The other way round.
LEMMA FinalInitial ==
    ASSUME NEW w \in Words
    PROVE  Final(Turned(Initial(w))) = w
<1> DEFINE a == Swap(w, 4)
           b == Swap(a, 16)
           c == Turned(b)
           d == Swap(c, 2)
           e == Swap(d, 8)
           f == UpR(Turned(e))
           g == Swap(f, 0)
<1>1. a \in Words /\ Swap(a, 4) = w
  BY SwapLaws DEF Widths
<1>2. b \in Words /\ Swap(b, 16) = a
  <2> HIDE DEF a
  <2> QED BY <1>1, SwapLaws DEF Widths
<1>3. c \in Words /\ Turned(c) = b
  <2> HIDE DEF b
  <2> QED BY <1>2, TurnLaws
<1>4. d \in Words /\ Swap(d, 2) = c
  <2> HIDE DEF c
  <2> QED BY <1>3, SwapLaws DEF Widths
<1>5. e \in Words /\ Swap(e, 8) = d
  <2> HIDE DEF d
  <2> QED BY <1>4, SwapLaws DEF Widths
<1>6. Turned(e) \in Words /\ f \in Words /\ DownR(f) = Turned(e) /\ Turned(Turned(e)) = e
  <2> HIDE DEF e
  <2> QED BY <1>5, RotationLaws, TurnLaws
<1>7. g \in Words /\ Swap(g, 0) = f
  <2> HIDE DEF f
  <2> QED BY <1>6, SwapLaws DEF Widths
<1>8. Initial(w) = UpL(g)
  BY Zenon DEF Initial
<1> HIDE DEF a, b, c, d, e, f, g
<1>9. UpL(g) \in Words /\ DownL(UpL(g)) = g
  BY <1>7, RotationLaws
<1>10. DownR(Turned(UpL(g))) = Turned(g)
  BY <1>9, RotationLaws
<1>11. Swap(Turned(g), 0) = Turned(f)
  BY <1>7, SwapZero
<1>12. DownL(Turned(f)) = Turned(DownR(f))
  BY <1>6, RotationLaws
<1>13. DownL(Turned(f)) = e
  BY <1>6, <1>12
<1> QED BY <1>1, <1>2, <1>3, <1>4, <1>5, <1>8, <1>10, <1>11, <1>13 DEF Final

-------------------------------------------------------------------------------
(* The rounds.                                                             *)

\* Six bits are a number below 64.
LEMMA IndexRange == ASSUME NEW a PROVE Index(a) \in 0 .. 63
BY DEF Index

\* An entry of an SP table has 32 bits, ...
LEMMA TableWords ==
    ASSUME NEW bits, \A b \in 1 .. 4 : bits[b] \in 0 .. 31, NEW digits, NEW a
    PROVE  Table(bits, digits)[Index(a)] \in Word
<1>1. Table(bits, digits)[Index(a)] =
          {bits[b] : b \in {c \in 1 .. 4 : (digits[Index(a) + 1] \div 2 ^ (4 - c)) % 2 = 1}}
  BY IndexRange DEF Table
<1> QED BY <1>1 DEF Word

\* ... of each of the eight.
LEMMA BoxWords ==
    ASSUME NEW a
    PROVE  /\ SP1[Index(a)] \in Word /\ SP2[Index(a)] \in Word /\ SP3[Index(a)] \in Word
           /\ SP4[Index(a)] \in Word /\ SP5[Index(a)] \in Word /\ SP6[Index(a)] \in Word
           /\ SP7[Index(a)] \in Word /\ SP8[Index(a)] \in Word
<1>1. SP1[Index(a)] \in Word
  BY TableWords DEF SP1
<1>2. SP2[Index(a)] \in Word
  BY TableWords DEF SP2
<1>3. SP3[Index(a)] \in Word
  BY TableWords DEF SP3
<1>4. SP4[Index(a)] \in Word
  BY TableWords DEF SP4
<1>5. SP5[Index(a)] \in Word
  BY TableWords DEF SP5
<1>6. SP6[Index(a)] \in Word
  BY TableWords DEF SP6
<1>7. SP7[Index(a)] \in Word
  BY TableWords DEF SP7
<1>8. SP8[Index(a)] \in Word
  BY TableWords DEF SP8
<1> QED BY <1>1, <1>2, <1>3, <1>4, <1>5, <1>6, <1>7, <1>8

\* fval has 32 bits, whatever the keys.
LEMMA FvalWord == ASSUME NEW half, NEW key0, NEW key1 PROVE fval(half, key0, key1) \in Word
<1>1. \A A : (\A x \in A : x \in Word) => UNION A \in Word
  BY DEF Word
<1> QED BY <1>1, BoxWords DEF fval

\* xor with the same word twice changes nothing.
LEMMA XorLaws ==
    ASSUME NEW a \in Word, NEW b \in Word
    PROVE  Xor(a, b) \in Word /\ Xor(Xor(a, b), b) = a
BY DEF Xor, Word

\* Half a pass of the loop stays in 32 bits.
LEMMA HalfRoundWords ==
    ASSUME NEW w \in Words, NEW keys, NEW i
    PROVE  HalfRound(w, keys, i) \in Words
<1>1. w.l \in Word /\ w.r \in Word
  BY DEF Words
<1>2. \A half, key0, key1 : /\ Xor(w.l, fval(half, key0, key1)) \in Word
                            /\ Xor(w.r, fval(half, key0, key1)) \in Word
  BY <1>1, FvalWord, XorLaws
<1> QED BY <1>1, <1>2 DEF HalfRound, Words

\* The rounds of keys, from the last to the first.
Backwards(back, keys) ==
    \A i \in 0 .. 15 : back[2 * (15 - i)] = keys[2 * i] /\ back[2 * (15 - i) + 1] = keys[2 * i + 1]

\* Half a pass undoes the one it is opposite to, with the words exchanged.
LEMMA HalfRoundBack ==
    ASSUME NEW w \in Words, NEW keys, NEW back, Backwards(back, keys), NEW i \in 0 .. 15
    PROVE  HalfRound(Turned(HalfRound(w, keys, i)), back, 15 - i) = Turned(w)
<1>1. PICK l \in Word, r \in Word : w = [l |-> l, r |-> r]
  BY DEF Words
<1>2. PICK key0, key1 : /\ key0 = keys[2 * i] /\ key1 = keys[2 * i + 1]
                        /\ key0 = back[2 * (15 - i)] /\ key1 = back[2 * (15 - i) + 1]
  BY DEF Backwards
<1>3. CASE i % 2 = 0
  <2>1. (15 - i) % 2 # 0
    BY <1>3
  <2>2. HalfRound(w, keys, i) = [l |-> Xor(l, fval(r, key0, key1)), r |-> r]
    BY <1>1, <1>2, <1>3 DEF HalfRound
  <2>3. HalfRound([l |-> r, r |-> Xor(l, fval(r, key0, key1))], back, 15 - i) =
            [l |-> r, r |-> Xor(Xor(l, fval(r, key0, key1)), fval(r, key0, key1))]
    BY <1>2, <2>1 DEF HalfRound
  <2> QED BY <1>1, <2>2, <2>3, FvalWord, XorLaws DEF Turned
<1>4. CASE i % 2 # 0
  <2>1. (15 - i) % 2 = 0
    BY <1>4
  <2>2. HalfRound(w, keys, i) = [l |-> l, r |-> Xor(r, fval(l, key0, key1))]
    BY <1>1, <1>2, <1>4 DEF HalfRound
  <2>3. HalfRound([l |-> Xor(r, fval(l, key0, key1)), r |-> l], back, 15 - i) =
            [l |-> Xor(Xor(r, fval(l, key0, key1)), fval(l, key0, key1)), r |-> l]
    BY <1>2, <2>1 DEF HalfRound
  <2> QED BY <1>1, <2>2, <2>3, FvalWord, XorLaws DEF Turned
<1> QED BY <1>3, <1>4

\* Sixteen steps lead from 0 to 16.
LEMMA UpToSixteen ==
    ASSUME NEW T, 0 \in T, \A n \in 0 .. 15 : n \in T => n + 1 \in T
    PROVE  \A n \in 0 .. 16 : n \in T
<1>1. 1 \in T /\ 2 \in T /\ 3 \in T /\ 4 \in T
  OBVIOUS
<1>2. 5 \in T /\ 6 \in T /\ 7 \in T /\ 8 \in T
  BY <1>1
<1>3. 9 \in T /\ 10 \in T /\ 11 \in T /\ 12 \in T
  BY <1>2
<1>4. 13 \in T /\ 14 \in T /\ 15 \in T /\ 16 \in T
  BY <1>3
<1> QED BY <1>1, <1>2, <1>3, <1>4

\* The array of the first n half passes.
IsRounds(f, n, w, keys) ==
    f = [i \in 0 .. n |-> IF i = 0 THEN InitialPermutation(w) ELSE HalfRound(f[i - 1], keys, i - 1)]

\* HalfRounds is that array for 16: there is one.
LEMMA RoundsAre ==
    ASSUME NEW w, NEW keys
    PROVE  /\ HalfRounds(w, keys)[0] = InitialPermutation(w)
           /\ \A i \in 0 .. 15 : HalfRounds(w, keys)[i + 1] = HalfRound(HalfRounds(w, keys)[i], keys, i)
<1> DEFINE T == {n \in 0 .. 16 : \E f : IsRounds(f, n, w, keys)}
<1>1. 0 \in T
  <2> DEFINE f == [i \in 0 .. 0 |-> InitialPermutation(w)]
  <2>1. f = [i \in 0 .. 0 |-> IF i = 0 THEN InitialPermutation(w) ELSE HalfRound(f[i - 1], keys, i - 1)]
    OBVIOUS
  <2>2. IsRounds(f, 0, w, keys)
    BY <2>1, Zenon DEF IsRounds
  <2> QED BY <2>2
<1>2. ASSUME NEW n \in 0 .. 15, n \in T PROVE n + 1 \in T
  <2>1. PICK f : IsRounds(f, n, w, keys)
    BY <1>2
  <2> DEFINE g == [i \in 0 .. n + 1 |-> IF i = n + 1 THEN HalfRound(f[n], keys, n) ELSE f[i]]
  <2>2. \A i \in 0 .. n : f[i] = IF i = 0 THEN InitialPermutation(w) ELSE HalfRound(f[i - 1], keys, i - 1)
    BY <2>1 DEF IsRounds
  <2>3. ASSUME NEW i \in 0 .. n + 1
        PROVE  g[i] = IF i = 0 THEN InitialPermutation(w) ELSE HalfRound(g[i - 1], keys, i - 1)
    <3>1. CASE i = n + 1
      BY <3>1
    <3>2. CASE i # n + 1
      BY <2>2, <3>2
    <3> QED BY <3>1, <3>2
  <2>4. IsRounds(g, n + 1, w, keys)
    BY <2>3, Zenon DEF IsRounds
  <2> QED BY <2>4
<1>3. \E f : IsRounds(f, 16, w, keys)
  <2> HIDE DEF T
  <2>1. \A n \in 0 .. 16 : n \in T
    BY <1>1, <1>2, UpToSixteen
  <2> QED BY <2>1 DEF T
<1>4. IsRounds(HalfRounds(w, keys), 16, w, keys)
  BY <1>3, Zenon DEF HalfRounds, IsRounds
<1>5. \A i \in 0 .. 16 : HalfRounds(w, keys)[i] =
          IF i = 0 THEN InitialPermutation(w) ELSE HalfRound(HalfRounds(w, keys)[i - 1], keys, i - 1)
  BY <1>4, Zenon DEF IsRounds
<1>6. \A i \in 0 .. 15 : i + 1 \in 0 .. 16 /\ i + 1 # 0 /\ (i + 1) - 1 = i
  OBVIOUS
<1> QED BY <1>5, <1>6

-------------------------------------------------------------------------------
(* The order of the keys.                                                  *)

\* The schedule for decryption is the one for encryption from the last round to the
\* first, before ...
LEMMA RawReversed ==
    ASSUME NEW key, NEW i \in 0 .. 15, NEW b \in 0 .. 1
    PROVE  Raw(key, DE1)[2 * (15 - i) + b] = Raw(key, EN0)[2 * i + b]
<1> DEFINE enbits == [j \in 0 .. 15 |-> pcr(key, Slot(j, EN0))]
           debits == [j \in 0 .. 15 |-> pcr(key, Slot(j, DE1))]
           en == 2 * i + b
           de == 2 * (15 - i) + b
<1>1. /\ en \in 0 .. 31 /\ en \div 2 = i /\ en % 2 = b
      /\ de \in 0 .. 31 /\ de \div 2 = 15 - i /\ de % 2 = b
  OBVIOUS
<1>2. enbits[i] = pcr(key, i)
  BY DEF Slot, EN0, DE1
<1>3. debits[15 - i] = pcr(key, i)
  BY DEF Slot, EN0, DE1
<1> HIDE DEF en, de
<1>4. Raw(key, EN0)[en] = {bigbyte[j] : j \in {n \in 0 .. 23 : enbits[en \div 2][pc2[n + 1 + 24 * (en % 2)]]}}
  BY <1>1, Zenon DEF Raw
<1>5. Raw(key, DE1)[de] = {bigbyte[j] : j \in {n \in 0 .. 23 : debits[de \div 2][pc2[n + 1 + 24 * (de % 2)]]}}
  BY <1>1, Zenon DEF Raw
<1> HIDE DEF enbits, debits
<1>6. Raw(key, EN0)[en] = Raw(key, DE1)[de]
  BY <1>1, <1>2, <1>3, <1>4, <1>5, Zenon
<1> QED BY <1>6 DEF en, de

\* ... and after cookey.
LEMMA SchedulesReversed ==
    ASSUME NEW key
    PROVE  Backwards(Cooked(key, DE1), Cooked(key, EN0)) /\ Backwards(Cooked(key, EN0), Cooked(key, DE1))
<1>1. ASSUME NEW i \in 0 .. 15, NEW b \in 0 .. 1
      PROVE  Cooked(key, DE1)[2 * (15 - i) + b] = Cooked(key, EN0)[2 * i + b]
  <2> DEFINE en == 2 * i + b
             de == 2 * (15 - i) + b
  <2>1. /\ en \in 0 .. 31 /\ en \div 2 = i /\ en % 2 = b
        /\ de \in 0 .. 31 /\ de \div 2 = 15 - i /\ de % 2 = b
    OBVIOUS
  <2>2. PICK raw0, raw1 : /\ raw0 = Raw(key, EN0)[2 * i] /\ raw0 = Raw(key, DE1)[2 * (15 - i)]
                          /\ raw1 = Raw(key, EN0)[2 * i + 1] /\ raw1 = Raw(key, DE1)[2 * (15 - i) + 1]
    <3>1. Raw(key, DE1)[2 * (15 - i) + 0] = Raw(key, EN0)[2 * i + 0]
      BY RawReversed
    <3>2. Raw(key, DE1)[2 * (15 - i) + 1] = Raw(key, EN0)[2 * i + 1]
      BY RawReversed
    <3> QED BY <3>1, <3>2
  <2> HIDE DEF en, de
  <2>3. cookey(Raw(key, DE1))[de] = cookey(Raw(key, EN0))[en]
    BY <2>1, <2>2 DEF cookey
  <2> QED BY <2>3 DEF Cooked, en, de
<1>2. ASSUME NEW i \in 0 .. 15
      PROVE  /\ Cooked(key, DE1)[2 * (15 - i)] = Cooked(key, EN0)[2 * i]
             /\ Cooked(key, DE1)[2 * (15 - i) + 1] = Cooked(key, EN0)[2 * i + 1]
  <2>1. Cooked(key, DE1)[2 * (15 - i) + 0] = Cooked(key, EN0)[2 * i + 0]
    BY <1>1
  <2>2. Cooked(key, DE1)[2 * (15 - i) + 1] = Cooked(key, EN0)[2 * i + 1]
    BY <1>1
  <2> QED BY <2>1, <2>2
<1>3. ASSUME NEW i \in 0 .. 15
      PROVE  /\ Cooked(key, EN0)[2 * (15 - i)] = Cooked(key, DE1)[2 * i]
             /\ Cooked(key, EN0)[2 * (15 - i) + 1] = Cooked(key, DE1)[2 * i + 1]
  <2>1. PICK j \in 0 .. 15 : j = 15 - i /\ 15 - j = i
    OBVIOUS
  <2> QED BY <1>2, <2>1
<1> QED BY <1>2, <1>3 DEF Backwards

-------------------------------------------------------------------------------
(* Bytes and words.                                                        *)

\* The byte of a bit of a word, and the place in it.
LEMMA ByteAndBit ==
    ASSUME NEW i \in 0 .. 31
    PROVE  i \div 8 \in 0 .. 3 /\ i % 8 \in 0 .. 7 /\ i = 8 * (i \div 8) + (i % 8)
OBVIOUS

\* Where scrunch() puts the bits of a block, ...
LEMMA ScrunchBits ==
    ASSUME NEW block \in [1 .. 8 -> Byte]
    PROVE  /\ scrunch(block) \in Words
           /\ \A i \in 0 .. 31 : /\ i \in scrunch(block).l <=> i % 8 \in block[4 - (i \div 8)]
                                 /\ i \in scrunch(block).r <=> i % 8 \in block[8 - (i \div 8)]
<1>1. ASSUME NEW k \in 1 .. 8, NEW n \in {0, 8, 16, 24}
      PROVE  /\ Shl(block[k], n) \subseteq 0 .. 31
             /\ \A i \in 0 .. 31 : i \in Shl(block[k], n) <=> 8 * (i \div 8) = n /\ i % 8 \in block[k]
  <2>1. block[k] \subseteq 0 .. 7
    BY DEF Byte
  <2>2. \A j \in block[k] : j + n \in 0 .. LongBits - 1 /\ j + n \in 0 .. 31
    BY <2>1, DesAssumption
  <2>3. Shl(block[k], n) = {j + n : j \in block[k]}
    BY <2>2 DEF Shl
  <2>4. ASSUME NEW i \in 0 .. 31
        PROVE  i \in {j + n : j \in block[k]} <=> 8 * (i \div 8) = n /\ i % 8 \in block[k]
    <3>1. i = 8 * (i \div 8) + (i % 8)
      BY ByteAndBit
    <3>2. ASSUME NEW j \in 0 .. 7, i = j + n PROVE 8 * (i \div 8) = n /\ i % 8 = j
      BY <3>2
    <3> QED BY <2>1, <3>1, <3>2
  <2> QED BY <2>2, <2>3, <2>4
<1>2. PICK l : l = UNION {Shl(block[i], 32 - 8 * i) : i \in 1 .. 4}
  OBVIOUS
<1>3. PICK r : r = UNION {Shl(block[i], 64 - 8 * i) : i \in 5 .. 8}
  OBVIOUS
<1>4. scrunch(block) = [l |-> l, r |-> r]
  BY <1>2, <1>3, Zenon DEF scrunch
<1>5. /\ \A i \in 1 .. 4 : 32 - 8 * i \in {0, 8, 16, 24} /\ i \in 1 .. 8
      /\ \A i \in 5 .. 8 : 64 - 8 * i \in {0, 8, 16, 24} /\ i \in 1 .. 8
  OBVIOUS
<1>6. l \subseteq 0 .. 31 /\ r \subseteq 0 .. 31
  BY <1>1, <1>2, <1>3, <1>5
<1>7. ASSUME NEW i \in 0 .. 31
      PROVE  /\ i \in l <=> i % 8 \in block[4 - (i \div 8)]
             /\ i \in r <=> i % 8 \in block[8 - (i \div 8)]
  <2>1. i \div 8 \in 0 .. 3
    OBVIOUS
  <2>2. /\ 4 - (i \div 8) \in 1 .. 4 /\ 32 - 8 * (4 - (i \div 8)) = 8 * (i \div 8)
        /\ 8 - (i \div 8) \in 5 .. 8 /\ 64 - 8 * (8 - (i \div 8)) = 8 * (i \div 8)
    BY <2>1
  <2>3. \A k \in 1 .. 4 : i \in Shl(block[k], 32 - 8 * k) <=> 8 * (i \div 8) = 32 - 8 * k /\ i % 8 \in block[k]
    BY <1>1, <1>5
  <2>4. \A k \in 5 .. 8 : i \in Shl(block[k], 64 - 8 * k) <=> 8 * (i \div 8) = 64 - 8 * k /\ i % 8 \in block[k]
    BY <1>1, <1>5
  <2>5. i \in l <=> \E k \in 1 .. 4 : i \in Shl(block[k], 32 - 8 * k)
    BY <1>2
  <2>6. i \in r <=> \E k \in 5 .. 8 : i \in Shl(block[k], 64 - 8 * k)
    BY <1>3
  <2>7. \A k \in 1 .. 4 : 8 * (i \div 8) = 32 - 8 * k <=> k = 4 - (i \div 8)
    BY <2>1
  <2>8. \A k \in 5 .. 8 : 8 * (i \div 8) = 64 - 8 * k <=> k = 8 - (i \div 8)
    BY <2>1
  <2>9. i \in l <=> i % 8 \in block[4 - (i \div 8)]
    BY <2>2, <2>3, <2>5, <2>7
  <2>10. i \in r <=> i % 8 \in block[8 - (i \div 8)]
    BY <2>2, <2>4, <2>6, <2>8
  <2> QED BY <2>9, <2>10
<1>8. scrunch(block) \in Words
  BY <1>4, <1>6 DEF Words, Word
<1> QED BY <1>4, <1>7, <1>8

\* ... and where unscrun() takes them from, ...
LEMMA UnscrunBits ==
    ASSUME NEW w \in AnyWords
    PROVE  \A i \in 0 .. 7 :
              /\ \A k \in 1 .. 4 : i \in unscrun(w)[k] <=> i + (32 - 8 * k) \in w.l
              /\ \A k \in 5 .. 8 : i \in unscrun(w)[k] <=> i + (64 - 8 * k) \in w.r
<1>1. ASSUME NEW a \in SUBSET Int, NEW n \in Nat, NEW i \in 0 .. 7
      PROVE  i \in Shr(a, n) \cap Mask(0, 7) <=> i + n \in a
  <2>1. Shr(a, n) = {j - n : j \in {k \in a : k >= n}}
    BY Zenon DEF Shr
  <2>2. i \in Shr(a, n) <=> \E j \in a : j >= n /\ i = j - n
    BY <2>1
  <2> QED BY <2>2 DEF Mask
<1>2. w.l \in SUBSET Int /\ w.r \in SUBSET Int
  BY DEF AnyWords
<1>3. \A k \in 1 .. 4 : 32 - 8 * k \in Nat /\ unscrun(w)[k] = Shr(w.l, 32 - 8 * k) \cap Mask(0, 7)
  BY DEF unscrun
<1>4. \A k \in 5 .. 8 : 64 - 8 * k \in Nat /\ unscrun(w)[k] = Shr(w.r, 64 - 8 * k) \cap Mask(0, 7)
  BY DEF unscrun
<1> QED BY <1>1, <1>2, <1>3, <1>4

\* ... which is below the 32nd.
LEMMA UnscrunLow ==
    ASSUME NEW w \in AnyWords
    PROVE  unscrun(w) = unscrun(LowWords(w))
<1>1. PICK v : v = LowWords(w)
  OBVIOUS
<1>2. v \in AnyWords /\ \A i \in 0 .. 31 : (i \in v.l <=> i \in w.l) /\ (i \in v.r <=> i \in w.r)
  BY <1>1 DEF LowWords, Low, AnyWords
<1>3. ASSUME NEW i \in 0 .. 7, NEW k \in 1 .. 8 PROVE i \in unscrun(v)[k] <=> i \in unscrun(w)[k]
  <2>1. CASE k <= 4
    <3>1. k \in 1 .. 4 /\ i + (32 - 8 * k) \in 0 .. 31
      BY <2>1
    <3> QED BY <1>2, <3>1, UnscrunBits
  <2>2. CASE k > 4
    <3>1. k \in 5 .. 8 /\ i + (64 - 8 * k) \in 0 .. 31
      BY <2>2
    <3> QED BY <1>2, <3>1, UnscrunBits
  <2> QED BY <2>1, <2>2
<1>4. unscrun(v) \in [1 .. 8 -> Byte] /\ unscrun(w) \in [1 .. 8 -> Byte]
  BY BytesOut
<1>5. ASSUME NEW k \in 1 .. 8 PROVE unscrun(v)[k] = unscrun(w)[k]
  <2>1. unscrun(v)[k] \subseteq 0 .. 7 /\ unscrun(w)[k] \subseteq 0 .. 7
    BY <1>4 DEF Byte
  <2> QED BY <1>3, <2>1
<1> QED BY <1>1, <1>4, <1>5

\* One undoes the other.
LEMMA ScrunchUnscrun ==
    ASSUME NEW w \in Words
    PROVE  scrunch(unscrun(w)) = w
<1>1. PICK b \in [1 .. 8 -> Byte] : b = unscrun(w)
  BY BytesOut
<1>2. PICK v \in Words : v = scrunch(b)
  BY ScrunchBits
<1>3. ASSUME NEW i \in 0 .. 31 PROVE (i \in v.l <=> i \in w.l) /\ (i \in v.r <=> i \in w.r)
  <2>1. (i \in v.l <=> i % 8 \in b[4 - (i \div 8)]) /\ (i \in v.r <=> i % 8 \in b[8 - (i \div 8)])
    BY <1>2, ScrunchBits
  <2>2. PICK q \in 0 .. 3, m \in 0 .. 7 : q = i \div 8 /\ m = i % 8 /\ i = 8 * q + m
    BY ByteAndBit
  <2>3. \A k \in 1 .. 4 : m \in b[k] <=> m + (32 - 8 * k) \in w.l
    BY <1>1, UnscrunBits, WordsAny
  <2>4. \A k \in 5 .. 8 : m \in b[k] <=> m + (64 - 8 * k) \in w.r
    BY <1>1, UnscrunBits, WordsAny
  <2>5. /\ 4 - q \in 1 .. 4 /\ m + (32 - 8 * (4 - q)) = i
        /\ 8 - q \in 5 .. 8 /\ m + (64 - 8 * (8 - q)) = i
    BY <2>2
  <2>6. m \in b[4 - q] <=> i \in w.l
    BY <2>3, <2>5
  <2>7. m \in b[8 - q] <=> i \in w.r
    BY <2>4, <2>5
  <2> QED BY <2>1, <2>2, <2>6, <2>7
<1>4. v.l \subseteq 0 .. 31 /\ v.r \subseteq 0 .. 31 /\ w.l \subseteq 0 .. 31 /\ w.r \subseteq 0 .. 31
  BY DEF Words, Word
<1>5. v.l = w.l /\ v.r = w.r
  BY <1>3, <1>4
<1> QED BY <1>1, <1>2, <1>5 DEF Words

\* And the other the one.
LEMMA UnscrunScrunch ==
    ASSUME NEW block \in [1 .. 8 -> Byte]
    PROVE  unscrun(scrunch(block)) = block
<1>1. PICK w \in Words : w = scrunch(block)
  BY ScrunchBits
<1>2. PICK b \in [1 .. 8 -> Byte] : b = unscrun(w)
  BY BytesOut
<1>3. ASSUME NEW k \in 1 .. 8, NEW m \in 0 .. 7 PROVE m \in b[k] <=> m \in block[k]
  <2>1. CASE k <= 4
    <3>1. k \in 1 .. 4
      BY <2>1
    <3>2. PICK i \in 0 .. 31 : i = m + (32 - 8 * k)
      BY <3>1
    <3>3. i \div 8 = 4 - k /\ i % 8 = m
      BY <3>1, <3>2
    <3>4. 4 - (i \div 8) = k
      BY <3>3
    <3>5. i \in w.l <=> m \in block[k]
      BY <1>1, <3>3, <3>4, ScrunchBits
    <3> QED BY <1>2, <3>1, <3>2, <3>5, UnscrunBits, WordsAny
  <2>2. CASE k > 4
    <3>1. k \in 5 .. 8
      BY <2>2
    <3>2. PICK i \in 0 .. 31 : i = m + (64 - 8 * k)
      BY <3>1
    <3>3. i \div 8 = 8 - k /\ i % 8 = m
      BY <3>1, <3>2
    <3>4. 8 - (i \div 8) = k
      BY <3>3
    <3>5. i \in w.r <=> m \in block[k]
      BY <1>1, <3>3, <3>4, ScrunchBits
    <3> QED BY <1>2, <3>1, <3>2, <3>5, UnscrunBits, WordsAny
  <2> QED BY <2>1, <2>2
<1>4. ASSUME NEW k \in 1 .. 8 PROVE b[k] = block[k]
  <2>1. b[k] \subseteq 0 .. 7 /\ block[k] \subseteq 0 .. 7
    BY DEF Byte
  <2> QED BY <1>3, <2>1
<1>5. b = block
  BY <1>4
<1> QED BY <1>1, <1>2, <1>5

-------------------------------------------------------------------------------
(* Decryption.                                                             *)

\* What was enciphered with the rounds of keys is deciphered with them backwards.
LEMMA Deciphered ==
    ASSUME NEW keys, NEW back, Backwards(back, keys), NEW block \in [1 .. 8 -> Byte]
    PROVE  Enciphered(back, Enciphered(keys, block)) = block
<1>1. PICK s \in Words : s = scrunch(block)
  BY ScrunchBits
<1>2. PICK x : x = HalfRounds(s, keys)
  OBVIOUS
<1>3. x[0] = Initial(s) /\ \A i \in 0 .. 15 : x[i + 1] = HalfRound(x[i], keys, i)
  BY <1>2, RoundsAre, InitialIs
<1>4. \A i \in 0 .. 16 : x[i] \in Words
  <2> DEFINE T == {i \in 0 .. 16 : x[i] \in Words}
  <2>1. 0 \in T
    BY <1>3, InitialWords
  <2>2. \A i \in 0 .. 15 : i \in T => i + 1 \in T
    BY <1>3, HalfRoundWords
  <2> HIDE DEF T
  <2>3. \A i \in 0 .. 16 : i \in T
    BY <2>1, <2>2, UpToSixteen
  <2> QED BY <2>3 DEF T
<1>5. PICK z \in Words : z = Final(x[16])
  BY <1>4, FinalWords
<1>6. scrunch(Enciphered(keys, block)) = z
  <2>1. Enciphered(keys, block) = unscrun(FinalPermutation(x[16]))
    BY <1>1, <1>2 DEF Enciphered, desfunc
  <2>2. FinalPermutation(x[16]) \in AnyWords /\ LowWords(FinalPermutation(x[16])) = z
    BY <1>4, <1>5, FinalIs
  <2>3. Enciphered(keys, block) = unscrun(z)
    BY <2>1, <2>2, UnscrunLow
  <2> QED BY <2>3, ScrunchUnscrun
<1>7. PICK y : y = HalfRounds(z, back)
  OBVIOUS
<1>8. y[0] = Initial(z) /\ \A i \in 0 .. 15 : y[i + 1] = HalfRound(y[i], back, i)
  BY <1>7, RoundsAre, InitialIs
<1>9. \A i \in 0 .. 16 : y[i] = Turned(x[16 - i])
  <2> DEFINE T == {i \in 0 .. 16 : y[i] = Turned(x[16 - i])}
  <2>1. 0 \in T
    <3>1. y[0] = Turned(x[16])
      BY <1>4, <1>5, <1>8, InitialFinal
    <3> QED BY <3>1
  <2>2. ASSUME NEW i \in 0 .. 15, i \in T PROVE i + 1 \in T
    <3>1. PICK j \in 0 .. 15 : j = 15 - i
      OBVIOUS
    <3>2. 15 - j = i /\ 16 - i = j + 1 /\ 16 - (i + 1) = j
      BY <3>1
    <3>3. x[j] \in Words /\ x[j + 1] = HalfRound(x[j], keys, j)
      BY <1>3, <1>4
    <3>4. y[i] = Turned(HalfRound(x[j], keys, j))
      BY <2>2, <3>2, <3>3
    <3>5. y[i + 1] = Turned(x[j])
      BY <1>8, <3>2, <3>3, <3>4, HalfRoundBack
    <3> QED BY <3>2, <3>5
  <2> HIDE DEF T
  <2>3. \A i \in 0 .. 16 : i \in T
    BY <2>1, <2>2, UpToSixteen
  <2> QED BY <2>3 DEF T
<1>10. y[16] = Turned(Initial(s)) /\ y[16] \in Words
  <2>1. y[16] = Turned(x[0])
    BY <1>9
  <2> QED BY <1>3, <2>1, InitialWords, TurnLaws
<1>11. FinalPermutation(y[16]) \in AnyWords /\ LowWords(FinalPermutation(y[16])) = s
  BY <1>10, FinalIs, FinalInitial
<1>12. unscrun(FinalPermutation(y[16])) = block
  BY <1>1, <1>11, UnscrunLow, UnscrunScrunch
<1> QED BY <1>6, <1>7, <1>12 DEF Enciphered, desfunc

\* What to was computed from.
BlockInv ==
    /\ RegisterInv
    /\ from \in [1 .. 8 -> Byte]
    /\ under.edf \in Modes =>
          under \in Schedules /\ to = Enciphered(Cooked(under.key, under.edf), from)

\* BlockInv holds initially.
LEMMA BlockInit == Init => BlockInv
<1> SUFFICES ASSUME Init PROVE BlockInv
  OBVIOUS
<1>1. from \in [1 .. 8 -> Byte]
  BY DEF Init, ZeroBytes, Byte
<1>2. under.edf \notin Modes
  BY DEF Init, Modes, EN0, DE1
<1> QED BY <1>1, <1>2, RegisterInit DEF BlockInv

\* BlockInv is inductive.
LEMMA BlockNext == BlockInv /\ [Next]_vars => BlockInv'
<1> SUFFICES ASSUME BlockInv, [Next]_vars PROVE BlockInv'
  OBVIOUS
<1>1. RegisterInv'
  BY RegisterNext DEF BlockInv
<1>2. ASSUME NEW key \in HexKeys, NEW edf \in Modes, rfbDesKey(key, edf)
      PROVE  BlockInv'
  BY <1>1, <1>2 DEF rfbDesKey, BlockInv
<1>3. CASE rfbCPKey \/ rfbUseKey \/ UNCHANGED vars
  BY <1>1, <1>3 DEF rfbCPKey, rfbUseKey, vars, BlockInv
<1>4. ASSUME NEW inblock \in Blocks \cup {to}, rfbDes(inblock)
      PROVE  BlockInv'
  <2>1. inblock \in [1 .. 8 -> Byte]
    BY DesAssumption DEF BlockInv, RegisterInv
  <2>2. from' = inblock /\ under' = holds /\ to' = Enciphered(KnL, inblock)
    BY <1>4 DEF rfbDes
  <2>3. holds \in Schedules /\ KnL = Cooked(holds.key, holds.edf)
    BY DEF BlockInv, RegisterInv
  <2> QED BY <1>1, <2>1, <2>2, <2>3 DEF BlockInv
<1> QED BY <1>2, <1>3, <1>4 DEF Next

\* In the other mode of the same key rfbDes() turns back what it wrote, for every key
\* and block, and whatever was set, kept and brought back in between: the sixteen
\* rounds are a Feistel network whatever fval is, the permutations undo each other.
THEOREM DecryptsBack == Spec => Decrypts
<1>1. BlockInv /\ [Next]_vars =>
         [(rfbDes(to) /\ under.key = holds.key /\ {under.edf, holds.edf} = Modes) => to' = from]_vars
  <2> SUFFICES ASSUME BlockInv, rfbDes(to), under.key = holds.key, {under.edf, holds.edf} = Modes
               PROVE  to' = from
    OBVIOUS
  <2>0. EN0 # DE1 /\ Modes = {EN0, DE1}
    BY DEF Modes, EN0, DE1
  <2>1. /\ under.edf \in Modes /\ holds.edf \in Modes
        /\ (under.edf = EN0 /\ holds.edf = DE1) \/ (under.edf = DE1 /\ holds.edf = EN0)
    BY <2>0
  <2>2. /\ to = Enciphered(Cooked(under.key, under.edf), from) /\ from \in [1 .. 8 -> Byte]
        /\ KnL = Cooked(under.key, holds.edf)
    BY <2>1 DEF BlockInv, RegisterInv
  <2>3. Backwards(KnL, Cooked(under.key, under.edf))
    BY <2>1, <2>2, SchedulesReversed
  <2>4. to' = Enciphered(KnL, to)
    BY DEF rfbDes
  <2> QED BY <2>2, <2>3, <2>4, Deciphered
<1> QED BY <1>1, BlockInit, BlockNext, PTL DEF Spec, Decrypts

-------------------------------------------------------------------------------
(* The boxes.                                                              *)

Bit == {0, 1}
Six == [1 .. 6 -> Bit]

\* Six bits as the index of an SP table, and of an entry of a box of the standard.
SixBits(x1, x2, x3, x4, x5, x6) == 32 * x1 + 16 * x2 + 8 * x3 + 4 * x4 + 2 * x5 + x6
RowColumn(x1, x2, x3, x4, x5, x6) == 16 * (2 * x1 + x6) + (8 * x2 + 4 * x3 + 2 * x4 + x5) + 1
SixOf(x) == SixBits(x[1], x[2], x[3], x[4], x[5], x[6])
EntryOf(x) == RowColumn(x[1], x[2], x[3], x[4], x[5], x[6])

\* The number of four bits, and the bit of weight w of a number.
FourBits(d1, d2, d3, d4) == 8 * d1 + 4 * d2 + 2 * d3 + d4
BitAt(v, w) == (v \div w) % 2

\* A digit has the bits of v of weight w1, w2, w3 and w4, in this order; ...
Reordered(digit, v, w1, w2, w3, w4) ==
    v \in Nat /\ digit = FourBits(BitAt(v, w1), BitAt(v, w2), BitAt(v, w3), BitAt(v, w4))

\* ... the digits of a table have those of the entries of the box.
Reorders(digits, box, w1, w2, w3, w4) ==
    \A x1, x2, x3, x4, x5, x6 \in Bit :
        Reordered(digits[SixBits(x1, x2, x3, x4, x5, x6) + 1],
                  box[RowColumn(x1, x2, x3, x4, x5, x6)], w1, w2, w3, w4)

\* Of the positions q1, q2, q3 and q4 the word t has those whose bit is one.
HasPlaces(t, q1, q2, q3, q4, d1, d2, d3, d4) ==
    /\ t \subseteq {q1, q2, q3, q4}
    /\ (q1 \in t <=> d1 = 1) /\ (q2 \in t <=> d2 = 1)
    /\ (q3 \in t <=> d3 = 1) /\ (q4 \in t <=> d4 = 1)

\* The table has the bits of the box at these positions.
Shows(table, box, q1, q2, q3, q4, w1, w2, w3, w4) ==
    \A x \in Six :
        LET v == box[EntryOf(x)]
        IN /\ v \in Nat
           /\ HasPlaces(table[SixOf(x)], q1, q2, q3, q4,
                        BitAt(v, w1), BitAt(v, w2), BitAt(v, w3), BitAt(v, w4))

Distinct(q1, q2, q3, q4) == q1 # q2 /\ q1 # q3 /\ q1 # q4 /\ q2 # q3 /\ q2 # q4 /\ q3 # q4
Weights == {1, 2, 4, 8}

\* Six bits are an index of an SP table.
LEMMA SixRange ==
    ASSUME NEW x \in Six
    PROVE  /\ x[1] \in Bit /\ x[2] \in Bit /\ x[3] \in Bit
           /\ x[4] \in Bit /\ x[5] \in Bit /\ x[6] \in Bit
           /\ SixOf(x) \in 0 .. 63
BY DEF Six, Bit, SixOf, SixBits

\* The positions an entry of a table has are those its digit says.
LEMMA DigitPlaces ==
    ASSUME NEW q1, NEW q2, NEW q3, NEW q4, Distinct(q1, q2, q3, q4),
           NEW digits, NEW i \in 0 .. 63,
           NEW d1 \in Bit, NEW d2 \in Bit, NEW d3 \in Bit, NEW d4 \in Bit,
           digits[i + 1] = FourBits(d1, d2, d3, d4)
    PROVE  HasPlaces(Table(<<q1, q2, q3, q4>>, digits)[i], q1, q2, q3, q4, d1, d2, d3, d4)
<1> DEFINE d == FourBits(d1, d2, d3, d4)
           q == <<q1, q2, q3, q4>>
           cs == {c \in 1 .. 4 : (d \div 2 ^ (4 - c)) % 2 = 1}
<1>1. /\ (d \div 8) % 2 = d1 /\ (d \div 4) % 2 = d2 /\ (d \div 2) % 2 = d3 /\ (d \div 1) % 2 = d4
  BY DEF Bit, FourBits
<1>2. 2 ^ (4 - 1) = 8 /\ 2 ^ (4 - 2) = 4 /\ 2 ^ (4 - 3) = 2 /\ 2 ^ (4 - 4) = 1
  OBVIOUS
<1> HIDE DEF d
<1>3. /\ cs \subseteq {1, 2, 3, 4}
      /\ (1 \in cs <=> d1 = 1) /\ (2 \in cs <=> d2 = 1) /\ (3 \in cs <=> d3 = 1) /\ (4 \in cs <=> d4 = 1)
  BY <1>1, <1>2
<1>4. Table(q, digits)[i] = {q[b] : b \in cs}
  BY Zenon DEF Table, d
<1> HIDE DEF cs
<1>5. q[1] = q1 /\ q[2] = q2 /\ q[3] = q3 /\ q[4] = q4
  OBVIOUS
<1> HIDE DEF q
<1>6. HasPlaces({q[b] : b \in cs}, q1, q2, q3, q4, d1, d2, d3, d4)
  BY <1>3, <1>5 DEF HasPlaces, Distinct
<1> QED BY <1>4, <1>6, Zenon DEF q

\* The table of digits that reorder a box has its bits at their positions.
LEMMA ReorderedShows ==
    ASSUME NEW q1, NEW q2, NEW q3, NEW q4, Distinct(q1, q2, q3, q4),
           NEW digits, NEW box,
           NEW w1 \in Weights, NEW w2 \in Weights, NEW w3 \in Weights, NEW w4 \in Weights,
           Reorders(digits, box, w1, w2, w3, w4)
    PROVE  Shows(Table(<<q1, q2, q3, q4>>, digits), box, q1, q2, q3, q4, w1, w2, w3, w4)
<1>1. ASSUME NEW x \in Six, NEW v, v = box[EntryOf(x)]
      PROVE  /\ v \in Nat
             /\ HasPlaces(Table(<<q1, q2, q3, q4>>, digits)[SixOf(x)], q1, q2, q3, q4,
                          BitAt(v, w1), BitAt(v, w2), BitAt(v, w3), BitAt(v, w4))
  <2>1. v \in Nat /\ digits[SixOf(x) + 1] =
                         FourBits(BitAt(v, w1), BitAt(v, w2), BitAt(v, w3), BitAt(v, w4))
    <3>1. /\ x[1] \in Bit /\ x[2] \in Bit /\ x[3] \in Bit /\ x[4] \in Bit /\ x[5] \in Bit /\ x[6] \in Bit
      BY SixRange
    <3>2. Reordered(digits[SixOf(x) + 1], box[EntryOf(x)], w1, w2, w3, w4)
      BY <3>1, Zenon DEF Reorders, SixOf, EntryOf
    <3> QED BY <1>1, <3>2, Zenon DEF Reordered
  <2>2. BitAt(v, w1) \in Bit /\ BitAt(v, w2) \in Bit /\ BitAt(v, w3) \in Bit /\ BitAt(v, w4) \in Bit
    BY <2>1 DEF Bit, BitAt, Weights
  <2> QED BY <2>1, <2>2, SixRange, DigitPlaces, Zenon
<1> QED BY <1>1, Zenon DEF Shows

\* The first table has the bits of the first box at its positions.
LEMMA Box1 == Shows(SP1, Standard!S1, 24, 16, 10, 2, 8, 4, 2, 1)
<1>1. PICK digits : SP1 = Table(<<24, 16, 10, 2>>, digits) /\ Reorders(digits, Standard!S1, 8, 4, 2, 1)
  BY DEF SP1, Standard!S1, Reorders, Reordered, SixBits, RowColumn, FourBits, BitAt, Bit
<1>2. Distinct(24, 16, 10, 2) /\ 1 \in Weights /\ 2 \in Weights /\ 4 \in Weights /\ 8 \in Weights
  BY DEF Distinct, Weights
<1> QED BY <1>1, <1>2, ReorderedShows, Zenon

\* So has the second.
LEMMA Box2 == Shows(SP2, Standard!S2, 31, 20, 15, 5, 2, 8, 1, 4)
<1>1. PICK digits : SP2 = Table(<<31, 20, 15, 5>>, digits) /\ Reorders(digits, Standard!S2, 2, 8, 1, 4)
  BY DEF SP2, Standard!S2, Reorders, Reordered, SixBits, RowColumn, FourBits, BitAt, Bit
<1>2. Distinct(31, 20, 15, 5) /\ 1 \in Weights /\ 2 \in Weights /\ 4 \in Weights /\ 8 \in Weights
  BY DEF Distinct, Weights
<1> QED BY <1>1, <1>2, ReorderedShows, Zenon

\* So has the third.
LEMMA Box3 == Shows(SP3, Standard!S3, 27, 17, 9, 3, 1, 4, 8, 2)
<1>1. PICK digits : SP3 = Table(<<27, 17, 9, 3>>, digits) /\ Reorders(digits, Standard!S3, 1, 4, 8, 2)
  BY DEF SP3, Standard!S3, Reorders, Reordered, SixBits, RowColumn, FourBits, BitAt, Bit
<1>2. Distinct(27, 17, 9, 3) /\ 1 \in Weights /\ 2 \in Weights /\ 4 \in Weights /\ 8 \in Weights
  BY DEF Distinct, Weights
<1> QED BY <1>1, <1>2, ReorderedShows, Zenon

\* So has the fourth.
LEMMA Box4 == Shows(SP4, Standard!S4, 23, 13, 7, 0, 2, 4, 8, 1)
<1>1. PICK digits : SP4 = Table(<<23, 13, 7, 0>>, digits) /\ Reorders(digits, Standard!S4, 2, 4, 8, 1)
  BY DEF SP4, Standard!S4, Reorders, Reordered, SixBits, RowColumn, FourBits, BitAt, Bit
<1>2. Distinct(23, 13, 7, 0) /\ 1 \in Weights /\ 2 \in Weights /\ 4 \in Weights /\ 8 \in Weights
  BY DEF Distinct, Weights
<1> QED BY <1>1, <1>2, ReorderedShows, Zenon

\* So has the fifth.
LEMMA Box5 == Shows(SP5, Standard!S5, 30, 25, 19, 8, 1, 8, 4, 2)
<1>1. PICK digits : SP5 = Table(<<30, 25, 19, 8>>, digits) /\ Reorders(digits, Standard!S5, 1, 8, 4, 2)
  BY DEF SP5, Standard!S5, Reorders, Reordered, SixBits, RowColumn, FourBits, BitAt, Bit
<1>2. Distinct(30, 25, 19, 8) /\ 1 \in Weights /\ 2 \in Weights /\ 4 \in Weights /\ 8 \in Weights
  BY DEF Distinct, Weights
<1> QED BY <1>1, <1>2, ReorderedShows, Zenon

\* So has the sixth.
LEMMA Box6 == Shows(SP6, Standard!S6, 29, 22, 14, 4, 8, 2, 1, 4)
<1>1. PICK digits : SP6 = Table(<<29, 22, 14, 4>>, digits) /\ Reorders(digits, Standard!S6, 8, 2, 1, 4)
  BY DEF SP6, Standard!S6, Reorders, Reordered, SixBits, RowColumn, FourBits, BitAt, Bit
<1>2. Distinct(29, 22, 14, 4) /\ 1 \in Weights /\ 2 \in Weights /\ 4 \in Weights /\ 8 \in Weights
  BY DEF Distinct, Weights
<1> QED BY <1>1, <1>2, ReorderedShows, Zenon

\* So has the seventh.
LEMMA Box7 == Shows(SP7, Standard!S7, 26, 21, 11, 1, 1, 4, 2, 8)
<1>1. PICK digits : SP7 = Table(<<26, 21, 11, 1>>, digits) /\ Reorders(digits, Standard!S7, 1, 4, 2, 8)
  BY DEF SP7, Standard!S7, Reorders, Reordered, SixBits, RowColumn, FourBits, BitAt, Bit
<1>2. Distinct(26, 21, 11, 1) /\ 1 \in Weights /\ 2 \in Weights /\ 4 \in Weights /\ 8 \in Weights
  BY DEF Distinct, Weights
<1> QED BY <1>1, <1>2, ReorderedShows, Zenon

\* So has the eighth.
LEMMA Box8 == Shows(SP8, Standard!S8, 28, 18, 12, 6, 8, 2, 1, 4)
<1>1. PICK digits : SP8 = Table(<<28, 18, 12, 6>>, digits) /\ Reorders(digits, Standard!S8, 8, 2, 1, 4)
  BY DEF SP8, Standard!S8, Reorders, Reordered, SixBits, RowColumn, FourBits, BitAt, Bit
<1>2. Distinct(28, 18, 12, 6) /\ 1 \in Weights /\ 2 \in Weights /\ 4 \in Weights /\ 8 \in Weights
  BY DEF Distinct, Weights
<1> QED BY <1>1, <1>2, ReorderedShows, Zenon

\* The tables in the order of the boxes, and where the bits of an entry of each are
\* for the standard.
Tables == <<SP1, SP2, SP3, SP4, SP5, SP6, SP7, SP8>>
Places ==
    <<24, 16, 10, 2, 20, 5, 31, 15, 9, 17, 3, 27, 7, 13, 23, 0,
      25, 19, 8, 30, 29, 4, 22, 14, 1, 21, 11, 26, 28, 6, 18, 12>>
Place(k, j) == Places[4 * (k - 1) + j]

\* No two bits have the same place.
LEMMA PlacesApart ==
    ASSUME NEW k \in 1 .. 8, NEW m \in 1 .. 8, NEW i \in 1 .. 4, NEW j \in 1 .. 4,
           Place(k, i) = Place(m, j)
    PROVE  k = m /\ i = j
<1>1. \A u, v \in 1 .. 32 : Places[u] = Places[v] => u = v
  BY DEF Places
<1>2. 4 * (k - 1) + i \in 1 .. 32 /\ 4 * (m - 1) + j \in 1 .. 32
  OBVIOUS
<1>3. 4 * (k - 1) + i = 4 * (m - 1) + j
  BY <1>1, <1>2 DEF Place
<1> QED BY <1>3

\* An entry of a table has the bits of the standard's box at their places, and no
\* other: ...
BoxAtPlaces(t, k, x) ==
    /\ t \subseteq {Place(k, j) : j \in 1 .. 4}
    /\ \A j \in 1 .. 4 : /\ Standard!Box(k, x)[j] \in Bit
                         /\ Place(k, j) \in t <=> Standard!Box(k, x)[j] = 1

\* ... every entry of the eight.
LEMMA BoxPlaces == \A k \in 1 .. 8 : \A x \in Six : BoxAtPlaces(Tables[k][SixOf(x)], k, x)
<1> SUFFICES ASSUME NEW x \in Six PROVE \A k \in 1 .. 8 : BoxAtPlaces(Tables[k][SixOf(x)], k, x)
  OBVIOUS
<1> DEFINE V(s) == s[EntryOf(x)]
           Entry(v) == <<(v \div 8) % 2, (v \div 4) % 2, (v \div 2) % 2, v % 2>>
<1>1. \A k \in 1 .. 8 : Standard!Box(k, x) = Entry(V(Standard!S[k]))
  BY Zenon DEF Standard!Box, EntryOf, RowColumn
<1>2. ASSUME NEW v \in Nat
      PROVE  /\ Entry(v)[1] = BitAt(v, 8) /\ Entry(v)[2] = BitAt(v, 4)
             /\ Entry(v)[3] = BitAt(v, 2) /\ Entry(v)[4] = BitAt(v, 1)
             /\ \A j \in 1 .. 4 : Entry(v)[j] \in Bit
  BY DEF BitAt, Bit
<1> HIDE DEF Entry
<1>3. BoxAtPlaces(SP1[SixOf(x)], 1, x)
  <2>1. PICK v \in Nat :
            /\ v = V(Standard!S1)
            /\ HasPlaces(SP1[SixOf(x)], 24, 16, 10, 2,
                         BitAt(v, 8), BitAt(v, 4), BitAt(v, 2), BitAt(v, 1))
    BY Box1, Zenon DEF Shows
  <2>2. Standard!Box(1, x) = Entry(v)
    BY <1>1, <2>1 DEF Standard!S
  <2>3. Place(1, 1) = 24 /\ Place(1, 2) = 16 /\ Place(1, 3) = 10 /\ Place(1, 4) = 2
    BY DEF Place, Places
  <2> QED BY <1>2, <2>1, <2>2, <2>3 DEF BoxAtPlaces, HasPlaces
<1>4. BoxAtPlaces(SP2[SixOf(x)], 2, x)
  <2>1. PICK v \in Nat :
            /\ v = V(Standard!S2)
            /\ HasPlaces(SP2[SixOf(x)], 31, 20, 15, 5,
                         BitAt(v, 2), BitAt(v, 8), BitAt(v, 1), BitAt(v, 4))
    BY Box2, Zenon DEF Shows
  <2>2. Standard!Box(2, x) = Entry(v)
    BY <1>1, <2>1 DEF Standard!S
  <2>3. Place(2, 1) = 20 /\ Place(2, 2) = 5 /\ Place(2, 3) = 31 /\ Place(2, 4) = 15
    BY DEF Place, Places
  <2> QED BY <1>2, <2>1, <2>2, <2>3 DEF BoxAtPlaces, HasPlaces
<1>5. BoxAtPlaces(SP3[SixOf(x)], 3, x)
  <2>1. PICK v \in Nat :
            /\ v = V(Standard!S3)
            /\ HasPlaces(SP3[SixOf(x)], 27, 17, 9, 3,
                         BitAt(v, 1), BitAt(v, 4), BitAt(v, 8), BitAt(v, 2))
    BY Box3, Zenon DEF Shows
  <2>2. Standard!Box(3, x) = Entry(v)
    BY <1>1, <2>1 DEF Standard!S
  <2>3. Place(3, 1) = 9 /\ Place(3, 2) = 17 /\ Place(3, 3) = 3 /\ Place(3, 4) = 27
    BY DEF Place, Places
  <2> QED BY <1>2, <2>1, <2>2, <2>3 DEF BoxAtPlaces, HasPlaces
<1>6. BoxAtPlaces(SP4[SixOf(x)], 4, x)
  <2>1. PICK v \in Nat :
            /\ v = V(Standard!S4)
            /\ HasPlaces(SP4[SixOf(x)], 23, 13, 7, 0,
                         BitAt(v, 2), BitAt(v, 4), BitAt(v, 8), BitAt(v, 1))
    BY Box4, Zenon DEF Shows
  <2>2. Standard!Box(4, x) = Entry(v)
    BY <1>1, <2>1 DEF Standard!S
  <2>3. Place(4, 1) = 7 /\ Place(4, 2) = 13 /\ Place(4, 3) = 23 /\ Place(4, 4) = 0
    BY DEF Place, Places
  <2> QED BY <1>2, <2>1, <2>2, <2>3 DEF BoxAtPlaces, HasPlaces
<1>7. BoxAtPlaces(SP5[SixOf(x)], 5, x)
  <2>1. PICK v \in Nat :
            /\ v = V(Standard!S5)
            /\ HasPlaces(SP5[SixOf(x)], 30, 25, 19, 8,
                         BitAt(v, 1), BitAt(v, 8), BitAt(v, 4), BitAt(v, 2))
    BY Box5, Zenon DEF Shows
  <2>2. Standard!Box(5, x) = Entry(v)
    BY <1>1, <2>1 DEF Standard!S
  <2>3. Place(5, 1) = 25 /\ Place(5, 2) = 19 /\ Place(5, 3) = 8 /\ Place(5, 4) = 30
    BY DEF Place, Places
  <2> QED BY <1>2, <2>1, <2>2, <2>3 DEF BoxAtPlaces, HasPlaces
<1>8. BoxAtPlaces(SP6[SixOf(x)], 6, x)
  <2>1. PICK v \in Nat :
            /\ v = V(Standard!S6)
            /\ HasPlaces(SP6[SixOf(x)], 29, 22, 14, 4,
                         BitAt(v, 8), BitAt(v, 2), BitAt(v, 1), BitAt(v, 4))
    BY Box6, Zenon DEF Shows
  <2>2. Standard!Box(6, x) = Entry(v)
    BY <1>1, <2>1 DEF Standard!S
  <2>3. Place(6, 1) = 29 /\ Place(6, 2) = 4 /\ Place(6, 3) = 22 /\ Place(6, 4) = 14
    BY DEF Place, Places
  <2> QED BY <1>2, <2>1, <2>2, <2>3 DEF BoxAtPlaces, HasPlaces
<1>9. BoxAtPlaces(SP7[SixOf(x)], 7, x)
  <2>1. PICK v \in Nat :
            /\ v = V(Standard!S7)
            /\ HasPlaces(SP7[SixOf(x)], 26, 21, 11, 1,
                         BitAt(v, 1), BitAt(v, 4), BitAt(v, 2), BitAt(v, 8))
    BY Box7, Zenon DEF Shows
  <2>2. Standard!Box(7, x) = Entry(v)
    BY <1>1, <2>1 DEF Standard!S
  <2>3. Place(7, 1) = 1 /\ Place(7, 2) = 21 /\ Place(7, 3) = 11 /\ Place(7, 4) = 26
    BY DEF Place, Places
  <2> QED BY <1>2, <2>1, <2>2, <2>3 DEF BoxAtPlaces, HasPlaces
<1>10. BoxAtPlaces(SP8[SixOf(x)], 8, x)
  <2>1. PICK v \in Nat :
            /\ v = V(Standard!S8)
            /\ HasPlaces(SP8[SixOf(x)], 28, 18, 12, 6,
                         BitAt(v, 8), BitAt(v, 2), BitAt(v, 1), BitAt(v, 4))
    BY Box8, Zenon DEF Shows
  <2>2. Standard!Box(8, x) = Entry(v)
    BY <1>1, <2>1 DEF Standard!S
  <2>3. Place(8, 1) = 28 /\ Place(8, 2) = 6 /\ Place(8, 3) = 18 /\ Place(8, 4) = 12
    BY DEF Place, Places
  <2> QED BY <1>2, <2>1, <2>2, <2>3 DEF BoxAtPlaces, HasPlaces
<1> QED BY <1>3, <1>4, <1>5, <1>6, <1>7, <1>8, <1>9, <1>10 DEF Tables

-------------------------------------------------------------------------------
(* The bits of a word and of the standard's halves.                        *)

BitOf(b) == IF b THEN 1 ELSE 0

\* Where desfunc() has bit n of a half: the words are rotated by one.
At(n) == (33 - n) % 32

\* The word a has the bits of half.
Holds(a, half) == \A n \in 1 .. 32 : half[n] = BitOf(At(n) \in a)

\* A bit of a number below 32 at a time, for the cases.
LEMMA FiveBits ==
    \A n \in 0 .. 31 : \E a, b, c, d, e \in Bit : n = 16 * a + 8 * b + 4 * c + 2 * d + e
<1> SUFFICES ASSUME NEW n \in 0 .. 31
             PROVE  \E a, b, c, d, e \in Bit : n = 16 * a + 8 * b + 4 * c + 2 * d + e
  OBVIOUS
<1> DEFINE a == n \div 16
           b == (n \div 8) % 2
           c == (n \div 4) % 2
           d == (n \div 2) % 2
           e == n % 2
<1>1. n = 16 * a + 8 * b + 4 * c + 2 * d + e
  OBVIOUS
<1>2. a \in Bit /\ b \in Bit /\ c \in Bit /\ d \in Bit /\ e \in Bit
  BY DEF Bit
<1> HIDE DEF a, b, c, d, e
<1> QED BY <1>1, <1>2

\* The standard's P takes bit n from the bit of the boxes whose place is that of bit n.
LEMMA PlacesOfP ==
    ASSUME NEW n \in 1 .. 32
    PROVE  \E k \in 1 .. 8, j \in 1 .. 4 :
              /\ ((Standard!P[n] - 1) \div 4) + 1 = k
              /\ ((Standard!P[n] - 1) % 4) + 1 = j
              /\ At(n) = Place(k, j)
<1>1. PICK a \in Bit, b \in Bit, c \in Bit, d \in Bit, e \in Bit :
          n = (16 * a + 8 * b + 4 * c + 2 * d + e) + 1
  <2>1. n - 1 \in 0 .. 31
    OBVIOUS
  <2>2. PICK a \in Bit, b \in Bit, c \in Bit, d \in Bit, e \in Bit :
            n - 1 = 16 * a + 8 * b + 4 * c + 2 * d + e
    BY <2>1, FiveBits
  <2> QED BY <2>2 DEF Bit
<1>2. PICK v \in 1 .. 32 : v = Standard!P[n] /\ At(n) = Places[v]
  BY <1>1 DEF Bit, Standard!P, At, Places
<1> DEFINE k == ((v - 1) \div 4) + 1
           j == ((v - 1) % 4) + 1
<1>3. k \in 1 .. 8 /\ j \in 1 .. 4 /\ v = 4 * (k - 1) + j
  OBVIOUS
<1> HIDE DEF k, j
<1> QED BY <1>2, <1>3 DEF k, j, Place

\* The bits of an exclusive or.
LEMMA XorBit ==
    ASSUME NEW a, NEW b, NEW q
    PROVE  BitOf(q \in Xor(a, b)) = (BitOf(q \in a) + BitOf(q \in b)) % 2
BY DEF BitOf, Xor

\* Six bits of a word as an index.
LEMMA IndexIs ==
    ASSUME NEW x \in SUBSET Int, NEW n \in {0, 8, 16, 24}
    PROVE  Index(Shr(x, n)) = SixOf([p \in 1 .. 6 |-> BitOf((n + 6) - p \in x)])
<1> DEFINE y == Shr(x, n)
           bits == [p \in 1 .. 6 |-> BitOf((n + 6) - p \in x)]
<1>1. ASSUME NEW i \in 0 .. 5 PROVE i \in y <=> n + i \in x
  <2>1. Shr(x, n) = {j - n : j \in {k \in x : k >= n}}
    BY Zenon DEF Shr
  <2>2. i \in Shr(x, n) <=> \E j \in x : j >= n /\ i = j - n
    BY <2>1
  <2> QED BY <2>2
<1> HIDE DEF y
<1>2. Index(y) = SixBits(BitOf(5 \in y), BitOf(4 \in y), BitOf(3 \in y), BitOf(2 \in y), BitOf(1 \in y), BitOf(0 \in y))
  BY DEF Index, SixBits, BitOf
<1>3. /\ bits[1] = BitOf(5 \in y) /\ bits[2] = BitOf(4 \in y) /\ bits[3] = BitOf(3 \in y)
      /\ bits[4] = BitOf(2 \in y) /\ bits[5] = BitOf(1 \in y) /\ bits[6] = BitOf(0 \in y)
  BY <1>1 DEF BitOf
<1> HIDE DEF bits
<1> QED BY <1>2, <1>3, Zenon DEF SixOf, bits, y

\* The words that the boxes of a round look at: those with an odd number the first.
Worked(half, key0) == Xor(Shl(half, 28) \cup Shr(half, 4), key0)
Worked1(half, key1) == Xor(half, key1)

\* What box k sees of them.
Seen(half, key0, key1, k) ==
    LET work == IF k % 2 = 1 THEN Worked(half, key0) ELSE Worked1(half, key1)
    IN [p \in 1 .. 6 |-> BitOf((30 - 8 * ((k - 1) \div 2)) - p \in work)]

\* fval() is what the boxes make of that.
LEMMA FvalBoxes ==
    ASSUME NEW half \in Word, NEW key0 \in SUBSET Nat, NEW key1 \in SUBSET Nat
    PROVE  fval(half, key0, key1) = UNION {Tables[k][SixOf(Seen(half, key0, key1, k))] : k \in 1 .. 8}
<1> DEFINE work == Worked(half, key0)
           work1 == Worked1(half, key1)
           At6(x, n) == [p \in 1 .. 6 |-> BitOf(n - p \in x)]
           T(k) == Tables[k][SixOf(Seen(half, key0, key1, k))]
<1>1. work \in SUBSET Nat /\ work1 \in SUBSET Nat
  <2>1. Shl(half, 28) \in SUBSET Nat
    BY DesAssumption DEF Shl
  <2>2. Shr(half, 4) \in SUBSET Nat
    BY DEF Shr, Word
  <2>3. \A a, b \in SUBSET Nat : Xor(a, b) \in SUBSET Nat
    BY DEF Xor
  <2>4. half \in SUBSET Nat /\ Shl(half, 28) \cup Shr(half, 4) \in SUBSET Nat
    BY <2>1, <2>2 DEF Word
  <2> QED BY <2>3, <2>4, Zenon DEF Worked, Worked1
<1>2. ASSUME NEW x \in SUBSET Nat
      PROVE  /\ Index(x) = SixOf(At6(x, 6)) /\ Index(Shr(x, 8)) = SixOf(At6(x, 14))
             /\ Index(Shr(x, 16)) = SixOf(At6(x, 22)) /\ Index(Shr(x, 24)) = SixOf(At6(x, 30))
  <2>1. Shr(x, 0) = x
    <3>1. Shr(x, 0) = {i - 0 : i \in {j \in x : j >= 0}}
      BY Zenon DEF Shr
    <3>2. \A i \in x : i >= 0 /\ i - 0 = i
      OBVIOUS
    <3>3. {j \in x : j >= 0} = x
      BY <3>2
    <3> QED BY <3>1, <3>2, <3>3
  <2>2. x \in SUBSET Int /\ (0 + 6 = 6 /\ 8 + 6 = 14 /\ 16 + 6 = 22 /\ 24 + 6 = 30)
    OBVIOUS
  <2>3. \A n \in {0, 8, 16, 24} : Index(Shr(x, n)) = SixOf(At6(x, n + 6))
    BY <2>2, IndexIs, Zenon
  <2> QED BY <2>1, <2>2, <2>3
<1>3. /\ Seen(half, key0, key1, 1) = At6(work, 30) /\ Seen(half, key0, key1, 2) = At6(work1, 30)
      /\ Seen(half, key0, key1, 3) = At6(work, 22) /\ Seen(half, key0, key1, 4) = At6(work1, 22)
      /\ Seen(half, key0, key1, 5) = At6(work, 14) /\ Seen(half, key0, key1, 6) = At6(work1, 14)
      /\ Seen(half, key0, key1, 7) = At6(work, 6) /\ Seen(half, key0, key1, 8) = At6(work1, 6)
  BY DEF Seen
<1>4. fval(half, key0, key1) =
          UNION {SP7[Index(work)], SP5[Index(Shr(work, 8))], SP3[Index(Shr(work, 16))],
                 SP1[Index(Shr(work, 24))], SP8[Index(work1)], SP6[Index(Shr(work1, 8))],
                 SP4[Index(Shr(work1, 16))], SP2[Index(Shr(work1, 24))]}
  BY Zenon DEF fval, Worked, Worked1
<1> HIDE DEF work, work1, At6
<1>5. fval(half, key0, key1) = UNION {T(7), T(5), T(3), T(1), T(8), T(6), T(4), T(2)}
  BY <1>1, <1>2, <1>3, <1>4 DEF Tables
<1> HIDE DEF T
<1>6. {T(7), T(5), T(3), T(1), T(8), T(6), T(4), T(2)} = {T(k) : k \in 1 .. 8}
  OBVIOUS
<1> QED BY <1>5, <1>6, Zenon DEF T

\* fval() has the bits of the standard's cipher function where the boxes see the same.
LEMMA FvalBits ==
    ASSUME NEW half \in Word, NEW key0 \in SUBSET Nat, NEW key1 \in SUBSET Nat,
           NEW right, NEW roundKey,
           \A k \in 1 .. 8 :
               Seen(half, key0, key1, k) =
                   [p \in 1 .. 6 |->
                       Standard!XorBits(Standard!Permute(right, Standard!Expansion), roundKey)[6 * (k - 1) + p]]
    PROVE  Holds(fval(half, key0, key1), Standard!Cipher(right, roundKey))
<1> DEFINE in == Standard!XorBits(Standard!Permute(right, Standard!Expansion), roundKey)
           out == [i \in 1 .. 8 |-> Standard!Box(i, [p \in 1 .. 6 |-> in[6 * (i - 1) + p]])]
           all == [n \in 1 .. 32 |-> out[((n - 1) \div 4) + 1][((n - 1) % 4) + 1]]
           x(k) == Seen(half, key0, key1, k)
           T(k) == Tables[k][SixOf(x(k))]
<1>1. \A k \in 1 .. 8 : x(k) \in Six
  BY DEF Seen, Six, Bit, BitOf
<1>2. \A k \in 1 .. 8 : out[k] = Standard!Box(k, x(k))
  OBVIOUS
<1>3. Standard!Cipher(right, roundKey) = Standard!Permute(all, Standard!P)
  BY Zenon DEF Standard!Cipher
<1>4. fval(half, key0, key1) = UNION {T(k) : k \in 1 .. 8}
  BY FvalBoxes
<1> HIDE DEF in, out, x
<1>5. \A k \in 1 .. 8 : BoxAtPlaces(T(k), k, x(k))
  BY <1>1, BoxPlaces
<1> HIDE DEF T
<1>6. ASSUME NEW n \in 1 .. 32
      PROVE  Standard!Permute(all, Standard!P)[n] = BitOf(At(n) \in fval(half, key0, key1))
  <2>1. PICK k \in 1 .. 8, j \in 1 .. 4 :
            /\ ((Standard!P[n] - 1) \div 4) + 1 = k
            /\ ((Standard!P[n] - 1) % 4) + 1 = j
            /\ At(n) = Place(k, j)
    BY PlacesOfP
  <2>2. Standard!P[n] \in 1 .. 32 /\ n \in DOMAIN Standard!P
    BY DEF Standard!P
  <2>3. Standard!Permute(all, Standard!P)[n] = all[Standard!P[n]]
    BY <2>2, Zenon DEF Standard!Permute
  <2>4. all[Standard!P[n]] = Standard!Box(k, x(k))[j]
    BY <1>2, <2>1, <2>2
  <2>5. At(n) \in T(k) <=> Standard!Box(k, x(k))[j] = 1
    BY <1>5, <2>1 DEF BoxAtPlaces
  <2>6. Standard!Box(k, x(k))[j] \in Bit
    BY <1>5 DEF BoxAtPlaces
  <2>7. ASSUME NEW m \in 1 .. 8, At(n) \in T(m) PROVE m = k
    <3>1. T(m) \subseteq {Place(m, i) : i \in 1 .. 4}
      BY <1>5, Zenon DEF BoxAtPlaces
    <3>2. PICK i \in 1 .. 4 : Place(k, j) = Place(m, i)
      BY <2>1, <2>7, <3>1
    <3> QED BY <3>2, PlacesApart
  <2>8. At(n) \in fval(half, key0, key1) <=> At(n) \in T(k)
    BY <1>4, <2>7
  <2> QED BY <2>3, <2>4, <2>5, <2>6, <2>8 DEF Bit, BitOf
<1> QED BY <1>3, <1>6 DEF Holds

\* The words have the bits of the standard's round key where the boxes see them.
KeyAt(key0, key1, roundKey) ==
    \A k \in 1 .. 8, p \in 1 .. 6 :
        roundKey[6 * (k - 1) + p] =
            BitOf((30 - 8 * ((k - 1) \div 2)) - p \in (IF k % 2 = 1 THEN key0 ELSE key1))

\* work is half rotated by four.
LEMMA RotatedByFour ==
    ASSUME NEW half \in Word, NEW q \in 0 .. 31
    PROVE  q \in Shl(half, 28) \cup Shr(half, 4) <=> (q + 4) % 32 \in half
<1>1. q \in Shl(half, 28) <=> q >= 28 /\ q - 28 \in half
  <2>1. Shl(half, 28) = {i + 28 : i \in half} \cap (0 .. LongBits - 1)
    BY Zenon DEF Shl
  <2>2. q \in 0 .. LongBits - 1
    BY DesAssumption
  <2>3. q \in Shl(half, 28) <=> \E i \in half : q = i + 28
    BY <2>1, <2>2
  <2> QED BY <2>3 DEF Word
<1>2. q \in Shr(half, 4) <=> q + 4 \in half
  <2>1. Shr(half, 4) = {i - 4 : i \in {j \in half : j >= 4}}
    BY Zenon DEF Shr
  <2>2. q \in Shr(half, 4) <=> \E j \in half : j >= 4 /\ q = j - 4
    BY <2>1
  <2> QED BY <2>2 DEF Word
<1>3. CASE q >= 28
  <2>1. (q + 4) % 32 = q - 28
    BY <1>3
  <2>2. q + 4 \notin half
    BY <1>3 DEF Word
  <2> QED BY <1>1, <1>2, <1>3, <2>1, <2>2
<1>4. CASE q < 28
  <2>1. (q + 4) % 32 = q + 4
    BY <1>4
  <2> QED BY <1>1, <1>2, <1>4, <2>1
<1> QED BY <1>3, <1>4

\* The standard's expansion: where the boxes see a half, in its words.
LEMMA ExpansionAt ==
    ASSUME NEW k \in 1 .. 8, NEW p \in 1 .. 6
    PROVE  /\ Standard!Expansion[6 * (k - 1) + p] \in 1 .. 32
           /\ At(Standard!Expansion[6 * (k - 1) + p]) =
                  ((30 - 8 * ((k - 1) \div 2)) - p + (IF k % 2 = 1 THEN 4 ELSE 0)) % 32
<1> DEFINE i == 6 * (k - 1) + p
<1>1. i \in 1 .. 48 /\ (i - 1) \div 6 = k - 1 /\ (i - 1) % 6 = p - 1
  OBVIOUS
<1> HIDE DEF i
<1>2. Standard!Expansion[i] = ((4 * ((i - 1) \div 6) + ((i - 1) % 6) + 31) % 32) + 1
  BY <1>1 DEF Standard!Expansion
<1>3. Standard!Expansion[i] = ((4 * k + p + 26) % 32) + 1
  <2>1. (4 * (k - 1) + (p - 1)) + 31 = 4 * k + p + 26
    OBVIOUS
  <2> QED BY <1>1, <1>2, <2>1
<1>4. PICK m \in 0 .. 31 : m = (4 * k + p + 26) % 32
  OBVIOUS
<1>5. At(m + 1) = (32 - m) % 32
  BY DEF At
<1>6. PICK g \in 0 .. 3 : g = (k - 1) \div 2 /\ (k = 2 * g + 1 \/ k = 2 * g + 2)
  OBVIOUS
<1>7. (32 - m) % 32 = ((30 - 8 * g) - p + (IF k % 2 = 1 THEN 4 ELSE 0)) % 32
  BY <1>4, <1>6
<1> QED BY <1>3, <1>4, <1>5, <1>6, <1>7 DEF i

\* The boxes of fval() see what those of the standard do.
LEMMA SeenBits ==
    ASSUME NEW half \in Word, NEW key0 \in SUBSET Nat, NEW key1 \in SUBSET Nat,
           NEW right, Holds(half, right), NEW roundKey, KeyAt(key0, key1, roundKey), NEW k \in 1 .. 8
    PROVE  Seen(half, key0, key1, k) =
               [p \in 1 .. 6 |->
                   Standard!XorBits(Standard!Permute(right, Standard!Expansion), roundKey)[6 * (k - 1) + p]]
<1> DEFINE key == IF k % 2 = 1 THEN key0 ELSE key1
           q(p) == (30 - 8 * ((k - 1) \div 2)) - p
           E == Standard!Permute(right, Standard!Expansion)
           i(p) == 6 * (k - 1) + p
           turned == IF k % 2 = 1 THEN Shl(half, 28) \cup Shr(half, 4) ELSE half
<1>1. Seen(half, key0, key1, k) = [p \in 1 .. 6 |-> BitOf(q(p) \in Xor(turned, key))]
  <2>1. CASE k % 2 = 1
    BY <2>1, Zenon DEF Seen, Worked
  <2>2. CASE k % 2 # 1
    BY <2>2, Zenon DEF Seen, Worked1
  <2> QED BY <2>1, <2>2
<1>2. ASSUME NEW p \in 1 .. 6
      PROVE  BitOf(q(p) \in Xor(turned, key)) = Standard!XorBits(E, roundKey)[i(p)]
  <2>1. i(p) \in 1 .. 48 /\ q(p) \in 0 .. 31
    OBVIOUS
  <2>2. DOMAIN Standard!Expansion = 1 .. 48
    BY DEF Standard!Expansion
  <2>3. E[i(p)] = right[Standard!Expansion[i(p)]] /\ DOMAIN E = 1 .. 48
    BY <2>1, <2>2, Zenon DEF Standard!Permute
  <2>4. Standard!XorBits(E, roundKey)[i(p)] = (E[i(p)] + roundKey[i(p)]) % 2
    BY <2>1, <2>3, Zenon DEF Standard!XorBits
  <2>5. roundKey[i(p)] = BitOf(q(p) \in key)
    BY DEF KeyAt
  <2>6. E[i(p)] = BitOf(((q(p) + (IF k % 2 = 1 THEN 4 ELSE 0)) % 32) \in half)
    BY <2>3, ExpansionAt DEF Holds
  <2> HIDE DEF q, i, E
  <2>7. (q(p) + (IF k % 2 = 1 THEN 4 ELSE 0)) % 32 \in half <=> q(p) \in turned
    BY <2>1, RotatedByFour
  <2> HIDE DEF key, turned
  <2>8. E[i(p)] = BitOf(q(p) \in turned)
    BY <2>6, <2>7
  <2> QED BY <2>4, <2>5, <2>8, XorBit, Zenon
<1> QED BY <1>1, <1>2, Zenon

\* fval() is the standard's cipher function.
LEMMA FvalIsCipher ==
    ASSUME NEW half \in Word, NEW key0 \in SUBSET Nat, NEW key1 \in SUBSET Nat,
           NEW right, Holds(half, right), NEW roundKey, KeyAt(key0, key1, roundKey)
    PROVE  Holds(fval(half, key0, key1), Standard!Cipher(right, roundKey))
<1>1. \A k \in 1 .. 8 :
          Seen(half, key0, key1, k) =
              [p \in 1 .. 6 |->
                  Standard!XorBits(Standard!Permute(right, Standard!Expansion), roundKey)[6 * (k - 1) + p]]
  BY SeenBits
<1> QED BY <1>1, FvalBits, Zenon

-------------------------------------------------------------------------------
(* The key schedule is the standard's.                                     *)

\* How far the standard rotates is what totrot says.
LEMMA ShiftedIsTotrot == \A r \in 1 .. 16 : Standard!Shifted[r] = totrot[r]
<1> DEFINE f == [r \in 0 .. 16 |-> IF r = 0 THEN 0 ELSE totrot[r]]
           Recursion(g) == g = [r \in 0 .. 16 |-> IF r = 0 THEN 0 ELSE g[r - 1] + Standard!LeftShifts[r]]
<1>1. Recursion(f)
  <2>1. \A r \in 1 .. 16 : totrot[r] = (IF r = 1 THEN 0 ELSE totrot[r - 1]) + Standard!LeftShifts[r]
    BY DEF totrot, Standard!LeftShifts
  <2>2. \A r \in 0 .. 16 : f[r] = IF r = 0 THEN 0 ELSE f[r - 1] + Standard!LeftShifts[r]
    <3>1. \A r \in 1 .. 16 : r - 1 \in 0 .. 16 /\ f[r - 1] = IF r = 1 THEN 0 ELSE totrot[r - 1]
      OBVIOUS
    <3> QED BY <2>1, <3>1
  <2> QED BY <2>2
<1>2. Recursion(Standard!Shifted)
  <2> HIDE DEF f
  <2> QED BY <1>1, Zenon DEF Standard!Shifted
<1>3. PICK g : Recursion(g) /\ g = Standard!Shifted
  BY <1>2
<1>4. g[0] = 0 /\ \A r \in 1 .. 16 : g[r] = g[r - 1] + Standard!LeftShifts[r]
  <2>1. \A r \in 0 .. 16 : g[r] = IF r = 0 THEN 0 ELSE g[r - 1] + Standard!LeftShifts[r]
    BY <1>3
  <2> QED BY <2>1
<1>5. /\ g[1] = 1 /\ g[2] = 2 /\ g[3] = 4 /\ g[4] = 6 /\ g[5] = 8 /\ g[6] = 10
  BY <1>4 DEF Standard!LeftShifts
<1>6. /\ g[7] = 12 /\ g[8] = 14 /\ g[9] = 15 /\ g[10] = 17 /\ g[11] = 19
  BY <1>4, <1>5 DEF Standard!LeftShifts
<1>7. /\ g[12] = 21 /\ g[13] = 23 /\ g[14] = 25 /\ g[15] = 27 /\ g[16] = 28
  BY <1>4, <1>6 DEF Standard!LeftShifts
<1>8. \A r \in 1 .. 16 : g[r] = totrot[r]
  BY <1>5, <1>6, <1>7 DEF totrot
<1> QED BY <1>3, <1>8

\* The tables are the standard's, counted from 0.
LEMMA TablesFromOne ==
    /\ \A j \in 1 .. 56 : Standard!PC1[j] = pc1[j] + 1
    /\ \A j \in 1 .. 48 : Standard!PC2[j] = pc2[j] + 1
BY DEF Standard!PC1, pc1, Standard!PC2, pc2

\* A bit that pc1 picks.
LEMMA Pc1Bit ==
    ASSUME NEW key \in Key, NEW m \in 0 .. 55
    PROVE  KeyBits(key)[Standard!PC1[m + 1]] = BitOf(pc1m(key)[m])
<1>1. m + 1 \in 1 .. 56
  OBVIOUS
<1>2. PICK l \in 0 .. 63 : l = pc1[m + 1] /\ Standard!PC1[m + 1] = l + 1
  BY <1>1, Pc1Picks, TablesFromOne
<1>3. KeyBits(key)[l + 1] = BitOf(l % 8 \in key[(l \div 8) + 1])
  <2>1. l + 1 \in 1 .. 64 /\ (l + 1) - 1 = l
    OBVIOUS
  <2>2. KeyBits(key)[l + 1] =
            IF ((l + 1) - 1) % 8 \in key[(((l + 1) - 1) \div 8) + 1] THEN 1 ELSE 0
    BY <2>1, Zenon DEF KeyBits
  <2> QED BY <2>1, <2>2 DEF BitOf
<1>4. bytebit[l % 8] = l % 8
  BY DEF bytebit
<1>5. pc1m(key)[m] = (bytebit[pc1[m + 1] % 8] \in key[(pc1[m + 1] \div 8) + 1])
  BY Zenon DEF pc1m
<1> QED BY <1>2, <1>3, <1>4, <1>5

\* A sequence of n bits.
Numbered(bits, n) == bits = [i \in 1 .. n |-> bits[i]]

\* Two of them behind each other.
Joined(a, b, n) == \A i \in 1 .. n : (a \o b)[i] = a[i] /\ (a \o b)[i + n] = b[i]

\* Each has its bits at its places.
LEMMA JoinedBits ==
    ASSUME NEW n \in Nat, NEW a, Numbered(a, n), NEW b, Numbered(b, n)
    PROVE  Joined(a, b, n)
<1> DEFINE V == {a[i] : i \in 1 .. n} \cup {b[i] : i \in 1 .. n}
<1>1. a \in [1 .. n -> V] /\ b \in [1 .. n -> V]
  <2>1. \A i \in 1 .. n : a[i] \in V /\ b[i] \in V
    OBVIOUS
  <2> HIDE DEF V
  <2> QED BY <2>1, Zenon DEF Numbered
<1> HIDE DEF V
<1>2. a \in Seq(V) /\ b \in Seq(V) /\ Len(a) = n /\ Len(b) = n
  <2>1. a \in Seq(V) /\ b \in Seq(V)
    BY <1>1, SeqDef
  <2> QED BY <1>1, <2>1, LenProperties
<1>3. \A i \in 1 .. n + n : (a \o b)[i] = IF i <= n THEN a[i] ELSE b[i - n]
  BY <1>2, ConcatProperties
<1>4. \A i \in 1 .. n : /\ i \in 1 .. n + n /\ i <= n
                        /\ i + n \in 1 .. n + n /\ ~(i + n <= n) /\ (i + n) - n = i
  OBVIOUS
<1>5. \A i \in 1 .. n : (a \o b)[i] = a[i]
  BY <1>3, <1>4
<1>6. \A i \in 1 .. n : (a \o b)[i + n] = b[i]
  <2> SUFFICES ASSUME NEW i \in 1 .. n PROVE (a \o b)[i + n] = b[i]
    OBVIOUS
  <2>1. (a \o b)[i + n] = b[(i + n) - n]
    BY <1>3, <1>4
  <2> QED BY <1>4, <2>1
<1> QED BY <1>5, <1>6, Zenon DEF Joined

\* A bit of a rotated half of a key, and of the standard's.
LEMMA RotatedBit ==
    ASSUME NEW key \in Key, NEW r \in 0 .. 15, NEW j \in 1 .. 48
    PROVE  Standard!KeyOfRound(KeyBits(key), r + 1)[j] = BitOf(pcr(key, r)[pc2[j]])
<1>1. PICK c \in 0 .. 55 : c = pc2[j] /\ Standard!PC2[j] = c + 1
  BY Pc2Picks, TablesFromOne
<1>2. PICK s \in 1 .. 28 : s = totrot[r + 1] /\ Standard!Shifted[r + 1] = s
  <2>1. r + 1 \in 1 .. 16
    OBVIOUS
  <2> QED BY <2>1, Rotations, ShiftedIsTotrot
<1> DEFINE K == KeyBits(key)
           cd == Standard!Permute(K, Standard!PC1)
           lefts == Standard!RotateLeft(Standard!LeftHalf(cd, 28), s)
           rights == Standard!RotateLeft(Standard!RightHalf(cd, 28), s)
           m == IF c + s < (IF c < 28 THEN 28 ELSE 56) THEN c + s ELSE c + s - 28
<1>3. m \in 0 .. 55 /\ pcr(key, r)[c] = pc1m(key)[m]
  <2>1. PICK l \in 1 .. 83 : l = c + totrot[r + 1] /\ l = c + s
    BY <1>2
  <2>2. pcr(key, r)[c] = pc1m(key)[IF l < (IF c < 28 THEN 28 ELSE 56) THEN l ELSE l - 28]
    BY <2>1, Zenon DEF pcr
  <2> QED BY <2>1, <2>2
<1>4. Standard!KeyOfRound(K, r + 1)[j] = (lefts \o rights)[c + 1]
  <2>1. Standard!KeyOfRound(K, r + 1) = Standard!Permute(lefts \o rights, Standard!PC2)
    BY <1>2, Zenon DEF Standard!KeyOfRound
  <2>2. j \in DOMAIN Standard!PC2
    BY DEF Standard!PC2
  <2> QED BY <1>1, <2>1, <2>2, Zenon DEF Standard!Permute
<1>5. DOMAIN Standard!PC1 = 1 .. 56
  BY DEF Standard!PC1
<1>6. \A n \in 1 .. 56 : cd[n] = K[Standard!PC1[n]]
  BY <1>5, Zenon DEF Standard!Permute
<1>7. /\ lefts = [n \in 1 .. 28 |-> Standard!LeftHalf(cd, 28)[((n - 1 + s) % 28) + 1]]
      /\ rights = [n \in 1 .. 28 |-> Standard!RightHalf(cd, 28)[((n - 1 + s) % 28) + 1]]
  BY Zenon DEF Standard!RotateLeft
<1>8. /\ \A n \in 1 .. 28 : Standard!LeftHalf(cd, 28)[n] = cd[n]
      /\ \A n \in 1 .. 28 : Standard!RightHalf(cd, 28)[n] = cd[n + 28]
  BY Zenon DEF Standard!LeftHalf, Standard!RightHalf
<1> HIDE DEF lefts, rights, cd, m, K
<1>9. Joined(lefts, rights, 28)
  <2>1. Numbered(lefts, 28) /\ Numbered(rights, 28)
    <3>1. \A half : Numbered(Standard!RotateLeft(half, s), 28)
      BY Zenon DEF Standard!RotateLeft, Numbered
    <3> QED BY <3>1, Zenon DEF lefts, rights
  <2>2. 28 \in Nat
    OBVIOUS
  <2> QED BY <2>1, <2>2, JoinedBits, Zenon
<1>10. (lefts \o rights)[c + 1] = cd[m + 1]
  <2>1. CASE c < 28
    <3>1. c + 1 \in 1 .. 28 /\ (c + 1) - 1 + s = c + s /\ (c + s) % 28 = m
      BY <2>1 DEF m
    <3>2. lefts[c + 1] = Standard!LeftHalf(cd, 28)[m + 1] /\ m + 1 \in 1 .. 28
      BY <1>7, <3>1
    <3> QED BY <1>8, <1>9, <2>1, <3>1, <3>2 DEF Joined
  <2>2. CASE c >= 28
    <3>1. c - 27 \in 1 .. 28 /\ (c - 27) - 1 + s = c - 28 + s /\ (c - 28 + s) % 28 = m - 28
      BY <2>2 DEF m
    <3>2. rights[c - 27] = Standard!RightHalf(cd, 28)[(m - 28) + 1] /\ (m - 28) + 1 \in 1 .. 28
      BY <1>7, <3>1
    <3>3. ((m - 28) + 1) + 28 = m + 1 /\ (c - 27) + 28 = c + 1
      BY <1>3
    <3> QED BY <1>8, <1>9, <2>2, <3>1, <3>2, <3>3 DEF Joined
  <2>3. c < 28 \/ c >= 28
    OBVIOUS
  <2> QED BY <2>1, <2>2, <2>3, Zenon
<1>11. cd[m + 1] = K[Standard!PC1[m + 1]]
  <2>1. m + 1 \in 1 .. 56
    BY <1>3
  <2> QED BY <1>6, <2>1
<1>12. K[Standard!PC1[m + 1]] = BitOf(pc1m(key)[m])
  BY <1>3, Pc1Bit DEF K
<1> QED BY <1>1, <1>3, <1>4, <1>10, <1>11, <1>12 DEF K

\* A bit that was shifted left by n.
LEMMA ShiftedLeft ==
    ASSUME NEW a \in SUBSET (0 .. 23), NEW n \in 0 .. 31, NEW q \in 0 .. 31
    PROVE  q \in Shl(a, n) <=> q - n \in a
<1>1. Shl(a, n) = {i + n : i \in a} \cap (0 .. LongBits - 1)
  BY Zenon DEF Shl
<1>2. q \in 0 .. LongBits - 1
  BY DesAssumption
<1>3. q \in Shl(a, n) <=> \E i \in a : q = i + n
  BY <1>1, <1>2
<1> QED BY <1>3

\* A bit that was shifted right by n.
LEMMA ShiftedRight ==
    ASSUME NEW a \in SUBSET (0 .. 23), NEW n \in 0 .. 31, NEW q \in 0 .. 31
    PROVE  q \in Shr(a, n) <=> q + n \in a
<1>1. Shr(a, n) = {i - n : i \in {j \in a : j >= n}}
  BY Zenon DEF Shr
<1>2. q \in Shr(a, n) <=> \E j \in a : j >= n /\ q = j - n
  BY <1>1
<1> QED BY <1>2

\* Where cookey puts the bits of the groups for the eight boxes.
LEMMA CookedBits ==
    ASSUME NEW raw, \A k \in 0 .. 31 : raw[k] \subseteq 0 .. 23,
           NEW r \in 0 .. 15, NEW k \in 1 .. 8, NEW p \in 1 .. 6
    PROVE  (30 - 8 * ((k - 1) \div 2)) - p \in cookey(raw)[2 * r + ((k + 1) % 2)]
               <=> 24 - (6 * ((k - 1) % 4) + p) \in raw[2 * r + ((k - 1) \div 4)]
<1>1. PICK a \in SUBSET (0 .. 23), b \in SUBSET (0 .. 23) : a = raw[2 * r] /\ b = raw[2 * r + 1]
  <2>1. 2 * r \in 0 .. 31 /\ 2 * r + 1 \in 0 .. 31
    OBVIOUS
  <2> QED BY <2>1
<1>2. PICK e \in 0 .. 31, o \in 0 .. 31 :
          /\ e = 2 * r /\ 2 * (e \div 2) = 2 * r /\ 2 * (e \div 2) + 1 = 2 * r + 1 /\ e % 2 = 0
          /\ o = 2 * r + 1 /\ 2 * (o \div 2) = 2 * r /\ 2 * (o \div 2) + 1 = 2 * r + 1 /\ o % 2 # 0
  OBVIOUS
<1>3. cookey(raw)[e] = UNION {Shl(a \cap Mask(18, 23), 6), Shl(a \cap Mask(6, 11), 10),
                              Shr(b \cap Mask(18, 23), 10), Shr(b \cap Mask(6, 11), 6)}
  BY <1>1, <1>2 DEF cookey
<1>4. cookey(raw)[o] = UNION {Shl(a \cap Mask(12, 17), 12), Shl(a \cap Mask(0, 5), 16),
                              Shr(b \cap Mask(12, 17), 4), b \cap Mask(0, 5)}
  BY <1>1, <1>2 DEF cookey
<1>5. \A f, t : a \cap Mask(f, t) \in SUBSET (0 .. 23) /\ b \cap Mask(f, t) \in SUBSET (0 .. 23)
  OBVIOUS
<1>6. ASSUME NEW q \in 0 .. 31
      PROVE  q \in cookey(raw)[e] <=>
                 \/ q - 6 \in a /\ q - 6 \in 18 .. 23
                 \/ q - 10 \in a /\ q - 10 \in 6 .. 11
                 \/ q + 10 \in b /\ q + 10 \in 18 .. 23
                 \/ q + 6 \in b /\ q + 6 \in 6 .. 11
  <2>1. /\ q \in Shl(a \cap Mask(18, 23), 6) <=> q - 6 \in a \cap Mask(18, 23)
        /\ q \in Shl(a \cap Mask(6, 11), 10) <=> q - 10 \in a \cap Mask(6, 11)
        /\ q \in Shr(b \cap Mask(18, 23), 10) <=> q + 10 \in b \cap Mask(18, 23)
        /\ q \in Shr(b \cap Mask(6, 11), 6) <=> q + 6 \in b \cap Mask(6, 11)
    BY <1>5, ShiftedLeft, ShiftedRight
  <2> QED BY <1>3, <2>1 DEF Mask
<1>7. ASSUME NEW q \in 0 .. 31
      PROVE  q \in cookey(raw)[o] <=>
                 \/ q - 12 \in a /\ q - 12 \in 12 .. 17
                 \/ q - 16 \in a /\ q - 16 \in 0 .. 5
                 \/ q + 4 \in b /\ q + 4 \in 12 .. 17
                 \/ q \in b /\ q \in 0 .. 5
  <2>1. /\ q \in Shl(a \cap Mask(12, 17), 12) <=> q - 12 \in a \cap Mask(12, 17)
        /\ q \in Shl(a \cap Mask(0, 5), 16) <=> q - 16 \in a \cap Mask(0, 5)
        /\ q \in Shr(b \cap Mask(12, 17), 4) <=> q + 4 \in b \cap Mask(12, 17)
    BY <1>5, ShiftedLeft, ShiftedRight
  <2> QED BY <1>4, <2>1 DEF Mask
<1> DEFINE q == (30 - 8 * ((k - 1) \div 2)) - p
<1>8. q \in 0 .. 31
  OBVIOUS
<1>9. CASE k = 1
  BY <1>1, <1>2, <1>6, <1>8, <1>9
<1>10. CASE k = 2
  BY <1>1, <1>2, <1>7, <1>8, <1>10
<1>11. CASE k = 3
  BY <1>1, <1>2, <1>6, <1>8, <1>11
<1>12. CASE k = 4
  BY <1>1, <1>2, <1>7, <1>8, <1>12
<1>13. CASE k = 5
  BY <1>1, <1>2, <1>6, <1>8, <1>13
<1>14. CASE k = 6
  BY <1>1, <1>2, <1>7, <1>8, <1>14
<1>15. CASE k = 7
  BY <1>1, <1>2, <1>6, <1>8, <1>15
<1>16. CASE k = 8
  BY <1>1, <1>2, <1>7, <1>8, <1>16
<1> QED BY <1>9, <1>10, <1>11, <1>12, <1>13, <1>14, <1>15, <1>16

\* A bit of a word before cookey.
LEMMA RawBit ==
    ASSUME NEW key, NEW r \in 0 .. 15, NEW h \in 0 .. 1, NEW n \in 0 .. 23
    PROVE  23 - n \in Raw(key, EN0)[2 * r + h] <=> pcr(key, r)[pc2[n + 1 + 24 * h]]
<1> DEFINE bits == [i \in 0 .. 15 |-> pcr(key, Slot(i, EN0))]
<1>1. PICK k \in 0 .. 31 : k = 2 * r + h /\ k \div 2 = r /\ k % 2 = h
  OBVIOUS
<1>2. Raw(key, EN0)[k] = {bigbyte[j] : j \in {m \in 0 .. 23 : bits[k \div 2][pc2[m + 1 + 24 * (k % 2)]]}}
  BY Zenon DEF Raw
<1>3. bits[r] = pcr(key, r)
  BY DEF Slot, EN0, DE1
<1> HIDE DEF bits
<1>4. \A m \in 0 .. 23 : bigbyte[m] = 23 - m
  BY DEF bigbyte
<1>5. Raw(key, EN0)[k] = {bigbyte[j] : j \in {m \in 0 .. 23 : pcr(key, r)[pc2[m + 1 + 24 * h]]}}
  BY <1>1, <1>2, <1>3, Zenon
<1>6. 23 - n \in Raw(key, EN0)[k] <=> \E m \in 0 .. 23 : pcr(key, r)[pc2[m + 1 + 24 * h]] /\ 23 - n = bigbyte[m]
  BY <1>5, Zenon
<1>7. \A m \in 0 .. 23 : 23 - n = bigbyte[m] <=> m = n
  BY <1>4
<1> QED BY <1>1, <1>6, <1>7, Zenon

\* The words of a round have the bits of the standard's key for it.
LEMMA KeyOfRoundIs ==
    ASSUME NEW key \in Key, NEW r \in 0 .. 15
    PROVE  KeyAt(Cooked(key, EN0)[2 * r], Cooked(key, EN0)[2 * r + 1],
                 Standard!KeyOfRound(KeyBits(key), r + 1))
<1> DEFINE raw == Raw(key, EN0)
           key0 == Cooked(key, EN0)[2 * r]
           key1 == Cooked(key, EN0)[2 * r + 1]
           roundKey == Standard!KeyOfRound(KeyBits(key), r + 1)
<1> SUFFICES ASSUME NEW k \in 1 .. 8, NEW p \in 1 .. 6
             PROVE  roundKey[6 * (k - 1) + p] =
                        BitOf((30 - 8 * ((k - 1) \div 2)) - p \in (IF k % 2 = 1 THEN key0 ELSE key1))
  BY Zenon DEF KeyAt
<1> DEFINE j == 6 * (k - 1) + p
           h == (k - 1) \div 4
           n == 6 * ((k - 1) % 4) + p - 1
           q == (30 - 8 * ((k - 1) \div 2)) - p
<1>1. /\ j \in 1 .. 48 /\ h \in 0 .. 1 /\ n \in 0 .. 23 /\ n + 1 + 24 * h = j
      /\ 24 - (6 * ((k - 1) % 4) + p) = 23 - n
  OBVIOUS
<1>2. q \in cookey(raw)[2 * r + ((k + 1) % 2)] <=> 23 - n \in raw[2 * r + h]
  BY <1>1, RawWords, CookedBits
<1>3. cookey(raw)[2 * r + ((k + 1) % 2)] = IF k % 2 = 1 THEN key0 ELSE key1
  <2>1. CASE k % 2 = 1
    <3>1. 2 * r + ((k + 1) % 2) = 2 * r
      BY <2>1
    <3> QED BY <2>1, <3>1, Zenon DEF Cooked
  <2>2. CASE k % 2 # 1
    <3>1. 2 * r + ((k + 1) % 2) = 2 * r + 1
      BY <2>2
    <3> QED BY <2>2, <3>1, Zenon DEF Cooked
  <2> QED BY <2>1, <2>2
<1> HIDE DEF j, h, n, q, raw, key0, key1, roundKey
<1>4. 23 - n \in raw[2 * r + h] <=> pcr(key, r)[pc2[j]]
  BY <1>1, RawBit DEF raw
<1>5. roundKey[j] = BitOf(pcr(key, r)[pc2[j]])
  BY <1>1, RotatedBit DEF roundKey
<1>6. roundKey[j] = BitOf(q \in (IF k % 2 = 1 THEN key0 ELSE key1))
  BY <1>2, <1>3, <1>4, <1>5, Zenon DEF BitOf
<1> QED BY <1>6, Zenon DEF j, q

\* The number of the standard's key that half pass i uses.
KeyNumber(edf, i) == IF edf = EN0 THEN i + 1 ELSE 17 - (i + 1)

\* The schedule of either mode has the standard's keys in the order of its rounds.
LEMMA ScheduleIs ==
    ASSUME NEW key \in Key, NEW edf \in Modes, NEW i \in 0 .. 15
    PROVE  KeyAt(Cooked(key, edf)[2 * i], Cooked(key, edf)[2 * i + 1],
                 Standard!KeyOfRound(KeyBits(key), KeyNumber(edf, i)))
<1>1. CASE edf = EN0
  BY <1>1, KeyOfRoundIs DEF KeyNumber
<1>2. CASE edf = DE1
  <2>1. PICK r \in 0 .. 15 : r = 15 - i /\ 15 - r = i /\ r + 1 = 17 - (i + 1)
    OBVIOUS
  <2>2. Backwards(Cooked(key, DE1), Cooked(key, EN0))
    BY SchedulesReversed
  <2>3. /\ Cooked(key, DE1)[2 * i] = Cooked(key, EN0)[2 * r]
        /\ Cooked(key, DE1)[2 * i + 1] = Cooked(key, EN0)[2 * r + 1]
    BY <2>1, <2>2 DEF Backwards
  <2>4. KeyNumber(edf, i) = r + 1
    BY <1>2, <2>1 DEF KeyNumber, EN0, DE1
  <2>5. KeyAt(Cooked(key, EN0)[2 * r], Cooked(key, EN0)[2 * r + 1],
              Standard!KeyOfRound(KeyBits(key), r + 1))
    BY KeyOfRoundIs
  <2> QED BY <1>2, <2>3, <2>4, <2>5
<1> QED BY <1>1, <1>2 DEF Modes

-------------------------------------------------------------------------------
(* The initial permutation is the standard's: every swap exchanges a digit *)
(* of the number of a bit in a word with the number of the word.           *)

\* Bit q of word s of w, and the one whose number has these digits.
InWord(w, s, q) == q \in (IF s = 0 THEN w.l ELSE w.r)
FiveOf(a, b, c, d, e) == 16 * a + 8 * b + 4 * c + 2 * d + e
BitIn(w, s, a, b, c, d, e) == InWord(w, s, FiveOf(a, b, c, d, e))

\* What is bit q of word s behind a swap was in the word whose number is the digit g
\* of q, with s for that digit.
LEMMA SwapDigit ==
    ASSUME NEW w \in Words, NEW n \in {2, 4, 8, 16}, NEW q \in 0 .. 31, NEW s \in Bit, NEW g \in Bit,
           IF q % (2 * n) < n THEN g = 0 ELSE g = 1
    PROVE  InWord(Swap(w, n), s, q) <=> InWord(w, g, q + n * s - n * g)
<1>1. PICK v : v = Swap(w, n)
  OBVIOUS
<1>2. /\ \A i \in Int : i \in v.l <=> IF i - n \in Halves(n) THEN i - n \in w.r ELSE i \in w.l
      /\ \A i \in Int : i \in v.r <=> IF i \in Halves(n) THEN i + n \in w.l ELSE i \in w.r
  <2>1. Fits(Halves(n), n)
    BY MasksFit
  <2> QED BY <1>1, <2>1, SwapBits, WordsAny DEF Swap
<1>3. /\ q \in Halves(n) <=> g = 0
      /\ q - n \in Halves(n) <=> g = 1
  <2>1. CASE n = 2
    BY <2>1 DEF Halves, Bit
  <2>2. CASE n = 4
    BY <2>2 DEF Halves, Bit
  <2>3. CASE n = 8
    BY <2>3 DEF Halves, Bit
  <2>4. CASE n = 16
    BY <2>4 DEF Halves, Bit
  <2> QED BY <2>1, <2>2, <2>3, <2>4
<1>4. CASE s = 0 /\ g = 0
  BY <1>1, <1>2, <1>3, <1>4 DEF InWord
<1>5. CASE s = 0 /\ g = 1
  BY <1>1, <1>2, <1>3, <1>5 DEF InWord
<1>6. CASE s = 1 /\ g = 0
  BY <1>1, <1>2, <1>3, <1>6 DEF InWord
<1>7. CASE s = 1 /\ g = 1
  BY <1>1, <1>2, <1>3, <1>7 DEF InWord
<1> QED BY <1>4, <1>5, <1>6, <1>7 DEF Bit

\* Which digit it is.
LEMMA SwapDigits ==
    ASSUME NEW w \in Words, NEW s \in Bit,
           NEW a \in Bit, NEW b \in Bit, NEW c \in Bit, NEW d \in Bit, NEW e \in Bit
    PROVE  /\ BitIn(Swap(w, 16), s, a, b, c, d, e) <=> BitIn(w, a, s, b, c, d, e)
           /\ BitIn(Swap(w, 8), s, a, b, c, d, e) <=> BitIn(w, b, a, s, c, d, e)
           /\ BitIn(Swap(w, 4), s, a, b, c, d, e) <=> BitIn(w, c, a, b, s, d, e)
           /\ BitIn(Swap(w, 2), s, a, b, c, d, e) <=> BitIn(w, d, a, b, c, s, e)
           /\ BitIn(Turned(w), s, a, b, c, d, e) <=> BitIn(w, 1 - s, a, b, c, d, e)
<1> DEFINE q == FiveOf(a, b, c, d, e)
<1>1. q \in 0 .. 31
  BY DEF FiveOf, Bit
<1>2. /\ IF q % (2 * 16) < 16 THEN a = 0 ELSE a = 1
      /\ IF q % (2 * 8) < 8 THEN b = 0 ELSE b = 1
      /\ IF q % (2 * 4) < 4 THEN c = 0 ELSE c = 1
      /\ IF q % (2 * 2) < 2 THEN d = 0 ELSE d = 1
  BY DEF FiveOf, Bit
<1>3. /\ q + 16 * s - 16 * a = FiveOf(s, b, c, d, e)
      /\ q + 8 * s - 8 * b = FiveOf(a, s, c, d, e)
      /\ q + 4 * s - 4 * c = FiveOf(a, b, s, d, e)
      /\ q + 2 * s - 2 * d = FiveOf(a, b, c, s, e)
  BY DEF FiveOf, Bit
<1> HIDE DEF q
<1>4. /\ InWord(Swap(w, 16), s, q) <=> InWord(w, a, q + 16 * s - 16 * a)
      /\ InWord(Swap(w, 8), s, q) <=> InWord(w, b, q + 8 * s - 8 * b)
      /\ InWord(Swap(w, 4), s, q) <=> InWord(w, c, q + 4 * s - 4 * c)
      /\ InWord(Swap(w, 2), s, q) <=> InWord(w, d, q + 2 * s - 2 * d)
  BY <1>1, <1>2, SwapDigit
<1>5. InWord(Turned(w), s, q) <=> InWord(w, 1 - s, q)
  BY DEF InWord, Turned, Bit
<1> QED BY <1>3, <1>4, <1>5, Zenon DEF BitIn, q

\* The swap of the odd bits, between two rotations, does it for the last digit.
LEMMA SwapLastDigit ==
    ASSUME NEW w \in Words, NEW s \in Bit,
           NEW a \in Bit, NEW b \in Bit, NEW c \in Bit, NEW d \in Bit, NEW e \in Bit
    PROVE  InWord(UpL(Swap(UpR(w), 0)), s, (FiveOf(a, b, c, d, e) + 1) % 32) <=> BitIn(w, e, a, b, c, d, s)
<1>1. PICK u \in Words : u = UpR(w)
  BY RotationLaws
<1>2. PICK v \in Words : v = Swap(u, 0)
  BY SwapLaws DEF Widths
<1>3. PICK z \in Words : z = UpL(v)
  BY RotationLaws
<1>4. /\ w.l \in Word /\ w.r \in Word /\ u.l \in Word /\ u.r \in Word /\ v.l \in Word /\ v.r \in Word
  BY DEF Words
<1>5. /\ u.l = w.l
      /\ \A i \in 0 .. 31 : i \in u.r <=> IF i = 0 THEN 31 \in w.r ELSE i - 1 \in w.r
  BY <1>1, <1>4, RotateUpBits DEF UpR
<1>6. /\ z.r = v.r
      /\ \A i \in 0 .. 31 : i \in z.l <=> IF i = 0 THEN 31 \in v.l ELSE i - 1 \in v.l
  BY <1>3, <1>4, RotateUpBits DEF UpL
<1>7. \A i \in 0 .. 31 : /\ i \in v.l <=> IF i % 2 = 1 THEN i \in u.r ELSE i \in u.l
                         /\ i \in v.r <=> IF i % 2 = 1 THEN i \in u.l ELSE i \in u.r
  <2>1. /\ \A i \in Int : i \in v.l <=> IF i - 0 \in OddBits THEN i - 0 \in u.r ELSE i \in u.l
        /\ \A i \in Int : i \in v.r <=> IF i \in OddBits THEN i + 0 \in u.l ELSE i \in u.r
    BY <1>2, SwapBits, MasksFit, WordsAny DEF Swap
  <2>2. \A i \in 0 .. 31 : i - 0 = i /\ i + 0 = i /\ (i \in OddBits <=> i % 2 = 1)
    BY DEF OddBits
  <2> QED BY <2>1, <2>2
<1>8. PICK q \in 0 .. 31, i \in 0 .. 31 :
          q = FiveOf(a, b, c, d, e) /\ i = (q + 1) % 32 /\ q % 2 = e
  BY DEF FiveOf, Bit
<1>9. FiveOf(a, b, c, d, s) = q + s - e
  BY <1>8 DEF FiveOf, Bit
<1>10. InWord(z, s, i) <=> InWord(w, e, q + s - e)
  <2>1. i = (IF q = 31 THEN 0 ELSE q + 1) /\ q % 2 = e /\ (q = 31 => e = 1)
    <3>1. i = (IF q = 31 THEN 0 ELSE q + 1)
      BY <1>8
    <3>2. q = 31 => q % 2 = 1
      OBVIOUS
    <3> QED BY <1>8, <3>1, <3>2, Zenon
  <2>2. CASE s = 0 /\ e = 0
    <3>1. i # 0 /\ i - 1 = q /\ q + s - e = q /\ q % 2 # 1
      BY <2>1, <2>2
    <3> QED BY <1>5, <1>6, <1>7, <2>2, <3>1 DEF InWord
  <2>3. CASE s = 0 /\ e = 1
    <3>1. q # 0 /\ (IF i = 0 THEN 31 ELSE i - 1) = q /\ q + s - e = q - 1 /\ q % 2 = 1
      BY <1>8, <2>1, <2>3
    <3>2. i \in z.l <=> q \in v.l
      BY <1>6, <3>1
    <3> QED BY <1>5, <1>7, <2>3, <3>1, <3>2 DEF InWord
  <2>4. CASE s = 1 /\ e = 0
    <3>1. i # 0 /\ i = q + 1 /\ q + s - e = i /\ i % 2 = 1
      BY <1>8, <2>1, <2>4
    <3> QED BY <1>5, <1>6, <1>7, <2>4, <3>1 DEF InWord
  <2>5. CASE s = 1 /\ e = 1
    <3>1. (IF i = 0 THEN 31 ELSE i - 1) = q /\ q + s - e = q /\ i % 2 # 1
      BY <1>8, <2>1, <2>5
    <3>2. i \in u.r <=> q \in w.r
      BY <1>5, <3>1
    <3> QED BY <1>6, <1>7, <2>5, <3>1, <3>2 DEF InWord
  <2> QED BY <2>2, <2>3, <2>4, <2>5 DEF Bit
<1> QED BY <1>1, <1>2, <1>3, <1>8, <1>9, <1>10, Zenon DEF BitIn

\* Where the bits that Initial leaves have been, read from the standard's first bit on.
LEMMA InitialDigits ==
    ASSUME NEW w \in Words, NEW s \in Bit,
           NEW a \in Bit, NEW b \in Bit, NEW c \in Bit, NEW d \in Bit, NEW e \in Bit
    PROVE  InWord(Initial(w), s, (FiveOf(a, b, c, d, e) + 1) % 32) <=> BitIn(w, c, 1 - d, 1 - e, a, b, s)
<1> DEFINE x1 == Swap(w, 4)
           x2 == Swap(x1, 16)
           x3 == Turned(x2)
           x4 == Swap(x3, 2)
           x5 == Swap(x4, 8)
           x6 == Turned(x5)
<1>1. Initial(w) = UpL(Swap(UpR(x6), 0))
  BY Zenon DEF Initial
<1>2. x1 \in Words
  BY SwapLaws DEF Widths
<1> HIDE DEF x1
<1>3. x2 \in Words
  BY <1>2, SwapLaws DEF Widths
<1> HIDE DEF x2
<1>4. x3 \in Words
  BY <1>3, TurnLaws
<1> HIDE DEF x3
<1>5. x4 \in Words
  BY <1>4, SwapLaws DEF Widths
<1> HIDE DEF x4
<1>6. x5 \in Words
  BY <1>5, SwapLaws DEF Widths
<1> HIDE DEF x5
<1>7. x6 \in Words
  BY <1>6, TurnLaws
<1> HIDE DEF x6
<1>8. 1 - d \in Bit /\ 1 - e \in Bit
  BY DEF Bit
<1>9. InWord(Initial(w), s, (FiveOf(a, b, c, d, e) + 1) % 32) <=> BitIn(x6, e, a, b, c, d, s)
  BY <1>1, <1>7, SwapLastDigit
<1>10. BitIn(x6, e, a, b, c, d, s) <=> BitIn(x5, 1 - e, a, b, c, d, s)
  BY <1>6, SwapDigits, Zenon DEF x6
<1>11. BitIn(x5, 1 - e, a, b, c, d, s) <=> BitIn(x4, b, a, 1 - e, c, d, s)
  BY <1>5, <1>8, SwapDigits, Zenon DEF x5
<1>12. BitIn(x4, b, a, 1 - e, c, d, s) <=> BitIn(x3, d, a, 1 - e, c, b, s)
  BY <1>4, <1>8, SwapDigits, Zenon DEF x4
<1>13. BitIn(x3, d, a, 1 - e, c, b, s) <=> BitIn(x2, 1 - d, a, 1 - e, c, b, s)
  BY <1>3, <1>8, SwapDigits, Zenon DEF x3
<1>14. BitIn(x2, 1 - d, a, 1 - e, c, b, s) <=> BitIn(x1, a, 1 - d, 1 - e, c, b, s)
  BY <1>2, <1>8, SwapDigits, Zenon DEF x2
<1>15. BitIn(x1, a, 1 - d, 1 - e, c, b, s) <=> BitIn(w, c, 1 - d, 1 - e, a, b, s)
  BY <1>8, SwapDigits, Zenon DEF x1
<1> QED BY <1>9, <1>10, <1>11, <1>12, <1>13, <1>14, <1>15

\* A bit of a block in the words of scrunch().
LEMMA ScrunchDigits ==
    ASSUME NEW block \in [1 .. 8 -> Byte], NEW s \in Bit,
           NEW a \in Bit, NEW b \in Bit, NEW c \in Bit, NEW d \in Bit, NEW e \in Bit
    PROVE  BitIn(scrunch(block), s, a, b, c, d, e)
               <=> 4 * c + 2 * d + e \in block[(4 * s + 4) - (2 * a + b)]
<1>1. PICK i \in 0 .. 31 : i = FiveOf(a, b, c, d, e) /\ i % 8 = 4 * c + 2 * d + e /\ i \div 8 = 2 * a + b
  BY DEF FiveOf, Bit
<1>2. (4 * s + 4) - (2 * a + b) = IF s = 0 THEN 4 - (i \div 8) ELSE 8 - (i \div 8)
  BY <1>1 DEF Bit
<1>3. /\ i \in scrunch(block).l <=> i % 8 \in block[4 - (i \div 8)]
      /\ i \in scrunch(block).r <=> i % 8 \in block[8 - (i \div 8)]
  BY ScrunchBits
<1>4. InWord(scrunch(block), s, i) <=> i % 8 \in block[(4 * s + 4) - (2 * a + b)]
  BY <1>2, <1>3, Zenon DEF InWord
<1> QED BY <1>1, <1>4, Zenon DEF BitIn

\* What the standard's initial permutation puts at m, in digits.
FromIP(m, s, a, b, c, d, e) ==
    m \in 1 .. 64 /\ Standard!IP[m] = 8 * (4 * c + 2 * d + e) + (7 - (4 * a + 2 * b + s)) + 1

\* Bit m of the permuted block is that bit of the block.
LEMMA PlaceOfIP ==
    ASSUME NEW s \in Bit, NEW a \in Bit, NEW b \in Bit, NEW c \in Bit, NEW d \in Bit, NEW e \in Bit,
           NEW m, m = (32 - FiveOf(a, b, c, d, e)) + 32 * s
    PROVE  FromIP(m, s, a, b, c, d, e)
<1> DEFINE row == (m - 1) \div 8
           col == (m - 1) % 8
<1>1. m \in 1 .. 64
  BY DEF FiveOf, Bit
<1>2. row = 4 * s + (3 - (2 * a + b)) /\ col = 7 - (4 * c + 2 * d + e)
  BY DEF FiveOf, Bit
<1>3. Standard!IP[m] = 58 - 8 * col + 2 * (row % 4) - (IF row > 3 THEN 1 ELSE 0)
  BY <1>1, Zenon DEF Standard!IP
<1> HIDE DEF row, col
<1>4. row % 4 = 3 - (2 * a + b) /\ (row > 3 <=> s = 1)
  BY <1>2 DEF Bit
<1>5. Standard!IP[m] = 8 * (4 * c + 2 * d + e) + (7 - (4 * a + 2 * b + s)) + 1
  BY <1>2, <1>3, <1>4 DEF Bit
<1> QED BY <1>1, <1>5, Zenon DEF FromIP

\* The two words have the bits of the two halves of a block of the standard.
HoldsBoth(w, bits) == \A s \in Bit, n \in 1 .. 32 : bits[n + 32 * s] = BitOf(InWord(w, s, At(n)))

\* So it is behind the initial permutation.
LEMMA InitialIsIP ==
    ASSUME NEW block \in [1 .. 8 -> Byte]
    PROVE  HoldsBoth(Initial(scrunch(block)), Standard!Permute(Bits(block), Standard!IP))
<1> DEFINE w == scrunch(block)
           B == Standard!Permute(Bits(block), Standard!IP)
<1> SUFFICES ASSUME NEW s \in Bit, NEW n \in 1 .. 32
             PROVE  B[n + 32 * s] = BitOf(InWord(Initial(w), s, At(n)))
  BY Zenon DEF HoldsBoth
<1>1. PICK a \in Bit, b \in Bit, c \in Bit, d \in Bit, e \in Bit :
          n = 32 - FiveOf(a, b, c, d, e)
  <2>1. 32 - n \in 0 .. 31
    OBVIOUS
  <2>2. PICK a \in Bit, b \in Bit, c \in Bit, d \in Bit, e \in Bit :
            32 - n = 16 * a + 8 * b + 4 * c + 2 * d + e
    BY <2>1, FiveBits
  <2> QED BY <2>2 DEF Bit, FiveOf
<1>2. At(n) = (FiveOf(a, b, c, d, e) + 1) % 32
  BY <1>1 DEF At, FiveOf, Bit
<1>3. PICK x \in 0 .. 7, y \in 0 .. 7 : x = 4 * a + 2 * b + s /\ y = 4 * c + 2 * d + e
  BY DEF Bit
<1>4. InWord(Initial(w), s, At(n)) <=> x \in block[y + 1]
  <2>1. w \in Words
    BY ScrunchBits
  <2>2. 1 - d \in Bit /\ 1 - e \in Bit
    BY DEF Bit
  <2>3. InWord(Initial(w), s, At(n)) <=> BitIn(w, c, 1 - d, 1 - e, a, b, s)
    BY <1>2, <2>1, InitialDigits
  <2>4. BitIn(w, c, 1 - d, 1 - e, a, b, s) <=> x \in block[(4 * c + 4) - (2 * (1 - d) + (1 - e))]
    BY <1>3, <2>2, ScrunchDigits
  <2>5. (4 * c + 4) - (2 * (1 - d) + (1 - e)) = y + 1
    BY <1>3 DEF Bit
  <2> QED BY <2>3, <2>4, <2>5
<1>5. PICK m \in 1 .. 64 : m = n + 32 * s /\ Standard!IP[m] = (8 * y + (7 - x)) + 1
  <2>1. PICK m : m = n + 32 * s
    OBVIOUS
  <2>2. m = (32 - FiveOf(a, b, c, d, e)) + 32 * s
    BY <1>1, <2>1
  <2>3. FromIP(m, s, a, b, c, d, e)
    BY <2>2, PlaceOfIP, Zenon
  <2> QED BY <1>3, <2>1, <2>3 DEF FromIP
<1>6. B[m] = Bits(block)[Standard!IP[m]]
  <2>1. DOMAIN Standard!IP = 1 .. 64
    BY Zenon DEF Standard!IP
  <2> QED BY <2>1, Zenon DEF Standard!Permute
<1>7. PICK j \in 1 .. 64 : j = Standard!IP[m] /\ 7 - ((j - 1) % 8) = x /\ (j - 1) \div 8 = y
  BY <1>5
<1>8. Bits(block)[j] = BitOf(x \in block[y + 1])
  <2>1. Bits(block)[j] = IF 7 - ((j - 1) % 8) \in block[((j - 1) \div 8) + 1] THEN 1 ELSE 0
    BY Zenon DEF Bits
  <2> QED BY <1>7, <2>1, Zenon DEF BitOf
<1> QED BY <1>4, <1>5, <1>6, <1>7, <1>8, Zenon DEF BitOf

-------------------------------------------------------------------------------
(* The rounds are the standard's.                                          *)

\* The standard's array of the first n rounds.
IsStandardRounds(f, n, mode, key, block) ==
    f = [r \in 0 .. n |->
            IF r = 0
            THEN Standard!Permute(block, Standard!IP)
            ELSE Standard!Round(f[r - 1], Standard!KeyOfRound(key, IF mode = Standard!Encrypt THEN r ELSE 17 - r))]

\* There is one.
LEMMA StandardRoundsAre ==
    ASSUME NEW mode, NEW key, NEW block
    PROVE  LET f == Standard!Rounds(mode, key, block)
           IN /\ f[0] = Standard!Permute(block, Standard!IP)
              /\ \A i \in 0 .. 15 : f[i + 1] = Standard!Round(f[i], Standard!KeyOfRound(key, KeyNumber(mode, i)))
<1> DEFINE Key0(r) == Standard!KeyOfRound(key, IF mode = Standard!Encrypt THEN r ELSE 17 - r)
           T == {n \in 0 .. 16 : \E f : IsStandardRounds(f, n, mode, key, block)}
<1> HIDE DEF Key0
<1>0. ASSUME NEW f, NEW n
      PROVE  IsStandardRounds(f, n, mode, key, block) <=>
                 f = [r \in 0 .. n |->
                         IF r = 0 THEN Standard!Permute(block, Standard!IP) ELSE Standard!Round(f[r - 1], Key0(r))]
  BY Zenon DEF IsStandardRounds, Key0
<1>1. 0 \in T
  <2> DEFINE f == [r \in 0 .. 0 |-> Standard!Permute(block, Standard!IP)]
  <2>1. f = [r \in 0 .. 0 |->
                IF r = 0 THEN Standard!Permute(block, Standard!IP) ELSE Standard!Round(f[r - 1], Key0(r))]
    OBVIOUS
  <2>2. IsStandardRounds(f, 0, mode, key, block)
    BY <1>0, <2>1, Zenon
  <2> QED BY <2>2
<1>2. ASSUME NEW n \in 0 .. 15, n \in T PROVE n + 1 \in T
  <2>1. PICK f : IsStandardRounds(f, n, mode, key, block)
    BY <1>2
  <2> DEFINE g == [r \in 0 .. n + 1 |-> IF r = n + 1 THEN Standard!Round(f[n], Key0(n + 1)) ELSE f[r]]
  <2>2. \A r \in 0 .. n :
            f[r] = IF r = 0 THEN Standard!Permute(block, Standard!IP) ELSE Standard!Round(f[r - 1], Key0(r))
    BY <1>0, <2>1
  <2>3. ASSUME NEW r \in 0 .. n + 1
        PROVE  g[r] = IF r = 0 THEN Standard!Permute(block, Standard!IP) ELSE Standard!Round(g[r - 1], Key0(r))
    <3>1. CASE r = n + 1
      BY <3>1
    <3>2. CASE r # n + 1
      BY <2>2, <3>2
    <3> QED BY <3>1, <3>2
  <2>4. IsStandardRounds(g, n + 1, mode, key, block)
    BY <2>3, Zenon DEF IsStandardRounds, Key0
  <2> QED BY <2>4
<1>3. \E f : IsStandardRounds(f, 16, mode, key, block)
  <2> HIDE DEF T
  <2>1. \A n \in 0 .. 16 : n \in T
    BY <1>1, <1>2, UpToSixteen
  <2> QED BY <2>1 DEF T
<1>4. PICK f : f = Standard!Rounds(mode, key, block) /\ IsStandardRounds(f, 16, mode, key, block)
  BY <1>3, Zenon DEF Standard!Rounds, IsStandardRounds
<1>5. \A r \in 0 .. 16 :
          f[r] = IF r = 0 THEN Standard!Permute(block, Standard!IP) ELSE Standard!Round(f[r - 1], Key0(r))
  BY <1>0, <1>4, Zenon
<1>6. \A i \in 0 .. 15 : i + 1 \in 0 .. 16 /\ i + 1 # 0 /\ (i + 1) - 1 = i
  OBVIOUS
<1>7. \A i \in 0 .. 15 : f[i + 1] = Standard!Round(f[i], Key0(i + 1))
  BY <1>5, <1>6
<1>8. \A i \in 0 .. 15 : Key0(i + 1) = Standard!KeyOfRound(key, KeyNumber(mode, i))
  BY Zenon DEF Key0, KeyNumber, EN0, Standard!Encrypt
<1>9. f[0] = Standard!Permute(block, Standard!IP)
  BY <1>5
<1> QED BY <1>4, <1>7, <1>8, <1>9, Zenon

\* A round: the halves change places, and one is changed by the other.
LEMMA RoundHolds ==
    ASSUME NEW a \in Word, NEW b \in Word, NEW key0 \in SUBSET Nat, NEW key1 \in SUBSET Nat,
           NEW bits, HoldsBoth([l |-> a, r |-> b], bits), NEW roundKey, KeyAt(key0, key1, roundKey)
    PROVE  HoldsBoth([l |-> b, r |-> Xor(a, fval(b, key0, key1))], Standard!Round(bits, roundKey))
<1> DEFINE left == Standard!LeftHalf(bits, 32)
           right == Standard!RightHalf(bits, 32)
           cipher == Standard!Cipher(right, roundKey)
           new == Standard!XorBits(left, cipher)
           f == fval(b, key0, key1)
<1>1. \A n \in 1 .. 32 : bits[n] = BitOf(At(n) \in a) /\ bits[n + 32] = BitOf(At(n) \in b)
  <2> SUFFICES ASSUME NEW n \in 1 .. 32
               PROVE  bits[n] = BitOf(At(n) \in a) /\ bits[n + 32] = BitOf(At(n) \in b)
    OBVIOUS
  <2>1. 0 \in Bit /\ 1 \in Bit /\ n + 32 * 0 = n /\ n + 32 * 1 = n + 32
    BY DEF Bit
  <2>2. bits[n + 32 * 0] = BitOf(At(n) \in a) /\ bits[n + 32 * 1] = BitOf(At(n) \in b)
    BY <2>1 DEF HoldsBoth, InWord
  <2> QED BY <2>1, <2>2
<1>2. /\ \A n \in 1 .. 32 : left[n] = bits[n] /\ right[n] = bits[n + 32]
      /\ DOMAIN left = 1 .. 32 /\ Numbered(right, 32)
  BY Zenon DEF Standard!LeftHalf, Standard!RightHalf, Numbered
<1> HIDE DEF left, right
<1>3. Holds(b, right)
  BY <1>1, <1>2 DEF Holds
<1>4. Holds(f, cipher)
  BY <1>3, FvalIsCipher
<1>5. /\ \A n \in 1 .. 32 : new[n] = (left[n] + cipher[n]) % 2
      /\ Numbered(new, 32)
  BY <1>2, Zenon DEF Standard!XorBits, Numbered
<1> HIDE DEF cipher, new, f
<1>6. ASSUME NEW n \in 1 .. 32 PROVE new[n] = BitOf(At(n) \in Xor(a, f))
  <2>1. new[n] = (left[n] + cipher[n]) % 2
    BY <1>5
  <2>2. left[n] = BitOf(At(n) \in a)
    BY <1>1, <1>2
  <2>3. cipher[n] = BitOf(At(n) \in f)
    BY <1>4 DEF Holds
  <2> QED BY <2>1, <2>2, <2>3, XorBit, Zenon
<1>7. Joined(right, new, 32)
  <2>1. 32 \in Nat
    OBVIOUS
  <2> QED BY <1>2, <1>5, <2>1, JoinedBits, Zenon
<1>8. Standard!Round(bits, roundKey) = right \o new
  BY Zenon DEF Standard!Round, left, right, cipher, new
<1>9. ASSUME NEW n \in 1 .. 32, NEW s \in Bit
      PROVE  (right \o new)[n + 32 * s] = BitOf(InWord([l |-> b, r |-> Xor(a, f)], s, At(n)))
  <2>1. CASE s = 0
    <3>1. n + 32 * s = n
      BY <2>1
    <3>2. (right \o new)[n] = BitOf(At(n) \in b)
      BY <1>3, <1>7 DEF Joined, Holds
    <3> QED BY <2>1, <3>1, <3>2 DEF InWord
  <2>2. CASE s = 1
    <3>1. n + 32 * s = n + 32
      BY <2>2
    <3>2. (right \o new)[n + 32] = BitOf(At(n) \in Xor(a, f))
      BY <1>6, <1>7 DEF Joined
    <3>3. s # 0
      BY <2>2
    <3> QED BY <3>1, <3>2, <3>3, Zenon DEF InWord
  <2> QED BY <2>1, <2>2 DEF Bit
<1> QED BY <1>8, <1>9, Zenon DEF HoldsBoth, f

\* The words of a schedule are sets of positions.
LEMMA CookedNaturals ==
    ASSUME NEW key, NEW edf, NEW k \in 0 .. 31
    PROVE  Cooked(key, edf)[k] \subseteq Nat
<1>1. PICK a \in SUBSET (0 .. 23), b \in SUBSET (0 .. 23) :
          a = Raw(key, edf)[2 * (k \div 2)] /\ b = Raw(key, edf)[2 * (k \div 2) + 1]
  <2>1. 2 * (k \div 2) \in 0 .. 31 /\ 2 * (k \div 2) + 1 \in 0 .. 31
    OBVIOUS
  <2> QED BY <2>1, RawWords
<1>2. \A c \in SUBSET (0 .. 23) : \A m : c \cap m \in SUBSET (0 .. 23)
  OBVIOUS
<1>3. ASSUME NEW c \in SUBSET (0 .. 23), NEW n \in 0 .. 31
      PROVE  Shl(c, n) \subseteq Nat /\ Shr(c, n) \subseteq Nat
  <2>1. Shl(c, n) \subseteq Nat
    BY DesAssumption DEF Shl
  <2>2. Shr(c, n) \subseteq Nat
    BY DEF Shr
  <2> QED BY <2>1, <2>2
<1>4. CASE k % 2 = 0
  <2>1. cookey(Raw(key, edf))[k] =
            UNION {Shl(a \cap Mask(18, 23), 6), Shl(a \cap Mask(6, 11), 10),
                   Shr(b \cap Mask(18, 23), 10), Shr(b \cap Mask(6, 11), 6)}
    BY <1>1, <1>4 DEF cookey
  <2> QED BY <1>2, <1>3, <2>1 DEF Cooked
<1>5. CASE k % 2 # 0
  <2>1. cookey(Raw(key, edf))[k] =
            UNION {Shl(a \cap Mask(12, 17), 12), Shl(a \cap Mask(0, 5), 16),
                   Shr(b \cap Mask(12, 17), 4), b \cap Mask(0, 5)}
    BY <1>1, <1>5 DEF cookey
  <2> QED BY <1>2, <1>3, <2>1 DEF Cooked
<1> QED BY <1>4, <1>5

-------------------------------------------------------------------------------
(* The standard.                                                           *)

\* Every bit of a block goes somewhere in the standard's initial permutation.
LEMMA IPReaches ==
    ASSUME NEW i \in 1 .. 64
    PROVE  \E j \in 1 .. 64 : Standard!IP[j] = i
<1> DEFINE x == 7 - ((i - 1) % 8)
           y == (i - 1) \div 8
<1>1. x \in 0 .. 31 /\ y \in 0 .. 31 /\ x < 8 /\ y < 8 /\ i = (8 * y + (7 - x)) + 1
  OBVIOUS
<1> HIDE DEF x, y
<1>2. PICK a \in Bit, b \in Bit, s \in Bit : x = 4 * a + 2 * b + s
  <2>1. PICK a1 \in Bit, b1 \in Bit, a \in Bit, b \in Bit, s \in Bit :
            x = 16 * a1 + 8 * b1 + 4 * a + 2 * b + s
    BY <1>1, FiveBits
  <2>2. a1 = 0 /\ b1 = 0
    BY <1>1, <2>1 DEF Bit
  <2>3. x = 4 * a + 2 * b + s
    BY <2>1, <2>2 DEF Bit
  <2> QED BY <2>3
<1>3. PICK c \in Bit, d \in Bit, e \in Bit : y = 4 * c + 2 * d + e
  <2>1. PICK a1 \in Bit, b1 \in Bit, c \in Bit, d \in Bit, e \in Bit :
            y = 16 * a1 + 8 * b1 + 4 * c + 2 * d + e
    BY <1>1, FiveBits
  <2>2. a1 = 0 /\ b1 = 0
    BY <1>1, <2>1 DEF Bit
  <2>3. y = 4 * c + 2 * d + e
    BY <2>1, <2>2 DEF Bit
  <2> QED BY <2>3
<1>4. PICK j : j = (32 - FiveOf(a, b, c, d, e)) + 32 * s
  OBVIOUS
<1>5. FromIP(j, s, a, b, c, d, e)
  BY <1>4, PlaceOfIP, Zenon
<1> QED BY <1>1, <1>2, <1>3, <1>5 DEF FromIP

\* Unpermuting undoes the permutation.
LEMMA Unpermuted ==
    ASSUME NEW bits, Numbered(bits, 64), NEW other,
           \A j \in 1 .. 64 : other[j] = Standard!Permute(bits, Standard!IP)[j]
    PROVE  Standard!Unpermute(other, Standard!IP) = bits
<1>1. DOMAIN Standard!IP = 1 .. 64
  BY Zenon DEF Standard!IP
<1>2. ASSUME NEW i \in 1 .. 64
      PROVE  other[CHOOSE j \in DOMAIN Standard!IP : Standard!IP[j] = i] = bits[i]
  <2>1. PICK j \in 1 .. 64 :
            j = (CHOOSE k \in DOMAIN Standard!IP : Standard!IP[k] = i) /\ Standard!IP[j] = i
    BY <1>1, IPReaches, Zenon
  <2>2. Standard!Permute(bits, Standard!IP)[j] = bits[Standard!IP[j]]
    BY <1>1, Zenon DEF Standard!Permute
  <2> QED BY <2>1, <2>2
<1>3. Standard!Unpermute(other, Standard!IP) =
          [i \in 1 .. 64 |-> other[CHOOSE j \in DOMAIN Standard!IP : Standard!IP[j] = i]]
  BY <1>1, Zenon DEF Standard!Unpermute
<1>4. bits = [i \in 1 .. 64 |-> bits[i]]
  BY DEF Numbered
<1> QED BY <1>2, <1>3, <1>4, Zenon

\* rfbDes() with the schedule of a key is the standard's cipher.
LEMMA EncipheredIsStandard ==
    ASSUME NEW key \in Key, NEW edf \in Modes, NEW block \in [1 .. 8 -> Byte]
    PROVE  Bits(Enciphered(Cooked(key, edf), block)) =
               Standard!StandardDes(edf, KeyBits(key), Bits(block))
<1> DEFINE K == KeyBits(key)
<1>1. PICK keys : keys = Cooked(key, edf)
  OBVIOUS
<1>2. PICK s \in Words : s = scrunch(block)
  BY ScrunchBits
<1>3. PICK x : x = HalfRounds(s, keys)
  OBVIOUS
<1>4. x[0] = Initial(s) /\ \A i \in 0 .. 15 : x[i + 1] = HalfRound(x[i], keys, i)
  BY <1>3, RoundsAre, InitialIs
<1>5. PICK f : f = Standard!Rounds(edf, K, Bits(block))
  OBVIOUS
<1>6. /\ f[0] = Standard!Permute(Bits(block), Standard!IP)
      /\ \A i \in 0 .. 15 : f[i + 1] = Standard!Round(f[i], Standard!KeyOfRound(K, KeyNumber(edf, i)))
  BY <1>5, StandardRoundsAre
<1>7. \A i \in 0 .. 15 : KeyAt(keys[2 * i], keys[2 * i + 1], Standard!KeyOfRound(K, KeyNumber(edf, i)))
  BY <1>1, ScheduleIs
<1>8. \A k \in 0 .. 31 : keys[k] \in SUBSET Nat
  <2> SUFFICES ASSUME NEW k \in 0 .. 31 PROVE keys[k] \in SUBSET Nat
    OBVIOUS
  <2>1. Cooked(key, edf)[k] \subseteq Nat
    BY CookedNaturals
  <2> QED BY <1>1, <2>1
<1> HIDE DEF K
\* The words, in the order of the standard's halves.
<1> DEFINE Facing(i) == IF i % 2 = 0 THEN x[i] ELSE Turned(x[i])
<1>9. \A i \in 0 .. 16 : x[i] \in Words /\ HoldsBoth(Facing(i), f[i])
  <2> DEFINE T == {i \in 0 .. 16 : x[i] \in Words /\ HoldsBoth(Facing(i), f[i])}
  <2>1. 0 \in T
    <3>1. x[0] \in Words
      BY <1>4, InitialWords
    <3>2. HoldsBoth(Initial(s), f[0])
      BY <1>2, <1>6, InitialIsIP
    <3> QED BY <1>4, <3>1, <3>2
  <2>2. ASSUME NEW i \in 0 .. 15, i \in T PROVE i + 1 \in T
    <3>1. PICK key0 \in SUBSET Nat, key1 \in SUBSET Nat : key0 = keys[2 * i] /\ key1 = keys[2 * i + 1]
      <4>1. 2 * i \in 0 .. 31 /\ 2 * i + 1 \in 0 .. 31
        OBVIOUS
      <4> QED BY <1>8, <4>1
    <3>2. PICK roundKey : roundKey = Standard!KeyOfRound(K, KeyNumber(edf, i)) /\ KeyAt(key0, key1, roundKey)
      BY <1>7, <3>1
    <3>3. PICK l \in Word, r \in Word : x[i] = [l |-> l, r |-> r]
      BY <2>2 DEF Words
    <3>4. x[i + 1] = HalfRound(x[i], keys, i) /\ f[i + 1] = Standard!Round(f[i], roundKey)
      BY <1>4, <1>6, <3>2
    <3>5. x[i + 1] \in Words
      BY <2>2, <3>4, HalfRoundWords
    <3>6. CASE i % 2 = 0
      <4>1. x[i + 1] = [l |-> Xor(l, fval(r, key0, key1)), r |-> r]
        BY <3>1, <3>3, <3>4, <3>6 DEF HalfRound
      <4>2. HoldsBoth([l |-> l, r |-> r], f[i])
        BY <2>2, <3>3, <3>6
      <4>3. HoldsBoth([l |-> r, r |-> Xor(l, fval(r, key0, key1))], f[i + 1])
        BY <3>2, <3>4, <4>2, RoundHolds
      <4>4. (i + 1) % 2 # 0
        BY <3>6
      <4>5. Facing(i + 1) = [l |-> r, r |-> Xor(l, fval(r, key0, key1))]
        BY <4>1, <4>4 DEF Turned
      <4> QED BY <3>5, <4>3, <4>5
    <3>7. CASE i % 2 # 0
      <4>1. x[i + 1] = [l |-> l, r |-> Xor(r, fval(l, key0, key1))]
        BY <3>1, <3>3, <3>4, <3>7 DEF HalfRound
      <4>2. HoldsBoth([l |-> r, r |-> l], f[i])
        BY <2>2, <3>3, <3>7 DEF Turned
      <4>3. HoldsBoth([l |-> l, r |-> Xor(r, fval(l, key0, key1))], f[i + 1])
        BY <3>2, <3>4, <4>2, RoundHolds
      <4>4. (i + 1) % 2 = 0
        BY <3>7
      <4>5. Facing(i + 1) = [l |-> l, r |-> Xor(r, fval(l, key0, key1))]
        BY <4>1, <4>4
      <4> QED BY <3>5, <4>3, <4>5
    <3> QED BY <3>6, <3>7
  <2> HIDE DEF T
  <2>3. \A i \in 0 .. 16 : i \in T
    BY <2>1, <2>2, UpToSixteen
  <2> QED BY <2>3 DEF T
<1>10. PICK w \in Words : w = x[16] /\ HoldsBoth(w, f[16])
  BY <1>9
<1>11. PICK out \in [1 .. 8 -> Byte] : out = Enciphered(keys, block) /\ scrunch(out) = Final(w)
  <2>1. Enciphered(keys, block) = unscrun(FinalPermutation(w))
    BY <1>2, <1>3, <1>10 DEF Enciphered, desfunc
  <2>2. FinalPermutation(w) \in AnyWords /\ LowWords(FinalPermutation(w)) = Final(w)
    BY FinalIs
  <2>3. Enciphered(keys, block) = unscrun(Final(w))
    BY <2>1, <2>2, UnscrunLow
  <2>4. scrunch(unscrun(Final(w))) = Final(w)
    BY FinalWords, ScrunchUnscrun
  <2> QED BY <2>3, <2>4, BytesOut
<1>12. HoldsBoth(Turned(w), Standard!Permute(Bits(out), Standard!IP))
  <2>1. Initial(scrunch(out)) = Turned(w)
    BY <1>11, InitialFinal
  <2> QED BY <2>1, InitialIsIP
<1> DEFINE left == Standard!LeftHalf(f[16], 32)
           right == Standard!RightHalf(f[16], 32)
<1>13. /\ \A n \in 1 .. 32 : left[n] = f[16][n] /\ right[n] = f[16][n + 32]
       /\ Numbered(left, 32) /\ Numbered(right, 32)
  BY Zenon DEF Standard!LeftHalf, Standard!RightHalf, Numbered
<1>14. Standard!StandardDes(edf, K, Bits(block)) = Standard!Unpermute(right \o left, Standard!IP)
  BY <1>5, Zenon DEF Standard!StandardDes
<1> HIDE DEF left, right
<1>15. \A j \in 1 .. 64 : (right \o left)[j] = Standard!Permute(Bits(out), Standard!IP)[j]
  <2> SUFFICES ASSUME NEW j \in 1 .. 64
               PROVE  (right \o left)[j] = Standard!Permute(Bits(out), Standard!IP)[j]
    OBVIOUS
  <2>1. Joined(right, left, 32)
    <3>1. 32 \in Nat
      OBVIOUS
    <3> QED BY <1>13, <3>1, JoinedBits, Zenon
  <2>2. CASE j <= 32
    <3>1. j \in 1 .. 32 /\ 0 \in Bit /\ 1 \in Bit /\ j + 32 * 0 = j /\ j + 32 * 1 = j + 32
      BY <2>2 DEF Bit
    <3>2. (right \o left)[j] = f[16][j + 32 * 1]
      BY <1>13, <2>1, <3>1 DEF Joined
    <3>3. f[16][j + 32 * 1] = BitOf(InWord(w, 1, At(j)))
      BY <1>10, <3>1, Zenon DEF HoldsBoth
    <3>4. Standard!Permute(Bits(out), Standard!IP)[j + 32 * 0] = BitOf(InWord(Turned(w), 0, At(j)))
      BY <1>12, <3>1, Zenon DEF HoldsBoth
    <3>5. InWord(Turned(w), 0, At(j)) = InWord(w, 1, At(j))
      BY DEF InWord, Turned
    <3> QED BY <3>1, <3>2, <3>3, <3>4, <3>5
  <2>3. CASE j > 32
    <3>1. PICK n \in 1 .. 32 : j = n + 32
      BY <2>3
    <3>2. 0 \in Bit /\ 1 \in Bit /\ n + 32 * 0 = n /\ n + 32 * 1 = n + 32
      BY DEF Bit
    <3>3. (right \o left)[n + 32] = f[16][n + 32 * 0]
      BY <1>13, <2>1, <3>2 DEF Joined
    <3>4. f[16][n + 32 * 0] = BitOf(InWord(w, 0, At(n)))
      BY <1>10, <3>2, Zenon DEF HoldsBoth
    <3>5. Standard!Permute(Bits(out), Standard!IP)[n + 32 * 1] = BitOf(InWord(Turned(w), 1, At(n)))
      BY <1>12, <3>2, Zenon DEF HoldsBoth
    <3>6. InWord(Turned(w), 1, At(n)) = InWord(w, 0, At(n))
      BY DEF InWord, Turned
    <3> QED BY <3>1, <3>2, <3>3, <3>4, <3>5, <3>6
  <2>4. j <= 32 \/ j > 32
    OBVIOUS
  <2> QED BY <2>2, <2>3, <2>4, Zenon
<1>16. Numbered(Bits(out), 64)
  BY Zenon DEF Bits, Numbered
<1>17. Standard!Unpermute(right \o left, Standard!IP) = Bits(out)
  BY <1>15, <1>16, Unpermuted
<1> QED BY <1>1, <1>11, <1>14, <1>17 DEF K

\* Whatever keys are set, kept and brought back, every block that rfbDes() writes is
\* the standard's for the block it read, in the mode and under the key of the
\* register.
THEOREM StandardCipher == Spec => []IsStandardDes
<1>1. BlockInv => IsStandardDes
  <2> SUFFICES ASSUME BlockInv, under.edf \in Modes
               PROVE  Bits(to) = Standard!StandardDes(under.edf, KeyBits(under.key), Bits(from))
    BY DEF IsStandardDes
  <2>1. under.key \in Key /\ from \in [1 .. 8 -> Byte] /\ to = Enciphered(Cooked(under.key, under.edf), from)
    BY DEF BlockInv, Schedules
  <2> QED BY <2>1, EncipheredIsStandard
<1> QED BY <1>1, BlockInit, BlockNext, PTL DEF Spec

===============================================================================
