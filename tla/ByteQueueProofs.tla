---------------------------- MODULE ByteQueueProofs ----------------------------
(***************************************************************************)
(* Marshal implements ByteQueue, for any set of Marshals, any chunk size   *)
(* and any arguments: every call does to the list of chunks what it does   *)
(* to a queue of bytes.  The bytes of a list are those left to read in its *)
(* chunks, one chunk after the other; each has a place, chunk and index.   *)
(***************************************************************************)
EXTENDS MarshalProofs, FiniteSetTheorems, WellFoundedInduction

-------------------------------------------------------------------------------
(* Induction.  A set of numbers has a least one, from which follow the     *)
(* laws of FlattenSeq and, below, what holds of a list of chunks of any    *)
(* length.                                                                 *)

\* A set of numbers has a least one.
LEMMA LeastOf ==
    ASSUME NEW T, T \subseteq Nat, T # {}
    PROVE  \E x \in T : \A y \in T : x <= y
<1> DEFINE R == {ss \in Nat \X Nat : ss[1] < ss[2]}
<1>1. IsWellFoundedOn(R, Nat)
  BY NatLessThanWellFounded, Zenon DEF OpToRel
<1>2. PICK x \in T : \A y \in T : ~ (<<y, x>> \in R)
  <2> HIDE DEF R
  <2> QED BY <1>1, WFMin
<1>3. \A y \in T : ~(y < x)
  BY <1>2
<1> QED BY <1>3

\* Induction: the least number that is not in T cannot be.
LEMMA Induction ==
    ASSUME NEW T, 0 \in T, \A n \in T \cap Nat : n + 1 \in T
    PROVE  Nat \subseteq T
<1> SUFFICES ASSUME NEW m \in Nat \ T PROVE FALSE
  OBVIOUS
<1>0. Nat \ T \subseteq Nat /\ Nat \ T # {}
  OBVIOUS
<1>1. PICK x \in Nat \ T : \A y \in Nat \ T : x <= y
  BY <1>0, LeastOf
<1>2. x # 0 /\ x - 1 \in Nat
  BY <1>1
<1>3. x - 1 \in T
  BY <1>1, <1>2
<1>4. (x - 1) + 1 = x
  BY <1>1, <1>2
<1> QED BY <1>2, <1>1, <1>3, <1>4

\* What has a length has a last element.
LEMMA LastApart ==
    ASSUME NEW S, NEW n \in Nat, NEW s \in Seq(S), Len(s) = n + 1
    PROVE  \E r \in Seq(S), x \in S : s = Append(r, x)
<1>1. s # <<>>
  OBVIOUS
<1> QED BY <1>1, SequenceEmptyOrAppend

\* The array that FlattenSeq builds: entry i is the first i sequences in a row.
IsJoined(f, s) ==
    f = [i \in 1 .. Len(s) |-> IF i = 1 THEN s[i] ELSE f[i - 1] \o s[i]]

\* The array of s.
Joined(s) == CHOOSE flatten : IsJoined(flatten, s)

\* One more sequence is one more entry.
LEMMA JoinedGrows ==
    ASSUME NEW S, NEW s \in Seq(S), NEW x \in S, NEW f, IsJoined(f, s)
    PROVE  \E g : /\ IsJoined(g, Append(s, x))
                  /\ g[Len(s) + 1] = IF s = <<>> THEN x ELSE f[Len(s)] \o x
<1> DEFINE n == Len(s)
           y == IF s = <<>> THEN x ELSE f[n] \o x
           g == [i \in 1 .. n + 1 |-> IF i = n + 1 THEN y ELSE f[i]]
<1>1. /\ n \in Nat /\ Len(Append(s, x)) = n + 1 /\ (s = <<>> <=> n = 0)
      /\ Append(s, x)[n + 1] = x /\ \A i \in 1 .. n : Append(s, x)[i] = s[i]
  BY AppendProperties
<1>2. \A i \in 1 .. n : f[i] = IF i = 1 THEN s[i] ELSE f[i - 1] \o s[i]
  BY DEF IsJoined
<1> HIDE DEF n
<1>3. \A i \in 1 .. n + 1 : g[i] = IF i = 1 THEN Append(s, x)[i] ELSE g[i - 1] \o Append(s, x)[i]
  <2> SUFFICES ASSUME NEW i \in 1 .. n + 1
               PROVE  g[i] = IF i = 1 THEN Append(s, x)[i] ELSE g[i - 1] \o Append(s, x)[i]
    OBVIOUS
  <2>1. CASE i = n + 1
    BY <1>1, <2>1
  <2>2. CASE i # n + 1
    BY <1>1, <1>2, <2>2
  <2> QED BY <2>1, <2>2
<1>4. IsJoined(g, Append(s, x))
  BY <1>1, <1>3, Zenon DEF IsJoined
<1>5. g[Len(s) + 1] = y
  BY <1>1 DEF n
<1> QED BY <1>4, <1>5, Zenon DEF n

\* There is such an array, ...
LEMMA JoinedExists ==
    ASSUME NEW S, NEW s \in Seq(S)
    PROVE  IsJoined(Joined(s), s)
<1> DEFINE T == {n \in Nat : \A t \in Seq(S) : Len(t) = n => \E f : IsJoined(f, t)}
<1>1. 0 \in T
  <2> SUFFICES ASSUME NEW t \in Seq(S), Len(t) = 0 PROVE \E f : IsJoined(f, t)
    OBVIOUS
  <2> DEFINE f == [i \in 1 .. Len(t) |-> t[i]]
  <2>1. f = [i \in 1 .. Len(t) |-> IF i = 1 THEN t[i] ELSE f[i - 1] \o t[i]]
    OBVIOUS
  <2>2. IsJoined(f, t)
    BY <2>1, Zenon DEF IsJoined
  <2> QED BY <2>2, Zenon
<1>2. ASSUME NEW n \in T \cap Nat PROVE n + 1 \in T
  <2> SUFFICES ASSUME NEW t \in Seq(S), Len(t) = n + 1 PROVE \E f : IsJoined(f, t)
    OBVIOUS
  <2>1. PICK r \in Seq(S), x \in S : t = Append(r, x)
    BY <1>2, LastApart
  <2>2. Len(r) = n
    BY <1>2, <2>1, AppendProperties
  <2>3. PICK f : IsJoined(f, r)
    BY <1>2, <2>2
  <2> QED BY <2>1, <2>3, JoinedGrows
<1>3. Nat \subseteq T
  <2> HIDE DEF T
  <2> QED BY <1>1, <1>2, Induction
<1>4. \E f : IsJoined(f, s)
  BY <1>3
<1> QED BY <1>4, Zenon DEF Joined

\* ... and only one: what is behind the first sequences does not matter.
LEMMA JoinedAgree ==
    ASSUME NEW s, NEW t, NEW f, NEW g, IsJoined(f, s), IsJoined(g, t),
           Len(s) \in Nat, Len(t) \in Nat, Len(s) <= Len(t), \A i \in 1 .. Len(s) : s[i] = t[i]
    PROVE  \A i \in 1 .. Len(s) : f[i] = g[i]
<1> DEFINE T == {n \in Nat : n \in 1 .. Len(s) => f[n] = g[n]}
<1>1. \A i \in 1 .. Len(s) : f[i] = IF i = 1 THEN s[i] ELSE f[i - 1] \o s[i]
  BY DEF IsJoined
<1>2. \A i \in 1 .. Len(t) : g[i] = IF i = 1 THEN t[i] ELSE g[i - 1] \o t[i]
  BY DEF IsJoined
<1>3. 0 \in T
  OBVIOUS
<1>4. ASSUME NEW n \in T \cap Nat PROVE n + 1 \in T
  <2>1. CASE n + 1 \notin 1 .. Len(s)
    BY <2>1
  <2>2. CASE n + 1 \in 1 .. Len(s) /\ n = 0
    BY <1>1, <1>2, <2>2
  <2>3. CASE n + 1 \in 1 .. Len(s) /\ n # 0
    <3>1. f[n] = g[n]
      BY <1>4, <2>3
    <3> DEFINE k == n + 1
    <3>2. k \in 1 .. Len(s) /\ k \in 1 .. Len(t) /\ k # 1 /\ k - 1 = n
      BY <2>3
    <3> HIDE DEF k, T
    <3>3. f[k] = f[n] \o s[k] /\ g[k] = g[n] \o t[k]
      BY <1>1, <1>2, <3>2
    <3>4. f[k] = g[k]
      BY <3>1, <3>2, <3>3
    <3> QED BY <3>4 DEF k, T
  <2> QED BY <2>1, <2>2, <2>3
<1>5. Nat \subseteq T
  <2> HIDE DEF T
  <2> QED BY <1>3, <1>4, Induction
<1> QED BY <1>5

\* FlattenSeq is the last entry of the array.
LEMMA FlattenJoined ==
    ASSUME NEW s, Len(s) # 0
    PROVE  FlattenSeq(s) = Joined(s)[Len(s)]
<1> DEFINE h == CHOOSE flatten :
                    flatten = [i \in 1 .. Len(s) |->
                                  IF i = 1 THEN s[i] ELSE flatten[i - 1] \o s[i]]
<1>1. FlattenSeq(s) = h[Len(s)]
  BY Zenon DEF FlattenSeq
<1> QED BY <1>1, Zenon DEF Joined, IsJoined

\* The laws of FlattenSeq: nothing joined is nothing, ...
LEMMA FlattenEmpty == FlattenSeq(<<>>) = <<>>
BY DEF FlattenSeq

\* One more sequence is joined at the end, ...
LEMMA FlattenAppend ==
    ASSUME NEW B, NEW s \in Seq(Seq(B)), NEW x \in Seq(B)
    PROVE  FlattenSeq(Append(s, x)) = FlattenSeq(s) \o x
<1> DEFINE t == Append(s, x)
<1>1. /\ t \in Seq(Seq(B)) /\ Len(t) = Len(s) + 1 /\ Len(s) \in Nat
      /\ t[Len(s) + 1] = x /\ \A i \in 1 .. Len(s) : t[i] = s[i]
      /\ (s = <<>> <=> Len(s) = 0)
  BY AppendProperties
<1> HIDE DEF t
<1>2. FlattenSeq(t) = Joined(t)[Len(s) + 1]
  BY <1>1, FlattenJoined
<1>3. PICK g : IsJoined(g, t) /\ g[Len(s) + 1] = IF s = <<>> THEN x ELSE Joined(s)[Len(s)] \o x
  BY JoinedExists, JoinedGrows DEF t
<1>4. Joined(t)[Len(s) + 1] = g[Len(s) + 1]
  BY <1>1, <1>3, JoinedExists, JoinedAgree
<1>5. CASE s = <<>>
  BY <1>2, <1>3, <1>4, <1>5, FlattenEmpty, ConcatEmptySeq DEF t
<1>6. CASE s # <<>>
  BY <1>1, <1>2, <1>3, <1>4, <1>6, FlattenJoined DEF t
<1> QED BY <1>5, <1>6

\* ... the result is a sequence of what the sequences have, ...
LEMMA FlattenType ==
    ASSUME NEW B, NEW s \in Seq(Seq(B))
    PROVE  FlattenSeq(s) \in Seq(B)
<1> DEFINE T == {n \in Nat : \A t \in Seq(Seq(B)) : Len(t) = n => FlattenSeq(t) \in Seq(B)}
<1>1. 0 \in T
  BY FlattenEmpty
<1>2. ASSUME NEW n \in T \cap Nat PROVE n + 1 \in T
  <2> SUFFICES ASSUME NEW t \in Seq(Seq(B)), Len(t) = n + 1 PROVE FlattenSeq(t) \in Seq(B)
    OBVIOUS
  <2>1. PICK r \in Seq(Seq(B)), x \in Seq(B) : t = Append(r, x)
    BY <1>2, LastApart
  <2>2. FlattenSeq(r) \in Seq(B)
    BY <1>2, <2>1, AppendProperties
  <2> QED BY <2>1, <2>2, FlattenAppend, ConcatProperties
<1>3. Nat \subseteq T
  <2> HIDE DEF T
  <2> QED BY <1>1, <1>2, Induction
<1> QED BY <1>3

\* ... and a sequence before the others is joined at the front.
LEMMA FlattenCons ==
    ASSUME NEW B, NEW s \in Seq(Seq(B)), NEW x \in Seq(B)
    PROVE  FlattenSeq(<<x>> \o s) = x \o FlattenSeq(s)
<1> DEFINE WithHead(t) == <<x>> \o t
           Flat(t) == x \o FlattenSeq(t)
           T == {n \in Nat : \A t \in Seq(Seq(B)) : Len(t) = n => FlattenSeq(WithHead(t)) = Flat(t)}
<1>1. <<x>> \in Seq(Seq(B)) /\ <<>> \in Seq(B) /\ <<>> \in Seq(Seq(B)) /\ <<x>> = Append(<<>>, x)
  OBVIOUS
<1>2. \A t \in Seq(Seq(B)) : WithHead(t) \in Seq(Seq(B))
  BY <1>1, ConcatProperties
<1>3. WithHead(<<>>) = Append(<<>>, x)
  BY <1>1, ConcatEmptySeq
<1>4. \A t \in Seq(Seq(B)), y \in Seq(B) : WithHead(Append(t, y)) = Append(WithHead(t), y)
  <2> SUFFICES ASSUME NEW t \in Seq(Seq(B)), NEW y \in Seq(B)
               PROVE  WithHead(Append(t, y)) = Append(WithHead(t), y)
    OBVIOUS
  <2>1. <<y>> \in Seq(Seq(B)) /\ Append(t, y) = t \o <<y>>
    BY AppendIsConcat
  <2>2. Append(WithHead(t), y) = WithHead(t) \o <<y>>
    <3> HIDE DEF WithHead
    <3> QED BY <1>2, AppendIsConcat
  <2> QED BY <1>1, <2>1, <2>2, ConcatAssociative
<1>5. Flat(<<>>) = <<>> \o x
  BY FlattenEmpty, ConcatEmptySeq
<1>6. \A t \in Seq(Seq(B)), y \in Seq(B) : Flat(Append(t, y)) = Flat(t) \o y
  <2> SUFFICES ASSUME NEW t \in Seq(Seq(B)), NEW y \in Seq(B)
               PROVE  Flat(Append(t, y)) = Flat(t) \o y
    OBVIOUS
  <2>1. FlattenSeq(Append(t, y)) = FlattenSeq(t) \o y /\ FlattenSeq(t) \in Seq(B)
    BY FlattenAppend, FlattenType
  <2>2. x \o (FlattenSeq(t) \o y) = (x \o FlattenSeq(t)) \o y
    BY <2>1, ConcatAssociative
  <2> QED BY <2>1, <2>2, Zenon
<1> HIDE DEF WithHead, Flat
<1>7. 0 \in T
  <2> SUFFICES ASSUME NEW t \in Seq(Seq(B)), Len(t) = 0 PROVE FlattenSeq(WithHead(t)) = Flat(t)
    OBVIOUS
  <2>1. t = <<>>
    OBVIOUS
  <2> QED BY <1>1, <1>3, <1>5, <2>1, FlattenAppend, FlattenEmpty
<1>8. ASSUME NEW n \in T \cap Nat PROVE n + 1 \in T
  <2> SUFFICES ASSUME NEW t \in Seq(Seq(B)), Len(t) = n + 1
               PROVE  FlattenSeq(WithHead(t)) = Flat(t)
    OBVIOUS
  <2>1. PICK r \in Seq(Seq(B)), y \in Seq(B) : t = Append(r, y)
    BY <1>8, LastApart
  <2>2. FlattenSeq(WithHead(r)) = Flat(r)
    BY <1>8, <2>1, AppendProperties
  <2>3. FlattenSeq(Append(WithHead(r), y)) = FlattenSeq(WithHead(r)) \o y
    BY <1>2, FlattenAppend
  <2>4. WithHead(t) = Append(WithHead(r), y) /\ Flat(t) = Flat(r) \o y
    BY <1>4, <1>6, <2>1
  <2> QED BY <2>2, <2>3, <2>4, Zenon
<1>9. Nat \subseteq T
  <2> HIDE DEF T
  <2> QED BY <1>7, <1>8, Induction
<1>10. Len(s) \in T
  BY <1>9
<1>11. FlattenSeq(WithHead(s)) = Flat(s)
  BY <1>10
<1> QED BY <1>11, Zenon DEF WithHead, Flat

-------------------------------------------------------------------------------
(* Sequences joined and cut.                                               *)

\* The elements of s and those of t.
LEMMA ConcatAt ==
    ASSUME NEW B, NEW s \in Seq(B), NEW t \in Seq(B), NEW m \in Nat, NEW n \in Nat,
           m = Len(s), n = Len(t)
    PROVE  /\ s \o t \in Seq(B) /\ Len(s \o t) = m + n
           /\ \A i \in 1 .. m : (s \o t)[i] = s[i]
           /\ \A i \in 1 .. n : (s \o t)[m + i] = t[i]
<1>1. /\ s \o t \in Seq(B) /\ Len(s \o t) = m + n
      /\ \A i \in 1 .. m + n : (s \o t)[i] = IF i <= m THEN s[i] ELSE t[i - m]
  BY ConcatProperties
<1>2. \A i \in 1 .. m : i \in 1 .. m + n /\ i <= m
  OBVIOUS
<1>3. \A i \in 1 .. n : m + i \in 1 .. m + n /\ ~(m + i <= m) /\ m + i - m = i
  OBVIOUS
<1> QED BY <1>1, <1>2, <1>3

\* w is x and then y, element by element.
Joins(w, x, y) ==
    /\ Len(w) = Len(x) + Len(y)
    /\ \A i \in 1 .. Len(x) : w[i] = x[i]
    /\ \A i \in 1 .. Len(y) : w[Len(x) + i] = y[i]

\* \o joins, ...
LEMMA ConcatJoins ==
    ASSUME NEW B, NEW x \in Seq(B), NEW y \in Seq(B)
    PROVE  x \o y \in Seq(B) /\ Joins(x \o y, x, y)
<1> DEFINE m == Len(x)
           n == Len(y)
<1>1. m \in Nat /\ n \in Nat /\ m = Len(x) /\ n = Len(y)
  OBVIOUS
<1> HIDE DEF m, n
<1>2. /\ x \o y \in Seq(B) /\ Len(x \o y) = m + n
      /\ \A i \in 1 .. m : (x \o y)[i] = x[i]
      /\ \A i \in 1 .. n : (x \o y)[m + i] = y[i]
  BY <1>1, ConcatAt
<1> QED BY <1>1, <1>2 DEF Joins

\* ... and only \o does.
LEMMA JoinsSame ==
    ASSUME NEW B, NEW w \in Seq(B), NEW v \in Seq(B), NEW x \in Seq(B), NEW y \in Seq(B),
           Joins(w, x, y), Joins(v, x, y)
    PROVE  w = v
<1> DEFINE m == Len(x)
           n == Len(y)
<1>1. /\ m \in Nat /\ n \in Nat /\ Len(w) = m + n /\ Len(v) = m + n
      /\ \A i \in 1 .. m : w[i] = x[i] /\ v[i] = x[i]
      /\ \A i \in 1 .. n : w[m + i] = y[i] /\ v[m + i] = y[i]
  BY DEF Joins
<1> HIDE DEF m, n
<1>2. ASSUME NEW i \in 1 .. m + n PROVE w[i] = v[i]
  <2>1. CASE i <= m
    BY <1>1, <2>1
  <2>2. CASE ~(i <= m)
    <3> DEFINE j == i - m
    <3>1. j \in 1 .. n /\ i = m + j
      BY <1>1, <2>2
    <3> HIDE DEF j
    <3> QED BY <1>1, <3>1
  <2> QED BY <2>1, <2>2
<1> QED BY <1>1, <1>2, SeqEqual

\* u is what w has behind its first r elements.
Ends(w, r, u) == Len(w) = r + Len(u) /\ \A i \in 1 .. Len(u) : u[i] = w[r + i]

\* What is behind the first r of x and y is what is behind the first r of x, and y.
LEMMA SuffixOfConcat ==
    ASSUME NEW B, NEW x \in Seq(B), NEW y \in Seq(B), NEW u \in Seq(B), NEW v \in Seq(B), NEW w \in Seq(B),
           NEW r \in Nat, Joins(w, x, y), Ends(x, r, u), Ends(w, r, v)
    PROVE  v = u \o y
<1> DEFINE n == Len(u)
           l == Len(y)
<1>0. /\ n \in Nat /\ l \in Nat /\ Len(u) = n /\ Len(y) = l
      /\ Len(x) = r + n /\ Len(v) = n + l
      /\ \A i \in 1 .. n : u[i] = x[r + i]
      /\ \A i \in 1 .. n + l : v[i] = w[r + i]
  BY DEF Joins, Ends
<1> HIDE DEF n, l
<1>1. /\ \A i \in 1 .. r + n : w[i] = x[i]
      /\ \A i \in 1 .. l : w[r + n + i] = y[i]
  BY <1>0 DEF Joins
<1>2. \A i \in 1 .. n : i \in 1 .. n + l /\ r + i \in 1 .. r + n
  BY <1>0
<1>3. \A i \in 1 .. n : v[i] = u[i]
  BY <1>0, <1>1, <1>2
<1>4. \A i \in 1 .. l : n + i \in 1 .. n + l /\ r + (n + i) = r + n + i
  BY <1>0
<1>5. ASSUME NEW i \in 1 .. l PROVE v[n + i] = y[i]
  <2>1. n + i \in 1 .. n + l /\ r + (n + i) = r + n + i
    BY <1>4
  <2>2. v[n + i] = w[r + (n + i)]
    BY <1>0, <2>1
  <2> QED BY <1>1, <2>1, <2>2
<1>6. Joins(v, u, y)
  BY <1>0, <1>3, <1>5 DEF Joins
<1> QED BY <1>6, ConcatJoins, JoinsSame

\* A sequence without its end, ...
LEMMA FrontOfConcat ==
    ASSUME NEW B, NEW g \in Seq(B), NEW s \in Seq(B)
    PROVE  SubSeq(g \o s, 1, Len(g \o s) - Len(s)) = g
<1> DEFINE m == Len(g)
           n == Len(s)
           w == g \o s
<1>1. m \in Nat /\ n \in Nat /\ w \in Seq(B) /\ Joins(w, g, s)
  BY ConcatJoins
<1>2. Len(w) = m + n /\ \A i \in 1 .. m : w[i] = g[i]
  BY <1>1 DEF Joins
<1> HIDE DEF m, n, w
<1>3. Len(w) - n = m
  BY <1>1, <1>2
<1> DEFINE v == SubSeq(w, 1, m)
<1>4. v \in Seq(B) /\ Len(v) = m /\ \A i \in 1 .. m : v[i] = w[i]
  <2>1. \A i \in 1 .. m : w[i] \in B
    BY <1>1, <1>2
  <2>2. /\ SubSeq(w, 1, m) \in Seq(B)
        /\ Len(SubSeq(w, 1, m)) = IF 1 <= m THEN m - 1 + 1 ELSE 0
        /\ \A i \in 1 .. m - 1 + 1 : SubSeq(w, 1, m)[i] = w[1 + i - 1]
    BY <1>1, <2>1, SubSeqProperties
  <2> QED BY <1>1, <2>2
<1> HIDE DEF v
<1>5. v = g
  <2>1. Len(g) = m /\ \A i \in 1 .. m : v[i] = g[i]
    BY <1>2, <1>4 DEF m
  <2> QED BY <1>4, <2>1, SeqEqual
<1> QED BY <1>3, <1>5 DEF v, w, n

\* ... without its front, ...
LEMMA AfterOfConcat ==
    ASSUME NEW B, NEW b \in Seq(B), NEW r \in Seq(B)
    PROVE  SubSeq(b \o r, Len(b) + 1, Len(b \o r)) = r
<1> DEFINE m == Len(b)
           n == Len(r)
           w == b \o r
<1>1. m \in Nat /\ n \in Nat /\ w \in Seq(B) /\ Joins(w, b, r)
  BY ConcatJoins
<1>2. Len(w) = m + n /\ \A i \in 1 .. n : w[m + i] = r[i]
  BY <1>1 DEF Joins
<1> HIDE DEF m, n, w
<1> DEFINE v == SubSeq(w, m + 1, m + n)
<1>4. v \in Seq(B) /\ Len(v) = n /\ \A i \in 1 .. n : v[i] = w[m + i]
  <2>1. \A i \in m + 1 .. m + n : w[i] \in B
    BY <1>1, <1>2
  <2> DEFINE a == m + 1
             c == m + n
  <2>2. a \in Int /\ c \in Int /\ c - a + 1 = n /\ (a <= c <=> n # 0)
        /\ \A i \in 1 .. n : a + i - 1 = m + i
    BY <1>1
  <2>3. \A i \in a .. c : w[i] \in B
    BY <2>1
  <2> HIDE DEF a, c
  <2>4. /\ SubSeq(w, a, c) \in Seq(B)
        /\ Len(SubSeq(w, a, c)) = IF a <= c THEN c - a + 1 ELSE 0
        /\ \A i \in 1 .. c - a + 1 : SubSeq(w, a, c)[i] = w[a + i - 1]
    BY <2>2, <2>3, SubSeqProperties
  <2>5. Len(SubSeq(w, a, c)) = n
    BY <1>1, <2>2, <2>4
  <2> QED BY <2>2, <2>4, <2>5 DEF a, c
<1> HIDE DEF v
<1>5. v = r
  <2>1. Len(r) = n /\ \A i \in 1 .. n : v[i] = r[i]
    BY <1>2, <1>4 DEF n
  <2> QED BY <1>4, <2>1, SeqEqual
<1>6. Len(w) = m + n
  BY <1>2
<1> QED BY <1>5, <1>6 DEF v, w, m

\* ... and its front.
LEMMA PrefixOfConcat ==
    ASSUME NEW B, NEW b \in Seq(B), NEW r \in Seq(B)
    PROVE  SubSeq(b \o r, 1, Len(b)) = b
<1>1. Len(b \o r) - Len(r) = Len(b)
  BY ConcatProperties
<1>2. SubSeq(b \o r, 1, Len(b \o r) - Len(r)) = b
  BY FrontOfConcat
<1> QED BY <1>1, <1>2

\* Three sequences of bytes joined, from the left or from the right.
LEMMA BytesAssociate ==
  ASSUME NEW u \in Seq(Byte), NEW v \in Seq(Byte), NEW w \in Seq(Byte)
  PROVE  (u \o v) \o w = u \o (v \o w)
BY ConcatAssociative

\* The smaller of two numbers.
LEMMA MinOfTwo ==
    ASSUME NEW a \in Nat, NEW b \in Nat, a <= b
    PROVE  BQ!Min({a, b}) = a /\ BQ!Min({b, a}) = a
<1>1. \A x \in {a, b} : (\A y \in {a, b} : x <= y) <=> x = a
  OBVIOUS
<1>2. {b, a} = {a, b}
  OBVIOUS
<1>3. BQ!Min({a, b}) = a
  BY <1>1 DEF BQ!Min
<1> QED BY <1>2, <1>3

\* The least number of an interval.
LEMMA MinOfRange ==
    ASSUME NEW a \in Nat, NEW k \in Nat \ {0}
    PROVE  BQ!Min(a + 1 .. a + k) = a + 1
<1>1. \A x \in a + 1 .. a + k : (\A y \in a + 1 .. a + k : x <= y) <=> x = a + 1
  OBVIOUS
<1>2. a + 1 \in a + 1 .. a + k
  OBVIOUS
<1> QED BY <1>1, <1>2 DEF BQ!Min

\* As much as is asked for, or all there is.
LEMMA FirstOfConcat ==
    ASSUME NEW B, NEW b \in Seq(B), NEW r \in Seq(B), NEW n \in Nat,
           Len(b) <= n, n = Len(b) \/ r = <<>>
    PROVE  SubSeq(b \o r, 1, BQ!Min({n, Len(b \o r)})) = b
<1>1. Len(b) \in Nat /\ Len(b \o r) \in Nat /\ Len(b) <= Len(b \o r)
      /\ (r = <<>> => Len(b \o r) = Len(b))
  BY ConcatProperties
<1>2. BQ!Min({n, Len(b \o r)}) = Len(b)
  BY <1>1, MinOfTwo
<1> QED BY <1>2, PrefixOfConcat

-------------------------------------------------------------------------------
(* The bytes of a list of chunks, and what the operators of Marshal do to  *)
(* them.                                                                   *)

\* What is left to read in a chunk, ...
Unread(c) == Content(c, content_size(c))

\* ... in each chunk of a list, ...
Pieces(cs) == [i \in DOMAIN cs |-> Unread(cs[i])]

\* ... and in the list.
ListBytes(cs) == FlattenSeq(Pieces(cs))

\* They are bytes, as many as the content of the chunk.
LEMMA UnreadType ==
    ASSUME NEW c \in Chunk
    PROVE  Unread(c) \in Seq(Byte) /\ Len(Unread(c)) = content_size(c)
BY ContentIsBytes, ChunkFacts DEF Unread

\* One piece for each chunk.
LEMMA PiecesType ==
    ASSUME NEW cs \in Seq(Chunk)
    PROVE  /\ Pieces(cs) \in Seq(Seq(Byte)) /\ Len(Pieces(cs)) = Len(cs)
           /\ \A i \in 1 .. Len(cs) : Pieces(cs)[i] = Unread(cs[i])
<1>1. Len(cs) \in Nat /\ DOMAIN cs = 1 .. Len(cs) /\ \A i \in 1 .. Len(cs) : cs[i] \in Chunk
  OBVIOUS
<1>2. \A i \in 1 .. Len(cs) : Unread(cs[i]) \in Seq(Byte)
  BY <1>1, UnreadType
<1>3. Pieces(cs) = [i \in 1 .. Len(cs) |-> Unread(cs[i])]
  BY <1>1 DEF Pieces
<1> QED BY <1>1, <1>2, <1>3

\* A list of chunks has bytes; ...
LEMMA ListBytesType ==
    ASSUME NEW cs \in Seq(Chunk)
    PROVE  ListBytes(cs) \in Seq(Byte) /\ Len(ListBytes(cs)) \in Nat
<1>1. ListBytes(cs) \in Seq(Byte)
  BY PiecesType, FlattenType DEF ListBytes
<1> QED BY <1>1

\* ... an empty list has none; ...
LEMMA ListBytesEmpty == ListBytes(<<>>) = <<>>
<1>1. Pieces(<<>>) = <<>>
  BY DEF Pieces
<1> QED BY <1>1, FlattenEmpty DEF ListBytes

\* ... a chunk behind the list adds its bytes behind, ...
LEMMA ListBytesAppend ==
    ASSUME NEW cs \in Seq(Chunk), NEW c \in Chunk
    PROVE  ListBytes(Append(cs, c)) = ListBytes(cs) \o Unread(c)
<1> DEFINE ds == Append(cs, c)
<1>1. /\ ds \in Seq(Chunk) /\ Len(ds) = Len(cs) + 1 /\ Len(cs) \in Nat
      /\ ds[Len(cs) + 1] = c /\ \A i \in 1 .. Len(cs) : ds[i] = cs[i]
  BY AppendProperties
<1>2. Unread(c) \in Seq(Byte)
  BY UnreadType
<1> HIDE DEF ds
<1>3. Pieces(ds) = Append(Pieces(cs), Unread(c))
  <2>1. /\ Pieces(ds) \in Seq(Seq(Byte)) /\ Len(Pieces(ds)) = Len(cs) + 1
        /\ \A i \in 1 .. Len(cs) : Pieces(ds)[i] = Unread(cs[i])
        /\ Pieces(ds)[Len(cs) + 1] = Unread(c)
    <3>1. /\ Pieces(ds) \in Seq(Seq(Byte)) /\ Len(Pieces(ds)) = Len(cs) + 1
          /\ \A i \in 1 .. Len(cs) + 1 : Pieces(ds)[i] = Unread(ds[i])
      BY <1>1, PiecesType
    <3>2. 1 .. Len(cs) \subseteq 1 .. Len(cs) + 1 /\ Len(cs) + 1 \in 1 .. Len(cs) + 1
      BY <1>1
    <3> QED BY <1>1, <3>1, <3>2
  <2>2. /\ Pieces(cs) \in Seq(Seq(Byte)) /\ Len(Pieces(cs)) = Len(cs)
        /\ \A i \in 1 .. Len(cs) : Pieces(cs)[i] = Unread(cs[i])
    BY PiecesType
  <2>3. /\ Append(Pieces(cs), Unread(c)) \in Seq(Seq(Byte))
        /\ Len(Append(Pieces(cs), Unread(c))) = Len(cs) + 1
        /\ \A i \in 1 .. Len(cs) : Append(Pieces(cs), Unread(c))[i] = Unread(cs[i])
        /\ Append(Pieces(cs), Unread(c))[Len(cs) + 1] = Unread(c)
    BY <1>2, <2>2, AppendProperties
  <2>4. \A i \in 1 .. Len(cs) + 1 : Pieces(ds)[i] = Append(Pieces(cs), Unread(c))[i]
    BY <1>1, <2>1, <2>3
  <2> QED BY <2>1, <2>3, <2>4, SeqEqual
<1> QED BY <1>2, <1>3, PiecesType, FlattenAppend DEF ListBytes, ds

\* ... and a chunk before the list before.
LEMMA ListBytesCons ==
    ASSUME NEW cs \in Seq(Chunk), NEW c \in Chunk
    PROVE  ListBytes(<<c>> \o cs) = Unread(c) \o ListBytes(cs)
<1> DEFINE ds == <<c>> \o cs
           p == <<Unread(c)>> \o Pieces(cs)
<1>1. /\ ds \in Seq(Chunk) /\ Len(ds) = Len(cs) + 1 /\ Len(cs) \in Nat
      /\ ds[1] = c /\ \A i \in 2 .. Len(cs) + 1 : ds[i] = cs[i - 1]
  OBVIOUS
<1>2. Unread(c) \in Seq(Byte)
  BY UnreadType
<1> HIDE DEF ds
<1>3. Pieces(ds) = p
  <2>1. /\ Pieces(ds) \in Seq(Seq(Byte)) /\ Len(Pieces(ds)) = Len(cs) + 1
        /\ \A i \in 1 .. Len(cs) + 1 : Pieces(ds)[i] = Unread(ds[i])
    BY <1>1, PiecesType
  <2>2. /\ Pieces(cs) \in Seq(Seq(Byte)) /\ Len(Pieces(cs)) = Len(cs)
        /\ \A i \in 1 .. Len(cs) : Pieces(cs)[i] = Unread(cs[i])
    BY PiecesType
  <2>3. /\ p \in Seq(Seq(Byte)) /\ Len(p) = Len(cs) + 1
        /\ p[1] = Unread(c) /\ \A i \in 2 .. Len(cs) + 1 : p[i] = Pieces(cs)[i - 1]
    BY <1>1, <1>2, <2>2
  <2> HIDE DEF p
  <2>4. ASSUME NEW i \in 1 .. Len(cs) + 1 PROVE Pieces(ds)[i] = p[i]
    <3>1. CASE i = 1
      BY <1>1, <2>1, <2>3, <3>1
    <3>2. CASE i # 1
      <4>1. i \in 2 .. Len(cs) + 1 /\ i - 1 \in 1 .. Len(cs)
        BY <1>1, <3>2
      <4> QED BY <1>1, <2>1, <2>2, <2>3, <4>1
    <3> QED BY <3>1, <3>2
  <2> QED BY <2>1, <2>3, <2>4, SeqEqual
<1> QED BY <1>2, <1>3, PiecesType, FlattenCons DEF ListBytes, ds

\* A list is its head and its tail, ...
LEMMA HeadApart ==
    ASSUME NEW cs \in Seq(Chunk), cs # <<>>
    PROVE  /\ ListBytes(cs) = Unread(Head(cs)) \o ListBytes(Tail(cs))
           /\ Tail(cs) \in Seq(Chunk) /\ Head(cs) \in Chunk
<1>1. Head(cs) \in Chunk /\ Tail(cs) \in Seq(Chunk) /\ cs = <<Head(cs)>> \o Tail(cs)
  OBVIOUS
<1> QED BY <1>1, ListBytesCons

\* ... and its front and its last.
LEMMA FrontApart ==
    ASSUME NEW cs \in Seq(Chunk), cs # <<>>
    PROVE  /\ ListBytes(cs) = ListBytes(Front(cs)) \o Unread(Last(cs))
           /\ Front(cs) \in Seq(Chunk) /\ Last(cs) \in Chunk
           /\ Len(Front(cs)) = Len(cs) - 1
           /\ cs = Append(Front(cs), Last(cs))
<1>1. Len(cs) \in Nat /\ Len(cs) > 0 /\ \A k \in 1 .. Len(cs) : cs[k] \in Chunk
  OBVIOUS
<1> DEFINE n == Len(cs) - 1
<1>2. n \in Nat /\ n + 1 = Len(cs) /\ \A k \in 1 .. n : cs[k] \in Chunk
  BY <1>1
<1>3. Last(cs) = cs[n + 1] /\ Last(cs) \in Chunk
  BY <1>1, <1>2 DEF Last
<1>4. Front(cs) = SubSeq(cs, 1, n)
  BY DEF Front
<1> HIDE DEF n
<1>5. /\ SubSeq(cs, 1, n) \in Seq(Chunk)
      /\ Len(SubSeq(cs, 1, n)) = IF 1 <= n THEN n - 1 + 1 ELSE 0
      /\ \A k \in 1 .. n - 1 + 1 : SubSeq(cs, 1, n)[k] = cs[1 + k - 1]
  BY <1>2, SubSeqProperties
<1>6. Front(cs) \in Seq(Chunk) /\ Len(Front(cs)) = n /\ \A k \in 1 .. n : Front(cs)[k] = cs[k]
  BY <1>2, <1>4, <1>5
<1>7. cs = Append(Front(cs), Last(cs))
  <2>1. /\ Append(Front(cs), Last(cs)) \in Seq(Chunk)
        /\ Len(Append(Front(cs), Last(cs))) = n + 1
        /\ Append(Front(cs), Last(cs))[n + 1] = Last(cs)
        /\ \A k \in 1 .. n : Append(Front(cs), Last(cs))[k] = Front(cs)[k]
    BY <1>3, <1>6, AppendProperties
  <2>2. \A k \in 1 .. Len(cs) : cs[k] = Append(Front(cs), Last(cs))[k]
    BY <1>2, <1>3, <1>6, <2>1
  <2> QED BY <1>2, <2>1, <2>2, SeqEqual
<1>8. ListBytes(Append(Front(cs), Last(cs))) = ListBytes(Front(cs)) \o Unread(Last(cs))
  BY <1>3, <1>6, ListBytesAppend
<1>9. ListBytes(cs) = ListBytes(Front(cs)) \o Unread(Last(cs))
  BY <1>7, <1>8
<1> QED BY <1>3, <1>6, <1>7, <1>9 DEF n

\* The first bytes left to read, one by one, ...
LEMMA ContentAt ==
    ASSUME NEW c \in Chunk, NEW n \in Nat, n <= content_size(c)
    PROVE  /\ Content(c, n) \in Seq(Byte) /\ Len(Content(c, n)) = n
           /\ \A i \in 1 .. n : Content(c, n)[i] = c.data[c.read_idx + i]
<1>1. /\ c.data \in Seq(Byte) /\ c.read_idx \in Nat
      /\ c.read_idx + n <= Len(c.data)
  BY ChunkFacts DEF content_size
<1> DEFINE a == c.read_idx + 1
           b == c.read_idx + n
<1>2. a \in Int /\ b \in Int /\ \A i \in a .. b : c.data[i] \in Byte
  BY <1>1
<1>3. b - a + 1 = n /\ (a <= b <=> n # 0) /\ \A i \in 1 .. n : a + i - 1 = c.read_idx + i
  BY <1>1
<1>4. Content(c, n) = SubSeq(c.data, a, b)
  BY DEF Content
<1> HIDE DEF a, b
<1>5. /\ SubSeq(c.data, a, b) \in Seq(Byte)
      /\ Len(SubSeq(c.data, a, b)) = IF a <= b THEN b - a + 1 ELSE 0
      /\ \A i \in 1 .. b - a + 1 : SubSeq(c.data, a, b)[i] = c.data[a + i - 1]
  BY <1>2, SubSeqProperties
<1>6. Len(SubSeq(c.data, a, b)) = n
  BY <1>3, <1>5
<1> QED BY <1>3, <1>4, <1>5, <1>6

\* ... and all of them.
LEMMA UnreadAt ==
    ASSUME NEW c \in Chunk
    PROVE  /\ content_size(c) \in Nat /\ c.read_idx \in Nat
           /\ Len(c.data) = c.read_idx + content_size(c)
           /\ Unread(c) \in Seq(Byte) /\ Len(Unread(c)) = content_size(c)
           /\ \A i \in 1 .. content_size(c) : Unread(c)[i] = c.data[c.read_idx + i]
<1>1. /\ content_size(c) \in Nat /\ c.read_idx \in Nat
      /\ Len(c.data) = c.read_idx + content_size(c)
  BY ChunkFacts DEF content_size
<1> DEFINE n == content_size(c)
<1>2. n \in Nat /\ n <= content_size(c) /\ Unread(c) = Content(c, n)
  BY <1>1 DEF Unread
<1>3. /\ Content(c, n) \in Seq(Byte) /\ Len(Content(c, n)) = n
      /\ \A i \in 1 .. n : Content(c, n)[i] = c.data[c.read_idx + i]
  <2> HIDE DEF n
  <2> QED BY <1>2, ContentAt
<1> QED BY <1>1, <1>2, <1>3

\* A new chunk has what it was made with left to read, ...
LEMMA NewChunkUnread ==
    ASSUME NEW p \in Seq(Byte)
    PROVE  Unread(NewChunk(p)) = p
<1>1. NewChunk(p).data = p /\ NewChunk(p).read_idx = 0
  BY DEF NewChunk
<1>2. Unread(NewChunk(p)) = SubSeq(p, 1, Len(p))
  BY <1>1 DEF Unread, Content, content_size
<1> QED BY <1>2, SubSeqFull

\* ... a write adds to what is left to read in a chunk, ...
LEMMA WriteChunkUnread ==
    ASSUME NEW c \in Chunk, NEW p \in Seq(Byte), Len(p) <= writable(c)
    PROVE  Unread(WriteChunk(c, p)) = Unread(c) \o p
<1> DEFINE d == WriteChunk(c, p)
           n == content_size(c)
           r == c.read_idx
           l == Len(p)
<1>1. d \in Chunk /\ d.data = c.data \o p /\ d.read_idx = r
  BY WriteChunkIsChunk, ChunkFacts DEF WriteChunk
<1>2. /\ n \in Nat /\ r \in Nat /\ Len(c.data) = r + n
      /\ Unread(c) \in Seq(Byte) /\ Len(Unread(c)) = n
      /\ \A i \in 1 .. n : Unread(c)[i] = c.data[r + i]
  BY UnreadAt
<1>3. c.data \in Seq(Byte) /\ l \in Nat /\ Len(p) = l /\ p \in Seq(Byte)
  BY ChunkFacts
<1>4. Len(c.data \o p) = r + n + l
  BY <1>2, <1>3, ConcatProperties
<1> HIDE DEF d
<1>5. content_size(d) = n + l
  BY <1>1, <1>2, <1>3, <1>4 DEF content_size
<1>6. /\ Unread(d) \in Seq(Byte) /\ Len(Unread(d)) = n + l
      /\ \A i \in 1 .. n + l : Unread(d)[i] = (c.data \o p)[r + i]
  BY <1>1, <1>5, UnreadAt
<1>7. c.data \o p \in Seq(Byte) /\ Joins(c.data \o p, c.data, p)
  BY <1>3, ConcatJoins
<1> DEFINE x == c.data
           u == Unread(c)
           v == Unread(d)
           w == c.data \o p
<1>8. /\ x \in Seq(Byte) /\ u \in Seq(Byte) /\ v \in Seq(Byte) /\ w \in Seq(Byte) /\ r \in Nat
      /\ Joins(w, x, p) /\ Ends(x, r, u) /\ Ends(w, r, v)
  <2>1. Ends(x, r, u)
    BY <1>2 DEF Ends
  <2>2. Ends(w, r, v)
    <3>1. Len(w) = r + Len(v)
      BY <1>2, <1>3, <1>4, <1>6
    <3>2. \A i \in 1 .. Len(v) : v[i] = w[r + i]
      BY <1>6
    <3> QED BY <3>1, <3>2 DEF Ends
  <2> QED BY <1>2, <1>3, <1>6, <1>7, <2>1, <2>2
<1>9. v = u \o p
  <2> HIDE DEF x, u, v, w, r
  <2> QED BY <1>3, <1>8, SuffixOfConcat
<1> QED BY <1>9 DEF d

\* ... and a read takes from it.
LEMMA ReadChunkUnread ==
    ASSUME NEW c \in Chunk, NEW r \in Nat, r <= content_size(c), ReadChunk(c, r) \in Chunk
    PROVE  Unread(c) = Content(c, r) \o Unread(ReadChunk(c, r))
<1> DEFINE d == ReadChunk(c, r)
           n == content_size(c)
           x == c.read_idx
           p == Content(c, r)
<1>1. d \in Chunk /\ d.data = c.data /\ d.read_idx = x + r
  BY ChunkFacts DEF ReadChunk
<1>2. /\ n \in Nat /\ x \in Nat /\ Len(c.data) = x + n
      /\ Unread(c) \in Seq(Byte) /\ Len(Unread(c)) = n
      /\ \A i \in 1 .. n : Unread(c)[i] = c.data[x + i]
  BY UnreadAt
<1>3. p \in Seq(Byte) /\ Len(p) = r /\ \A i \in 1 .. r : p[i] = c.data[x + i]
  BY ContentAt
<1>4. r <= n
  OBVIOUS
<1> HIDE DEF d, n, x, p
<1>5. content_size(d) = n - r
  BY <1>1, <1>2 DEF content_size
<1>6. /\ Unread(d) \in Seq(Byte) /\ Len(Unread(d)) = n - r
      /\ \A i \in 1 .. n - r : Unread(d)[i] = c.data[x + r + i]
  BY <1>1, <1>5, UnreadAt
<1> DEFINE k == n - r
<1>7. k \in Nat /\ r + k = n /\ Len(Unread(d)) = k /\ \A i \in 1 .. k : Unread(d)[i] = c.data[x + r + i]
  BY <1>2, <1>4, <1>6
<1> HIDE DEF k
<1>8. /\ p \o Unread(d) \in Seq(Byte) /\ Len(p \o Unread(d)) = r + k
      /\ \A i \in 1 .. r : (p \o Unread(d))[i] = p[i]
      /\ \A i \in 1 .. k : (p \o Unread(d))[r + i] = Unread(d)[i]
  BY <1>3, <1>6, <1>7, ConcatAt
<1>10. ASSUME NEW i \in 1 .. n PROVE Unread(c)[i] = (p \o Unread(d))[i]
  <2>1. CASE i <= r
    <3>1. i \in 1 .. r
      BY <1>2, <2>1
    <3> QED BY <1>2, <1>3, <1>8, <3>1
  <2>2. CASE ~(i <= r)
    <3> DEFINE j == i - r
    <3>1. j \in 1 .. k /\ i = r + j /\ x + i = x + r + j
      BY <1>2, <1>7, <2>2
    <3> HIDE DEF j
    <3> QED BY <1>2, <1>7, <1>8, <3>1
  <2> QED BY <2>1, <2>2
<1>11. /\ Len(Unread(c)) = Len(p \o Unread(d))
       /\ \A i \in 1 .. Len(Unread(c)) : Unread(c)[i] = (p \o Unread(d))[i]
  BY <1>2, <1>7, <1>8, <1>10
<1> QED BY <1>2, <1>8, <1>11, SeqEqual DEF d, p

\* The operators on lists: read(r) of the head takes r bytes from the front, ...
LEMMA ReadHeadBytes ==
    ASSUME NEW cs \in ChunkList, cs # <<>>, NEW r \in Nat, r <= content_size(Head(cs))
    PROVE  ListBytes(cs) = Content(Head(cs), r) \o ListBytes(ReadHead(cs, r))
<1> DEFINE c == Head(cs)
<1>1. /\ cs \in Seq(Chunk) /\ c \in Chunk /\ Tail(cs) \in Seq(Chunk)
      /\ ListBytes(cs) = Unread(c) \o ListBytes(Tail(cs))
  BY ListFacts, HeadApart
<1> HIDE DEF c
<1>2. CASE fully_read(ReadChunk(c, r))
  <2>1. r = content_size(c)
    BY <1>1, <1>2, ChunkFacts DEF fully_read, ReadChunk, content_size, c
  <2> QED BY <1>1, <1>2, <2>1 DEF ReadHead, Unread, c
<1>3. CASE ~fully_read(ReadChunk(c, r))
  <2>1. ReadChunk(c, r) \in Chunk
    BY <1>1, <1>3, ReadChunkIsChunk DEF c
  <2>2. Unread(c) = Content(c, r) \o Unread(ReadChunk(c, r))
    BY <1>1, <2>1, ReadChunkUnread DEF c
  <2>3. ListBytes(ReadHead(cs, r)) = Unread(ReadChunk(c, r)) \o ListBytes(Tail(cs))
    BY <1>1, <1>3, <2>1, ListBytesCons DEF ReadHead, c
  <2>4. /\ Content(c, r) \in Seq(Byte) /\ Unread(ReadChunk(c, r)) \in Seq(Byte)
        /\ ListBytes(Tail(cs)) \in Seq(Byte)
    BY <1>1, <2>1, ContentAt, UnreadType, ListBytesType DEF c
  <2>5. (Content(c, r) \o Unread(ReadChunk(c, r))) \o ListBytes(Tail(cs))
        = Content(c, r) \o (Unread(ReadChunk(c, r)) \o ListBytes(Tail(cs)))
    BY <2>4, ConcatAssociative
  <2> QED BY <1>1, <2>2, <2>3, <2>5, Zenon DEF c
<1> QED BY <1>2, <1>3

\* ... write(p) to the last adds p at the end, ...
LEMMA WriteLastBytes ==
    ASSUME NEW cs \in ChunkList, cs # <<>>, NEW p \in Seq(Byte), Len(p) <= writable(Last(cs))
    PROVE  ListBytes(WriteLast(cs, p)) = ListBytes(cs) \o p
<1> DEFINE c == WriteChunk(Last(cs), p)
<1>1. /\ cs \in Seq(Chunk) /\ Last(cs) \in Chunk /\ Front(cs) \in Seq(Chunk)
      /\ ListBytes(cs) = ListBytes(Front(cs)) \o Unread(Last(cs))
  BY ListFacts, FrontApart
<1>2. c \in Chunk /\ Unread(c) = Unread(Last(cs)) \o p
  BY <1>1, WriteChunkIsChunk, WriteChunkUnread
<1>3. WriteLast(cs, p) = Append(Front(cs), c)
  BY <1>1, <1>2, AppendIsConcat DEF WriteLast
<1> HIDE DEF c
<1>4. ListBytes(WriteLast(cs, p)) = ListBytes(Front(cs)) \o Unread(c)
  BY <1>1, <1>2, <1>3, ListBytesAppend
<1>5. ListBytes(Front(cs)) \in Seq(Byte) /\ Unread(Last(cs)) \in Seq(Byte)
  BY <1>1, ListBytesType, UnreadType
<1>6. (ListBytes(Front(cs)) \o Unread(Last(cs))) \o p = ListBytes(Front(cs)) \o (Unread(Last(cs)) \o p)
  BY <1>5, ConcatAssociative
<1> QED BY <1>1, <1>2, <1>4, <1>6, Zenon

\* ... a new chunk adds what it was made with, ...
LEMMA NewChunkBytes ==
    ASSUME NEW cs \in ChunkList, NEW p \in Seq(Byte)
    PROVE  ListBytes(Append(cs, NewChunk(p))) = ListBytes(cs) \o p
BY ListFacts, NewChunkIsChunk, NewChunkUnread, ListBytesAppend

\* ... which is nothing when it is only made for its room.
LEMMA WithRoomBytes ==
    ASSUME NEW cs \in ChunkList
    PROVE  ListBytes(WithRoom(cs)) = ListBytes(cs)
<1>1. <<>> \in Seq(Byte) /\ ListBytes(cs) \in Seq(Byte) /\ ListBytes(cs) \o <<>> = ListBytes(cs)
  BY ListFacts, ListBytesType, ConcatEmptySeq
<1> QED BY <1>1, NewChunkBytes DEF WithRoom

\* The same of the list of a Marshal.
LEMMA ListBytesIs ==
    ASSUME NEW cs \in ChunkList
    PROVE  ListBytes(cs) \in Seq(Byte) /\ Len(ListBytes(cs)) \in Nat
BY ListFacts, ListBytesType

\* A head that has nothing to read is alone, and its list has no bytes.
LEMMA NothingLeft ==
    ASSUME NEW cs \in ChunkList, cs # <<>>, content_size(Head(cs)) = 0
    PROVE  ListBytes(cs) = <<>>
<1>1. /\ cs \in Seq(Chunk) /\ Len(cs) \in Nat /\ Len(cs) > 0 /\ Head(cs) = cs[1] /\ Head(cs) \in Chunk
      /\ \A k \in 1 .. Len(cs) - 1 : fully_written(cs[k])
  BY ListFacts
<1>2. ~fully_written(Head(cs))
  <2> DEFINE c == Head(cs)
  <2>1. c \in Chunk /\ content_size(c) = 0
    BY <1>1
  <2> HIDE DEF c
  <2>2. Len(c.data) - c.read_idx = 0 /\ c.read_idx < c.size
        /\ Len(c.data) \in Nat /\ c.read_idx \in Nat /\ c.size \in Nat
    BY <2>1, ChunkFacts DEF content_size
  <2>3. ~fully_written(c)
    BY <2>2 DEF fully_written
  <2> QED BY <2>3 DEF c
<1>3. Len(cs) = 1
  <2>1. CASE Len(cs) > 1
    <3>1. 1 \in 1 .. Len(cs) - 1
      BY <1>1, <2>1
    <3>2. fully_written(cs[1])
      BY <1>1, <3>1
    <3>3. Head(cs) = cs[1]
      BY <1>1
    <3>4. fully_written(Head(cs))
      BY <3>2, <3>3, Zenon
    <3> QED BY <1>2, <3>4, Zenon
  <2> DEFINE n == Len(cs)
  <2>2. n \in Nat /\ n > 0 /\ (n > 1 => n = 1)
    BY <1>1, <2>1
  <2>3. n = 1
    <3> HIDE DEF n
    <3> QED BY <2>2
  <2> QED BY <2>3
<1>4. Tail(cs) = <<>> /\ Tail(cs) \in Seq(Chunk)
  <2> DEFINE t == Tail(cs)
  <2>1. t \in ChunkList /\ Len(t) = Len(cs) - 1
    BY TailIsList
  <2>2. Len(t) = 0
    BY <1>3, <2>1
  <2> HIDE DEF t
  <2>3. t \in Seq(Chunk)
    BY <2>1, ListFacts
  <2>4. t = <<>>
    BY <2>2, <2>3
  <2> QED BY <2>3, <2>4 DEF t
<1>5. Unread(Head(cs)) = <<>>
  <2>1. Unread(Head(cs)) \in Seq(Byte) /\ Len(Unread(Head(cs))) = 0
    BY <1>1, UnreadType
  <2> QED BY <2>1
<1>6. ListBytes(cs) = <<>> \o <<>>
  BY <1>1, <1>4, <1>5, HeadApart, ListBytesEmpty
<1> QED BY <1>6

\* A read of nothing leaves the bytes, even if it deletes the head.
LEMMA ReadNothing ==
    ASSUME NEW cs \in ChunkList, cs # <<>>
    PROVE  ListBytes(ReadHead(cs, 0)) = ListBytes(cs)
<1>1. Head(cs) \in Chunk /\ 0 <= content_size(Head(cs))
  BY ListFacts, ChunkFacts
<1>2. Content(Head(cs), 0) \in Seq(Byte) /\ Len(Content(Head(cs), 0)) = 0
  BY <1>1, ContentIsBytes
<1>3. ReadHead(cs, 0) \in Seq(Chunk)
  BY <1>1, ReadHeadIsList, ListFacts
<1>4. ListBytes(ReadHead(cs, 0)) \in Seq(Byte)
  BY <1>3, ListBytesType
<1>5. Content(Head(cs), 0) = <<>>
  BY <1>2
<1>6. ListBytes(cs) = <<>> \o ListBytes(ReadHead(cs, 0))
  BY <1>1, <1>5, ReadHeadBytes
<1> QED BY <1>4, <1>6, ConcatEmptySeq

-------------------------------------------------------------------------------
(* The places of these bytes, which the pointers of a bookmark name.       *)

\* Where the bytes left to read are: chunk and index of each, in the order of
\* ListBytes.
ChunkPlaces(k, c) == [j \in 1 .. content_size(c) |-> <<k, c.read_idx + j>>]

PlacePieces(cs) == [k \in DOMAIN cs |-> ChunkPlaces(k, cs[k])]

Places(cs) == FlattenSeq(PlacePieces(cs))

Place == Nat \X Nat

\* Three sequences of places joined, from the left or from the right.
LEMMA PlacesAssociate ==
  ASSUME NEW u \in Seq(Place), NEW v \in Seq(Place), NEW w \in Seq(Place)
  PROVE  (u \o v) \o w = u \o (v \o w)
BY ConcatAssociative

\* The places of a chunk, ...
LEMMA ChunkPlacesType ==
    ASSUME NEW k \in Nat, NEW c \in Chunk
    PROVE  /\ ChunkPlaces(k, c) \in Seq(Place) /\ Len(ChunkPlaces(k, c)) = content_size(c)
           /\ \A j \in 1 .. content_size(c) : ChunkPlaces(k, c)[j] = <<k, c.read_idx + j>>
<1>1. content_size(c) \in Nat /\ c.read_idx \in Nat
  BY ChunkFacts
<1>2. \A j \in 1 .. content_size(c) : <<k, c.read_idx + j>> \in Place
  BY <1>1 DEF Place
<1> QED BY <1>1, <1>2, IsASeq DEF ChunkPlaces

\* ... of each chunk, ...
LEMMA PlacePiecesType ==
    ASSUME NEW cs \in Seq(Chunk)
    PROVE  /\ PlacePieces(cs) \in Seq(Seq(Place)) /\ Len(PlacePieces(cs)) = Len(cs)
           /\ \A i \in 1 .. Len(cs) : PlacePieces(cs)[i] = ChunkPlaces(i, cs[i])
<1>1. Len(cs) \in Nat /\ DOMAIN cs = 1 .. Len(cs) /\ \A i \in 1 .. Len(cs) : cs[i] \in Chunk
  OBVIOUS
<1>2. \A i \in 1 .. Len(cs) : ChunkPlaces(i, cs[i]) \in Seq(Place)
  BY <1>1, ChunkPlacesType
<1>3. PlacePieces(cs) = [i \in 1 .. Len(cs) |-> ChunkPlaces(i, cs[i])]
  BY <1>1 DEF PlacePieces
<1> QED BY <1>1, <1>2, <1>3

\* ... and of a list.
LEMMA PlacesType ==
    ASSUME NEW cs \in Seq(Chunk)
    PROVE  Places(cs) \in Seq(Place) /\ Len(Places(cs)) \in Nat
<1>1. Places(cs) \in Seq(Place)
  BY PlacePiecesType, FlattenType DEF Places
<1> QED BY <1>1

\* An empty list has no places.
LEMMA PlacesEmpty == Places(<<>>) = <<>>
<1>1. PlacePieces(<<>>) = <<>>
  BY DEF PlacePieces
<1> QED BY <1>1, FlattenEmpty DEF Places

\* A chunk behind the list adds its places behind.
LEMMA PlacesAppend ==
    ASSUME NEW cs \in Seq(Chunk), NEW c \in Chunk
    PROVE  Places(Append(cs, c)) = Places(cs) \o ChunkPlaces(Len(cs) + 1, c)
<1> DEFINE ds == Append(cs, c)
           n == Len(cs)
           x == ChunkPlaces(n + 1, c)
<1>1. /\ ds \in Seq(Chunk) /\ Len(ds) = n + 1 /\ n \in Nat /\ n = Len(cs)
      /\ ds[n + 1] = c /\ \A i \in 1 .. n : ds[i] = cs[i]
  BY AppendProperties
<1>2. x \in Seq(Place)
  BY <1>1, ChunkPlacesType
<1> HIDE DEF ds, n
<1>3. PlacePieces(ds) = Append(PlacePieces(cs), x)
  <2>1. /\ PlacePieces(ds) \in Seq(Seq(Place)) /\ Len(PlacePieces(ds)) = n + 1
        /\ \A i \in 1 .. n : PlacePieces(ds)[i] = ChunkPlaces(i, cs[i])
        /\ PlacePieces(ds)[n + 1] = x
    <3>1. /\ PlacePieces(ds) \in Seq(Seq(Place)) /\ Len(PlacePieces(ds)) = n + 1
          /\ \A i \in 1 .. n + 1 : PlacePieces(ds)[i] = ChunkPlaces(i, ds[i])
      BY <1>1, PlacePiecesType
    <3>2. 1 .. n \subseteq 1 .. n + 1 /\ n + 1 \in 1 .. n + 1
      BY <1>1
    <3> QED BY <1>1, <3>1, <3>2
  <2>2. /\ PlacePieces(cs) \in Seq(Seq(Place)) /\ Len(PlacePieces(cs)) = n
        /\ \A i \in 1 .. n : PlacePieces(cs)[i] = ChunkPlaces(i, cs[i])
    BY <1>1, PlacePiecesType
  <2> HIDE DEF x
  <2>3. /\ Append(PlacePieces(cs), x) \in Seq(Seq(Place))
        /\ Len(Append(PlacePieces(cs), x)) = n + 1
        /\ \A i \in 1 .. n : Append(PlacePieces(cs), x)[i] = ChunkPlaces(i, cs[i])
        /\ Append(PlacePieces(cs), x)[n + 1] = x
    BY <1>2, <2>2, AppendProperties
  <2>4. \A i \in 1 .. n + 1 : PlacePieces(ds)[i] = Append(PlacePieces(cs), x)[i]
    BY <1>1, <2>1, <2>3
  <2> QED BY <2>1, <2>3, <2>4, SeqEqual
<1>4. Places(ds) = Places(cs) \o x
  <2> HIDE DEF x
  <2> QED BY <1>2, <1>3, PlacePiecesType, FlattenAppend DEF Places
<1> QED BY <1>4 DEF ds, n

\* The place p in the list cs has the byte x.
Stands(cs, p, x) ==
    /\ p[1] \in 1 .. Len(cs)
    /\ p[2] \in 1 .. Len(cs[p[1]].data)
    /\ x = cs[p[1]].data[p[2]]

\* A place for each byte, in order, and no place twice.
PlacesOK(cs) ==
    /\ Len(ListBytes(cs)) = Len(Places(cs))
    /\ \A i \in 1 .. Len(Places(cs)) : Stands(cs, Places(cs)[i], ListBytes(cs)[i])
    /\ \A i, j \in 1 .. Len(Places(cs)) : Places(cs)[i] = Places(cs)[j] => i = j

\* One more chunk keeps that, ...
LEMMA PlacesOKAppend ==
    ASSUME NEW cs \in Seq(Chunk), NEW c \in Chunk, PlacesOK(cs)
    PROVE  PlacesOK(Append(cs, c))
<1> DEFINE ds == Append(cs, c)
           n == Len(cs)
           P == Places(cs)
           L == ListBytes(cs)
           x == ChunkPlaces(n + 1, c)
           u == Unread(c)
           PP == Places(ds)
           LL == ListBytes(ds)
           m == Len(P)
           k == content_size(c)
<1>1. /\ Len(ds) = n + 1 /\ n \in Nat
      /\ ds[n + 1] = c /\ \A i \in 1 .. n : ds[i] = cs[i]
  BY AppendProperties
<1>2. /\ x \in Seq(Place) /\ Len(x) = k /\ k \in Nat /\ c.read_idx \in Nat
      /\ \A j \in 1 .. k : x[j] = <<n + 1, c.read_idx + j>>
  BY <1>1, ChunkPlacesType, ChunkFacts
<1>3. /\ u \in Seq(Byte) /\ Len(u) = k /\ Len(c.data) = c.read_idx + k
      /\ \A j \in 1 .. k : u[j] = c.data[c.read_idx + j]
  BY UnreadAt
<1>4. /\ P \in Seq(Place) /\ L \in Seq(Byte) /\ m \in Nat /\ Len(P) = m /\ Len(L) = m
      /\ \A i \in 1 .. m : Stands(cs, P[i], L[i])
      /\ \A i, j \in 1 .. m : P[i] = P[j] => i = j
  BY PlacesType, ListBytesType DEF PlacesOK
<1>5. PP = P \o x /\ LL = L \o u
  BY PlacesAppend, ListBytesAppend
<1> HIDE DEF ds, n, P, L, x, u, PP, LL, m, k
<1>6. /\ Len(PP) = m + k
      /\ \A i \in 1 .. m : PP[i] = P[i]
      /\ \A j \in 1 .. k : PP[m + j] = x[j]
  <2>1. Joins(P \o x, P, x)
    BY <1>2, <1>4, ConcatJoins
  <2> QED BY <1>2, <1>4, <1>5, <2>1 DEF Joins
<1>7. /\ Len(LL) = m + k
      /\ \A i \in 1 .. m : LL[i] = L[i]
      /\ \A j \in 1 .. k : LL[m + j] = u[j]
  <2>1. Joins(L \o u, L, u)
    BY <1>3, <1>4, ConcatJoins
  <2> QED BY <1>2, <1>3, <1>4, <1>5, <2>1 DEF Joins
<1>8. ASSUME NEW i \in 1 .. m
      PROVE  Stands(ds, PP[i], LL[i]) /\ PP[i][1] <= n
  <2>1. PP[i] = P[i] /\ LL[i] = L[i] /\ Stands(cs, P[i], L[i])
    BY <1>4, <1>6, <1>7
  <2>2. P[i][1] \in 1 .. n /\ n = Len(cs)
    BY <2>1 DEF Stands, n
  <2>3. ds[P[i][1]] = cs[P[i][1]] /\ P[i][1] \in 1 .. Len(ds)
    BY <1>1, <2>2
  <2> QED BY <1>1, <2>1, <2>2, <2>3 DEF Stands
<1>9. ASSUME NEW j \in 1 .. k
      PROVE  Stands(ds, PP[m + j], LL[m + j]) /\ PP[m + j] = <<n + 1, c.read_idx + j>>
  <2>1. PP[m + j] = <<n + 1, c.read_idx + j>> /\ LL[m + j] = c.data[c.read_idx + j]
    BY <1>2, <1>3, <1>6, <1>7
  <2>2. n + 1 \in 1 .. Len(ds) /\ ds[n + 1] = c /\ c.read_idx + j \in 1 .. Len(c.data)
    BY <1>1, <1>2, <1>3
  <2> QED BY <2>1, <2>2 DEF Stands
<1>10. ASSUME NEW i \in 1 .. m + k, ~(i <= m)
       PROVE  i - m \in 1 .. k /\ i = m + (i - m)
  BY <1>2, <1>4, <1>10
<1>11. ASSUME NEW i \in 1 .. m + k PROVE Stands(ds, PP[i], LL[i])
  <2>1. CASE i <= m
    BY <1>4, <1>8, <2>1
  <2>2. CASE ~(i <= m)
    BY <1>9, <1>10, <2>2
  <2> QED BY <2>1, <2>2
<1>12. ASSUME NEW i \in 1 .. m + k, NEW j \in 1 .. m + k, PP[i] = PP[j] PROVE i = j
  <2>1. CASE i <= m /\ j <= m
    <3>1. i \in 1 .. m /\ j \in 1 .. m
      BY <1>4, <2>1
    <3> QED BY <1>4, <1>6, <1>12, <3>1
  <2>2. CASE i <= m /\ ~(j <= m)
    <3>1. i \in 1 .. m /\ PP[i][1] <= n
      BY <1>4, <1>8, <2>2
    <3>2. PP[j][1] = n + 1
      BY <1>9, <1>10, <2>2
    <3> QED BY <1>1, <1>12, <3>1, <3>2
  <2>3. CASE ~(i <= m) /\ j <= m
    <3>1. j \in 1 .. m /\ PP[j][1] <= n
      BY <1>4, <1>8, <2>3
    <3>2. PP[i][1] = n + 1
      BY <1>9, <1>10, <2>3
    <3> QED BY <1>1, <1>12, <3>1, <3>2
  <2>4. CASE ~(i <= m) /\ ~(j <= m)
    <3>1. PP[i][2] = c.read_idx + (i - m) /\ PP[j][2] = c.read_idx + (j - m)
      BY <1>9, <1>10, <2>4
    <3> QED BY <1>2, <1>4, <1>12, <3>1
  <2> QED BY <2>1, <2>2, <2>3, <2>4
<1>13. PlacesOK(ds)
  BY <1>6, <1>7, <1>11, <1>12 DEF PlacesOK, PP, LL
<1> QED BY <1>13 DEF ds

\* ... so that it holds of every list, by induction on its length.
LEMMA PlacesAreOK == \A cs \in Seq(Chunk) : PlacesOK(cs)
<1> DEFINE T == {n \in Nat : \A cs \in Seq(Chunk) : Len(cs) = n => PlacesOK(cs)}
<1>1. 0 \in T
  <2>1. PlacesOK(<<>>)
    BY PlacesEmpty, ListBytesEmpty DEF PlacesOK
  <2>2. \A cs \in Seq(Chunk) : Len(cs) = 0 => cs = <<>>
    OBVIOUS
  <2> QED BY <2>1, <2>2
<1>2. ASSUME NEW n \in T \cap Nat PROVE n + 1 \in T
  <2>1. ASSUME NEW cs \in Seq(Chunk), Len(cs) = n + 1 PROVE PlacesOK(cs)
    <3>1. n \in Nat
      OBVIOUS
    <3>2. PICK bs \in Seq(Chunk), c \in Chunk : cs = Append(bs, c)
      BY <2>1, <3>1, LastApart
    <3>3. Len(bs) = n
      BY <2>1, <3>1, <3>2, AppendProperties
    <3> QED BY <3>2, <3>3, PlacesOKAppend
  <2> QED BY <2>1
<1>3. Nat \subseteq T
  <2> HIDE DEF T
  <2> QED BY <1>1, <1>2, Induction
<1>4. ASSUME NEW cs \in Seq(Chunk) PROVE PlacesOK(cs)
  <2>1. Len(cs) \in Nat
    OBVIOUS
  <2> QED BY <1>3, <2>1
<1> QED BY <1>4

\* The places of consecutive bytes of a chunk.
LEMMA RowOfPlaces ==
    ASSUME NEW k \in Nat, NEW e \in Nat, NEW l \in Nat
    PROVE  LET y == [j \in 1 .. l |-> <<k, e + j>>] IN
           y \in Seq(Place) /\ Len(y) = l /\ \A j \in 1 .. l : y[j] = <<k, e + j>>
<1>1. \A j \in 1 .. l : <<k, e + j>> \in Place
  BY DEF Place
<1> QED BY <1>1, IsASeq

\* A chunk without content has no places.
LEMMA WithRoomPlaces ==
    ASSUME NEW cs \in ChunkList
    PROVE  Places(WithRoom(cs)) = Places(cs)
<1> DEFINE c == NewChunk(<<>>)
           t == ChunkPlaces(Len(cs) + 1, c)
<1>1. c \in Chunk /\ content_size(c) = 0
  <2>1. <<>> \in Seq(Byte)
    OBVIOUS
  <2>2. c.data = <<>> /\ c.read_idx = 0
    BY DEF NewChunk
  <2>3. c \in Chunk
    BY <2>1, NewChunkIsChunk
  <2>4. content_size(c) = Len(<<>>) - 0
    BY <2>2, Zenon DEF content_size
  <2> QED BY <2>3, <2>4
<1>2. cs \in Seq(Chunk) /\ Len(cs) \in Nat
  BY ListFacts
<1>3. t \in Seq(Place) /\ Len(t) = 0
  BY <1>1, <1>2, ChunkPlacesType
<1>4. Places(Append(cs, c)) = Places(cs) \o t
  BY <1>1, <1>2, PlacesAppend
<1>5. t = <<>> /\ Places(cs) \in Seq(Place)
  BY <1>2, <1>3, PlacesType
<1> HIDE DEF t
<1>6. Places(cs) \o t = Places(cs)
  BY <1>5, ConcatEmptySeq
<1> QED BY <1>4, <1>6 DEF WithRoom

\* The places of bytes written to the last chunk of cs.
NewPlaces(cs, p) == [j \in 1 .. Len(p) |-> <<Len(cs), Len(Last(cs).data) + j>>]

\* A write adds the places of its bytes to those of the chunk ...
LEMMA WriteChunkPlaces ==
    ASSUME NEW k \in Nat, NEW c \in Chunk, NEW p \in Seq(Byte), Len(p) <= writable(c)
    PROVE  /\ [j \in 1 .. Len(p) |-> <<k, Len(c.data) + j>>] \in Seq(Place)
           /\ ChunkPlaces(k, WriteChunk(c, p))
              = ChunkPlaces(k, c) \o [j \in 1 .. Len(p) |-> <<k, Len(c.data) + j>>]
<1> DEFINE d == WriteChunk(c, p)
           n == content_size(c)
           l == Len(p)
           r == c.read_idx
           e == Len(c.data)
           x == ChunkPlaces(k, c)
           y == [j \in 1 .. l |-> <<k, e + j>>]
           z == ChunkPlaces(k, d)
<1>1. d \in Chunk /\ d.data = c.data \o p /\ d.read_idx = r
  BY WriteChunkIsChunk, ChunkFacts DEF WriteChunk
<1>2. n \in Nat /\ r \in Nat /\ e = r + n /\ l \in Nat /\ c.data \in Seq(Byte)
  BY UnreadAt, ChunkFacts
<1>3. Len(d.data) = r + n + l
  BY <1>1, <1>2, ConcatProperties
<1> HIDE DEF d
<1>4. content_size(d) = n + l
  BY <1>1, <1>2, <1>3 DEF content_size
<1>5. x \in Seq(Place) /\ Len(x) = n /\ \A j \in 1 .. n : x[j] = <<k, r + j>>
  BY ChunkPlacesType
<1>6. z \in Seq(Place) /\ Len(z) = n + l /\ \A j \in 1 .. n + l : z[j] = <<k, r + j>>
  BY <1>1, <1>4, ChunkPlacesType
<1> HIDE DEF n, l, r, e, x, z
<1>7. y \in Seq(Place) /\ Len(y) = l /\ \A j \in 1 .. l : y[j] = <<k, e + j>>
  <2>1. e \in Nat /\ l \in Nat
    BY <1>2
  <2> HIDE DEF y
  <2>2. [j \in 1 .. l |-> <<k, e + j>>] \in Seq(Place)
    BY <2>1, RowOfPlaces
  <2>3. y = [j \in 1 .. l |-> <<k, e + j>>]
    BY DEF y
  <2>4. Len(y) = l
    BY <2>1, <2>3, RowOfPlaces
  <2> QED BY <2>2, <2>3, <2>4
<1> HIDE DEF y
<1>8. Joins(z, x, y)
  <2>1. Len(z) = Len(x) + Len(y)
    BY <1>5, <1>6, <1>7
  <2>2. \A j \in 1 .. Len(x) : z[j] = x[j]
    <3> SUFFICES ASSUME NEW j \in 1 .. n PROVE z[j] = x[j]
      BY <1>5
    <3>1. j \in 1 .. n + l
      BY <1>2
    <3> QED BY <1>5, <1>6, <3>1
  <2>3. \A j \in 1 .. Len(y) : z[Len(x) + j] = y[j]
    <3> SUFFICES ASSUME NEW j \in 1 .. l PROVE z[n + j] = y[j]
      BY <1>5, <1>7
    <3>1. n + j \in 1 .. n + l /\ r + (n + j) = e + j
      BY <1>2
    <3>2. z[n + j] = <<k, r + (n + j)>>
      BY <1>6, <3>1
    <3> QED BY <1>7, <3>1, <3>2
  <2> QED BY <2>1, <2>2, <2>3 DEF Joins
<1>9. z = x \o y
  <2>1. x \o y \in Seq(Place) /\ Joins(x \o y, x, y)
    BY <1>5, <1>7, ConcatJoins
  <2> DEFINE w == x \o y
  <2> HIDE DEF w
  <2>2. w \in Seq(Place) /\ Joins(w, x, y)
    BY <2>1 DEF w
  <2>3. z = w
    BY <1>5, <1>6, <1>7, <1>8, <2>2, JoinsSame
  <2> QED BY <2>3 DEF w
<1> QED BY <1>7, <1>9 DEF x, y, z, d, l, e

\* ... and of the list, ...
LEMMA WriteLastPlaces ==
    ASSUME NEW cs \in ChunkList, cs # <<>>, NEW p \in Seq(Byte), Len(p) <= writable(Last(cs))
    PROVE  /\ NewPlaces(cs, p) \in Seq(Place)
           /\ Places(WriteLast(cs, p)) = Places(cs) \o NewPlaces(cs, p)
<1> DEFINE c == Last(cs)
           d == WriteChunk(c, p)
           fs == Front(cs)
           n == Len(cs)
           y == NewPlaces(cs, p)
<1>1. /\ cs \in Seq(Chunk) /\ c \in Chunk /\ fs \in Seq(Chunk) /\ n \in Nat /\ Len(fs) + 1 = n
      /\ cs = Append(fs, c)
  <2>1. cs \in Seq(Chunk) /\ n \in Nat /\ n > 0 /\ \A k \in 1 .. n : cs[k] \in Chunk
    BY ListFacts
  <2>2. c \in Chunk /\ fs \in Seq(Chunk) /\ Len(fs) = n - 1
    BY <2>1, FrontApart
  <2>3. cs = Append(fs, c)
    BY <2>1, FrontApart
  <2> QED BY <2>1, <2>2, <2>3
<1>2. d \in Chunk
  BY <1>1, WriteChunkIsChunk
<1>3. WriteLast(cs, p) = Append(fs, d)
  BY <1>1, <1>2, AppendIsConcat DEF WriteLast
<1>4. /\ Places(cs) = Places(fs) \o ChunkPlaces(n, c)
      /\ Places(WriteLast(cs, p)) = Places(fs) \o ChunkPlaces(n, d)
  BY <1>1, <1>2, <1>3, PlacesAppend
<1>5. y \in Seq(Place) /\ ChunkPlaces(n, d) = ChunkPlaces(n, c) \o y
  BY <1>1, WriteChunkPlaces DEF NewPlaces
<1>6. Places(fs) \in Seq(Place) /\ ChunkPlaces(n, c) \in Seq(Place)
  BY <1>1, PlacesType, ChunkPlacesType
<1>7. (Places(fs) \o ChunkPlaces(n, c)) \o y = Places(fs) \o (ChunkPlaces(n, c) \o y)
  BY <1>5, <1>6, ConcatAssociative
<1> QED BY <1>4, <1>5, <1>7, Zenon

\* ... and so does a chunk that is pushed.
LEMMA PushPlaces ==
    ASSUME NEW cs \in ChunkList, NEW c \in Chunk
    PROVE  \E t \in Seq(Place) : Places(Append(cs, c)) = Places(cs) \o t
<1>1. cs \in Seq(Chunk) /\ Len(cs) + 1 \in Nat
  BY ListFacts
<1>2. ChunkPlaces(Len(cs) + 1, c) \in Seq(Place)
  BY <1>1, ChunkPlacesType
<1> QED BY <1>1, <1>2, PlacesAppend

\* write_bookmark moves nothing.
LEMMA PatchedPlaces ==
    ASSUME NEW cs \in Seq(Chunk), NEW ds \in Seq(Chunk), Len(ds) = Len(cs),
           \A k \in 1 .. Len(cs) : ds[k].read_idx = cs[k].read_idx /\ Len(ds[k].data) = Len(cs[k].data)
    PROVE  Places(ds) = Places(cs)
<1>1. \A k \in 1 .. Len(cs) : ChunkPlaces(k, ds[k]) = ChunkPlaces(k, cs[k])
  BY DEF ChunkPlaces, content_size
<1>2. DOMAIN ds = 1 .. Len(cs) /\ DOMAIN cs = 1 .. Len(cs)
  OBVIOUS
<1>3. PlacePieces(ds) = PlacePieces(cs)
  BY <1>1, <1>2 DEF PlacePieces
<1> QED BY <1>3 DEF Places

\* Nothing more is a way to grow.
LEMMA SamePlaces ==
    ASSUME NEW cs \in ChunkList
    PROVE  \E t \in Seq(Place) : Places(cs) = Places(cs) \o t
<1>1. Places(cs) \in Seq(Place) /\ <<>> \in Seq(Place)
  BY ListFacts, PlacesType
<1> QED BY <1>1, ConcatEmptySeq

-------------------------------------------------------------------------------
(* The invariant, and the queues in a state and in the next.               *)

\* The calls that take bytes from a Marshal, that give bytes to one, and that ask
\* for a number of bytes.
Takes == {"read", "write_to_fd", "read_from_marshal"}
Gives == {"read_from_marshal", "read_from_fd", "set_bookmark"}
Limited == {"read", "peek", "read_from_marshal", "set_bookmark"}

\* The chunks of a list behind the first k.
From(cs, k) == SubSeq(cs, k + 1, Len(cs))

\* What the running call has done: it moved no more than was asked for; what it
\* gave is at the end of the list it gives to, what it copied in front of the list
\* it peeks into; and what set_bookmark reserves are reserved bytes.
CallEffect ==
    /\ call.op = "none" => call = Idle
    /\ call.op \in Limited => Len(call.bytes) <= call.n
    /\ call.op \in Gives => \E g \in Seq(Byte) : ListBytes(chunk_[call.m]) = g \o call.bytes
    /\ call.op = "set_bookmark" => \A i \in DOMAIN call.bytes : call.bytes[i] = Hole
    /\ call.op = "peek" =>
          \E g \in Seq(Byte) :
              /\ ListBytes(chunk_[call.m]) = call.bytes \o g
              /\ Len(call.bytes) < call.n => g = ListBytes(From(chunk_[call.m], call.at))

\* The pointers of the bookmark are places of bytes that follow one another, the
\* last ones of the list while set_bookmark runs.
MarkPlaces ==
    /\ call.op = "set_bookmark" =>
          \E f \in Seq(Place) : Places(chunk_[call.m]) = f \o bmark.ptr
    /\ \A m \in Marshals : m = bmark.m =>
          \E f, g \in Seq(Place) : Places(chunk_[m]) = (f \o bmark.ptr) \o g

\* BookInv alone does not say where in the queue the bytes of a call are.
QueueInv == BookInv /\ CallEffect /\ MarkPlaces

\* Queue(m) of the call cl when the chunks of m have the bytes b.
QueueOf(cl, b, m) ==
    CASE cl.op \in Takes /\ cl.from = m -> cl.bytes \o b
      [] cl.op \in Gives /\ cl.m = m -> SubSeq(b, 1, Len(b) - Len(cl.bytes))
      [] OTHER -> b

\* Queue(m) is QueueOf, in a state and in the next.
LEMMA QueueIs ==
    ASSUME NEW m
    PROVE  /\ Queue(m) = QueueOf(call, ListBytes(chunk_[m]), m)
           /\ Queue(m)' = QueueOf(call', ListBytes(chunk_'[m]), m)
BY DEF Queue, QueueOf, Bytes, ListBytes, Pieces, Unread, Takes, Gives

\* The queue of the Marshal that a call takes from, ...
LEMMA QueueTakes ==
    ASSUME NEW cl, NEW b, NEW m, cl.op \in Takes, cl.from = m, cl.op \in Gives => cl.m # m
    PROVE  QueueOf(cl, b, m) = cl.bytes \o b
BY DEF QueueOf

\* ... of the one that it gives to, ...
LEMMA QueueGives ==
    ASSUME NEW cl, NEW b, NEW m, cl.op \in Gives, cl.m = m, cl.op \in Takes => cl.from # m,
           cl.bytes \in Seq(Byte), NEW g \in Seq(Byte), b = g \o cl.bytes
    PROVE  QueueOf(cl, b, m) = g
<1>1. QueueOf(cl, b, m) = SubSeq(b, 1, Len(b) - Len(cl.bytes))
  BY DEF QueueOf
<1> QED BY <1>1, FrontOfConcat

\* ... of one that it does not use, ...
LEMMA QueueSame ==
    ASSUME NEW cl, NEW b, NEW m, cl.op \in Takes => cl.from # m, cl.op \in Gives => cl.m # m
    PROVE  QueueOf(cl, b, m) = b
BY DEF QueueOf

\* ... and of any, when the call has moved nothing.
LEMMA QueueStarts ==
    ASSUME NEW cl, NEW b \in Seq(Byte), NEW m, cl.bytes = <<>>
    PROVE  QueueOf(cl, b, m) = b
<1>1. <<>> \o b = b /\ SubSeq(b, 1, Len(b) - Len(<<>>)) = b
  <2>1. <<>> \in Seq(Byte) /\ <<>> \o b = b /\ b \o <<>> = b
    BY ConcatEmptySeq
  <2>2. SubSeq(b \o <<>>, 1, Len(b \o <<>>) - Len(<<>>)) = b
    BY <2>1, FrontOfConcat
  <2> QED BY <2>1, <2>2
<1> QED BY <1>1, Zenon DEF QueueOf

\* A Marshal that the call does not use keeps its queue.
LEMMA OtherQueue ==
    ASSUME NEW m \in Marshals, m # call.m, m # call.from, m # call'.m, m # call'.from,
           chunk_'[m] = chunk_[m]
    PROVE  Queue(m)' = Queue(m)
BY QueueIs, QueueSame

\* The queue of the Marshal that the call takes from, now and next; ...
LEMMA TakenQueue ==
    ASSUME NEW m, call.op \in Takes, call.from = m, call.op \in Gives => call.m # m
    PROVE  Queue(m) = call.bytes \o ListBytes(chunk_[m])
<1>1. QueueOf(call, ListBytes(chunk_[m]), m) = call.bytes \o ListBytes(chunk_[m])
  BY QueueTakes
<1>2. Queue(m) = QueueOf(call, ListBytes(chunk_[m]), m)
  BY QueueIs
<1> QED BY <1>1, <1>2, Zenon

\* ... the same in the next state; ...
LEMMA TakenQueueNext ==
    ASSUME NEW m, call'.op \in Takes, call'.from = m, call'.op \in Gives => call'.m # m
    PROVE  Queue(m)' = call'.bytes \o ListBytes(chunk_'[m])
<1>1. QueueOf(call', ListBytes(chunk_'[m]), m) = call'.bytes \o ListBytes(chunk_'[m])
  BY QueueTakes
<1>2. Queue(m)' = QueueOf(call', ListBytes(chunk_'[m]), m)
  BY QueueIs
<1> QED BY <1>1, <1>2, Zenon

\* ... of the Marshal that it gives to; ...
LEMMA GivenQueue ==
    ASSUME NEW m, call.op \in Gives, call.m = m, call.op \in Takes => call.from # m,
           call.bytes \in Seq(Byte), NEW g \in Seq(Byte), ListBytes(chunk_[m]) = g \o call.bytes
    PROVE  Queue(m) = g
<1>1. QueueOf(call, ListBytes(chunk_[m]), m) = g
  BY QueueGives
<1>2. Queue(m) = QueueOf(call, ListBytes(chunk_[m]), m)
  BY QueueIs
<1> QED BY <1>1, <1>2, Zenon

\* ... the same in the next state; ...
LEMMA GivenQueueNext ==
    ASSUME NEW m, call'.op \in Gives, call'.m = m, call'.op \in Takes => call'.from # m,
           call'.bytes \in Seq(Byte), NEW g \in Seq(Byte), ListBytes(chunk_'[m]) = g \o call'.bytes
    PROVE  Queue(m)' = g
<1>1. QueueOf(call', ListBytes(chunk_'[m]), m) = g
  BY QueueGives
<1>2. Queue(m)' = QueueOf(call', ListBytes(chunk_'[m]), m)
  BY QueueIs
<1> QED BY <1>1, <1>2, Zenon

\* ... and of a Marshal that it does not use.
LEMMA UnusedQueue ==
    ASSUME NEW m, call.op \in Takes => call.from # m, call.op \in Gives => call.m # m
    PROVE  Queue(m) = ListBytes(chunk_[m])
<1>1. QueueOf(call, ListBytes(chunk_[m]), m) = ListBytes(chunk_[m])
  BY QueueSame
<1>2. Queue(m) = QueueOf(call, ListBytes(chunk_[m]), m)
  BY QueueIs
<1> QED BY <1>1, <1>2, Zenon

\* The same in the next state.
LEMMA UnusedQueueNext ==
    ASSUME NEW m, call'.op \in Takes => call'.from # m, call'.op \in Gives => call'.m # m
    PROVE  Queue(m)' = ListBytes(chunk_'[m])
<1>1. QueueOf(call', ListBytes(chunk_'[m]), m) = ListBytes(chunk_'[m])
  BY QueueSame
<1>2. Queue(m)' = QueueOf(call', ListBytes(chunk_'[m]), m)
  BY QueueIs
<1> QED BY <1>1, <1>2, Zenon

\* No call runs: every queue is what the chunks have, ...
LEMMA IdleQueue ==
    ASSUME call = Idle, NEW m
    PROVE  Queue(m) = ListBytes(chunk_[m])
<1>1. call.op \notin Takes /\ call.op \notin Gives
  BY DEF Idle, Takes, Gives
<1> QED BY <1>1, UnusedQueue

\* ... and in the next state.
LEMMA IdleQueueNext ==
    ASSUME call' = Idle, NEW m
    PROVE  Queue(m)' = ListBytes(chunk_'[m])
<1>1. call'.op \notin Takes /\ call'.op \notin Gives
  BY DEF Idle, Takes, Gives
<1> QED BY <1>1, UnusedQueueNext

\* A call that has returned: every queue is what the chunks have.
LEMMA ReturnedQueue ==
    ASSUME NEW m \in Marshals, Returns
    PROVE  Queue(m)' = ListBytes(chunk_'[m])
<1>1. call'.op \notin Takes /\ call'.op \notin Gives
  BY DEF Returns, Idle, Takes, Gives
<1> QED BY <1>1, QueueIs, QueueSame

\* The front and the rest of a queue.
LEMMA QueueParts ==
    ASSUME NEW m \in Marshals, NEW n
    PROVE  /\ BQ!First(m, n) = SubSeq(Queue(m), 1, BQ!Min({n, Len(Queue(m))}))
           /\ BQ!After(m, n) = SubSeq(Queue(m), n + 1, Len(Queue(m)))
<1>1. [x \in Marshals |-> Queue(x)][m] = Queue(m)
  OBVIOUS
<1> QED BY <1>1, Zenon DEF BQ!First, BQ!After

\* The queues are the same when each of them is.
LEMMA SameQueues ==
    ASSUME \A m \in Marshals : Queue(m)' = Queue(m)
    PROVE  [m \in Marshals |-> Queue(m)]' = [m \in Marshals |-> Queue(m)]
OBVIOUS

\* The queues in the next state, one of them new.
LEMMA OneQueue ==
    ASSUME NEW m \in Marshals, NEW v, Queue(m)' = v, \A x \in Marshals \ {m} : Queue(x)' = Queue(x)
    PROVE  [x \in Marshals |-> Queue(x)]' = [[x \in Marshals |-> Queue(x)] EXCEPT ![m] = v]
OBVIOUS

\* CallEffect in the next state.
LEMMA NextEffect ==
    ASSUME call'.op = "none" => call' = Idle,
           call'.op \in Limited => Len(call'.bytes) <= call'.n,
           call'.op \in Gives => \E g \in Seq(Byte) : ListBytes(chunk_'[call'.m]) = g \o call'.bytes,
           call'.op = "set_bookmark" => \A i \in DOMAIN call'.bytes : call'.bytes[i] = Hole,
           call'.op = "peek" =>
               \E g \in Seq(Byte) :
                   /\ ListBytes(chunk_'[call'.m]) = call'.bytes \o g
                   /\ Len(call'.bytes) < call'.n => g = ListBytes(From(chunk_'[call'.m], call'.at))
    PROVE  CallEffect'
BY DEF CallEffect, ListBytes, Pieces, Unread, Content, content_size, From

\* A call that has returned has no effect to come.
LEMMA IdleEffect ==
    ASSUME call' = Idle
    PROVE  CallEffect'
<1>1. call'.op = "none"
  BY DEF Idle
<1> QED BY <1>1, NextEffect DEF Limited, Gives

\* Bookmarks stay where they are when their Marshal grows.
LEMMA MarksStay ==
    ASSUME MarkPlaces, MarshalInv, UNCHANGED bmark, call'.op # "set_bookmark",
           \A m \in Marshals : m = bmark.m =>
               \E t \in Seq(Place) : Places(chunk_'[m]) = Places(chunk_[m]) \o t
    PROVE  MarkPlaces'
<1>1. ASSUME NEW m \in Marshals, m = bmark'.m
      PROVE  \E f, g \in Seq(Place) : Places(chunk_'[m]) = (f \o bmark'.ptr) \o g
  <2>1. PICK f \in Seq(Place), g \in Seq(Place) : Places(chunk_[m]) = (f \o bmark.ptr) \o g
    BY <1>1 DEF MarkPlaces
  <2>2. PICK t \in Seq(Place) : Places(chunk_'[m]) = Places(chunk_[m]) \o t
    BY <1>1
  <2>3. f \o bmark.ptr \in Seq(Place)
    <3>1. bmark.ptr \in Seq(Place)
      BY DEF MarshalInv, Place
    <3> QED BY <3>1, ConcatProperties
  <2>4. g \o t \in Seq(Place) /\ ((f \o bmark.ptr) \o g) \o t = (f \o bmark.ptr) \o (g \o t)
    <3> DEFINE p == f \o bmark.ptr
    <3>1. p \in Seq(Place)
      BY <2>3
    <3> HIDE DEF p
    <3>2. (p \o g) \o t = p \o (g \o t)
      BY <3>1, ConcatAssociative
    <3> QED BY <3>2 DEF p
  <2> QED BY <2>1, <2>2, <2>4
<1>2. MarkPlaces' <=>
        /\ call'.op = "set_bookmark" =>
              \E f \in Seq(Place) : Places(chunk_'[call'.m]) = f \o bmark'.ptr
        /\ \A m \in Marshals : m = bmark'.m =>
              \E f, g \in Seq(Place) : Places(chunk_'[m]) = (f \o bmark'.ptr) \o g
  BY DEF MarkPlaces, Places, PlacePieces, ChunkPlaces, content_size
<1> QED BY <1>1, <1>2

\* The facts every step of a running call starts from.
LEMMA RunningFacts ==
    ASSUME QueueInv, call.op # "none"
    PROVE  /\ MarshalInv /\ CallOK /\ Marks /\ MarkPlaces /\ CallEffect /\ supplied \in Nat
           /\ call.m \in Marshals /\ call.from \in Marshals /\ call.n \in Nat /\ call.at \in Nat
           /\ chunk_ \in [Marshals -> ChunkList]
           /\ chunk_[call.m] \in ChunkList /\ chunk_[call.from] \in ChunkList
           /\ call.bytes \in Seq(Byte) /\ Len(call.bytes) \in Nat
<1>1. MarshalInv /\ CallOK /\ Marks /\ MarkPlaces /\ CallEffect
  BY DEF QueueInv, BookInv, MarshalInv
<1>2. /\ call.m \in Marshals /\ call.from \in Marshals /\ call.n \in Nat /\ call.at \in Nat
      /\ call.bytes \in Seq(Byte)
  BY <1>1 DEF CallOK
<1> QED BY <1>1, <1>2 DEF MarshalInv

\* A step of a loop adds what it moved.
LEMMA MovedIs ==
    ASSUME CallOK, NEW p \in Seq(Byte), Moved(p)
    PROVE  /\ call'.op = call.op /\ call'.m = call.m /\ call'.from = call.from
           /\ call'.n = call.n /\ call'.bytes = call.bytes \o p /\ call'.at = call.at + 1
           /\ call'.bytes \in Seq(Byte) /\ Len(call'.bytes) = Len(call.bytes) + Len(p)
           /\ Len(p) \in Nat /\ Len(call.bytes) \in Nat /\ call.bytes \in Seq(Byte)
<1>1. call.bytes \in Seq(Byte)
  BY DEF CallOK
<1>2. call.bytes \o p \in Seq(Byte) /\ Len(call.bytes \o p) = Len(call.bytes) + Len(p)
  BY <1>1, ConcatProperties
<1>3. /\ call'.op = call.op /\ call'.m = call.m /\ call'.from = call.from
      /\ call'.n = call.n /\ call'.bytes = call.bytes \o p /\ call'.at = call.at + 1
  BY DEF CallOK, Moved
<1> QED BY <1>1, <1>2, <1>3

\* A step that keeps every queue is progress of the call.
LEMMA ProgressStep ==
    ASSUME QueueInv, call.op # "none", NEW p \in Seq(Byte), Moved(p),
           \A m \in Marshals : Queue(m)' = Queue(m),
           IF call.op = "read_from_fd"
           THEN p = Fresh(Len(p)) /\ supplied' = supplied + Len(p)
           ELSE supplied' = supplied
    PROVE  BQ!Progress
<1>1. CallOK /\ supplied \in Nat
  BY DEF QueueInv, BookInv, MarshalInv
<1>2. /\ call'.op = call.op /\ call'.m = call.m /\ call'.from = call.from
      /\ call'.n = call.n /\ call'.bytes = call.bytes \o p
      /\ Len(call'.bytes) = Len(call.bytes) + Len(p)
      /\ Len(p) \in Nat /\ Len(call.bytes) \in Nat /\ call.bytes \in Seq(Byte)
  BY <1>1, MovedIs
<1>3. SubSeq(call'.bytes, 1, Len(call.bytes)) = call.bytes
  <2>1. /\ SubSeq(call.bytes \o p, 1, Len(call.bytes \o p) - Len(p)) = call.bytes
    BY <1>2, FrontOfConcat
  <2>2. Len(call.bytes \o p) - Len(p) = Len(call.bytes)
    BY <1>2
  <2> QED BY <1>2, <2>1, <2>2
<1>5. [m \in Marshals |-> Queue(m)]' = [m \in Marshals |-> Queue(m)]
  BY SameQueues
<1>6. Len(call.bytes) <= Len(call'.bytes)
  BY <1>2
<1>7. CASE call.op = "read_from_fd"
  <2>1. supplied' - supplied = Len(p) /\ supplied' = supplied + Len(call'.bytes) - Len(call.bytes)
    BY <1>1, <1>2, <1>7
  <2>2. BQ!Fresh(supplied' - supplied) = p
    BY <1>7, <2>1 DEF BQ!Fresh, Fresh
  <2> QED BY <1>2, <1>3, <1>5, <1>6, <1>7, <2>1, <2>2 DEF BQ!Progress, BQ!NoCall
<1>8. CASE call.op # "read_from_fd"
  BY <1>2, <1>3, <1>5, <1>6, <1>8 DEF BQ!Progress, BQ!NoCall
<1> QED BY <1>7, <1>8

-------------------------------------------------------------------------------
(* The calls that read.                                                    *)

\* Reading the head keeps what was taken and what is left together.
LEMMA TakesStep ==
    ASSUME QueueInv, call.op \in {"read", "write_to_fd"}, chunk_[call.m] # <<>>, NEW r \in Nat,
           r <= content_size(Head(chunk_[call.m])), call.op = "read" => r <= Wanted,
           chunk_' = [chunk_ EXCEPT ![call.m] = ReadHead(@, r)],
           Moved(Content(Head(chunk_[call.m]), r)), UNCHANGED <<supplied, bmark>>
    PROVE  CallEffect' /\ MarkPlaces' /\ BQ!Progress
<1> DEFINE m == call.m
           cs == chunk_[m]
           p == Content(Head(cs), r)
<1>1. /\ MarshalInv /\ CallOK /\ Marks /\ MarkPlaces /\ CallEffect
      /\ m \in Marshals /\ chunk_ \in [Marshals -> ChunkList] /\ cs \in ChunkList
      /\ call.bytes \in Seq(Byte) /\ Len(call.bytes) \in Nat /\ call.n \in Nat
  BY RunningFacts
<1>2. call.from = m /\ m # bmark.m
  BY <1>1 DEF CallOK, Marks
<1>3. Head(cs) \in Chunk /\ p \in Seq(Byte) /\ Len(p) = r
  BY <1>1, ListFacts, ContentIsBytes
<1>4. /\ call'.op = call.op /\ call'.m = m /\ call'.from = m
      /\ call'.n = call.n /\ call'.bytes = call.bytes \o p
      /\ Len(call'.bytes) = Len(call.bytes) + r
  BY <1>1, <1>2, <1>3, MovedIs
<1>5. chunk_'[m] = ReadHead(cs, r) /\ \A x \in Marshals \ {m} : chunk_'[x] = chunk_[x]
  BY <1>1
<1>6. ReadHead(cs, r) \in ChunkList /\ ListBytes(cs) = p \o ListBytes(ReadHead(cs, r))
  BY <1>1, ReadHeadIsList, ReadHeadBytes
<1>7. Queue(m)' = Queue(m)
  <2> DEFINE b == ListBytes(ReadHead(cs, r))
  <2>1. b \in Seq(Byte)
    BY <1>6, ListBytesIs
  <2>2. call.op \in Takes /\ call.op \notin Gives
    BY DEF Takes, Gives
  <2>3. Queue(m) = call.bytes \o ListBytes(cs)
    BY <1>2, <2>2, TakenQueue
  <2>4. Queue(m)' = call'.bytes \o ListBytes(chunk_'[m])
    BY <1>4, <2>2, TakenQueueNext
  <2>5. (call.bytes \o p) \o b = call.bytes \o (p \o b)
    <3> DEFINE s == call.bytes
    <3>1. s \in Seq(Byte) /\ p \in Seq(Byte) /\ b \in Seq(Byte)
      BY <1>1, <1>3, <2>1
    <3> HIDE DEF s, p, b
    <3>2. (s \o p) \o b = s \o (p \o b)
      BY <3>1, ConcatAssociative
    <3> QED BY <3>2 DEF s
  <2>6. call'.bytes = call.bytes \o p /\ ListBytes(chunk_'[m]) = b /\ ListBytes(cs) = p \o b
    BY <1>4, <1>5, <1>6
  <2> QED BY <2>3, <2>4, <2>5, <2>6, Zenon
<1>8. \A x \in Marshals : Queue(x)' = Queue(x)
  BY <1>2, <1>4, <1>5, <1>7, OtherQueue
<1>9. MarkPlaces'
  <2>1. \A x \in Marshals : x = bmark.m =>
            \E t \in Seq(Place) : Places(chunk_'[x]) = Places(chunk_[x]) \o t
    BY <1>1, <1>2, <1>5, SamePlaces
  <2> QED BY <1>1, <1>4, <2>1, MarksStay
<1>10. CallEffect'
  <2>1. Wanted = call.n - Len(call.bytes)
    BY DEF Wanted
  <2>2. call'.op \in Limited => Len(call'.bytes) <= call'.n
    <3> DEFINE k == Len(call.bytes)
               l == Len(call'.bytes)
    <3>1. k \in Nat /\ call.n \in Nat /\ l = k + r /\ call'.n = call.n /\ Wanted = call.n - k
      BY <1>1, <1>4, <2>1
    <3>2. call'.op \in Limited => r <= Wanted
      BY <1>4 DEF Limited
    <3> HIDE DEF k, l
    <3>3. r <= Wanted => l <= call'.n
      BY <3>1
    <3> QED BY <3>2, <3>3 DEF l
  <2>3. call'.op \notin Gives /\ call'.op # "none" /\ call'.op # "set_bookmark" /\ call'.op # "peek"
    BY <1>4 DEF Gives
  <2> QED BY <2>2, <2>3, NextEffect
<1>11. BQ!Progress
  <2>1. call.op # "none" /\ call.op # "read_from_fd" /\ supplied' = supplied
    OBVIOUS
  <2> HIDE DEF p
  <2> QED BY <1>3, <1>8, <2>1, ProgressStep DEF p
<1> QED BY <1>9, <1>10, <1>11

\* read and write_to_fd return: what they hand over was the front of the queue.
LEMMA TakesEnd ==
    ASSUME QueueInv, call.op \in {"read", "write_to_fd"}, Returns, UNCHANGED <<supplied, bmark>>,
           NEW ds \in ChunkList, chunk_' = [chunk_ EXCEPT ![call.m] = ds],
           ListBytes(ds) = ListBytes(chunk_[call.m]),
           call.op = "read" => Wanted = 0 \/ ListBytes(chunk_[call.m]) = <<>>
    PROVE  CallEffect' /\ MarkPlaces' /\ (BQ!Read \/ BQ!WriteToFd)
<1>0. PICK m : m = call.m
  OBVIOUS
<1> DEFINE b == ListBytes(chunk_[m])
           s == call.bytes
<1>1. /\ MarshalInv /\ CallOK /\ Marks /\ MarkPlaces /\ CallEffect
      /\ m \in Marshals /\ chunk_ \in [Marshals -> ChunkList] /\ chunk_[m] \in ChunkList
      /\ s \in Seq(Byte) /\ Len(s) \in Nat /\ call.n \in Nat
  BY <1>0, RunningFacts
<1>2. call.from = m /\ m # bmark.m
  BY <1>0, <1>1 DEF CallOK, Marks
<1>3. chunk_'[m] = ds /\ \A x \in Marshals \ {m} : chunk_'[x] = chunk_[x]
  BY <1>0, <1>1
<1>4. b \in Seq(Byte)
  BY <1>1, ListBytesIs
<1>5. Queue(m) = s \o b
  <2>1. call.op \in Takes /\ call.op \notin Gives
    BY DEF Takes, Gives
  <2> QED BY <1>2, <2>1, TakenQueue
<1>6. \A x \in Marshals \ {m} : Queue(x)' = Queue(x)
  <2> SUFFICES ASSUME NEW x \in Marshals \ {m} PROVE Queue(x)' = Queue(x)
    OBVIOUS
  <2>1. Queue(x)' = ListBytes(chunk_[x])
    BY <1>3, ReturnedQueue
  <2>2. Queue(x) = ListBytes(chunk_[x])
    BY <1>0, <1>2, UnusedQueue
  <2> QED BY <2>1, <2>2
<1>7. Queue(m)' = b
  <2>1. Queue(m)' = ListBytes(chunk_'[m])
    BY <1>1, ReturnedQueue
  <2> QED BY <1>0, <1>3, <2>1
<1>8. SubSeq(Queue(m), Len(s) + 1, Len(Queue(m))) = b /\ SubSeq(Queue(m), 1, Len(s)) = s
  <2>1. SubSeq(s \o b, Len(s) + 1, Len(s \o b)) = b /\ SubSeq(s \o b, 1, Len(s)) = s
    <3> HIDE DEF s, b
    <3> QED BY <1>1, <1>4, AfterOfConcat, PrefixOfConcat
  <2> QED BY <1>5, <2>1, Zenon
<1>9. call' = Idle
  BY DEF Returns
<1>10. CallEffect' /\ MarkPlaces'
  <2>1. \A x \in Marshals : x = bmark.m =>
            \E t \in Seq(Place) : Places(chunk_'[x]) = Places(chunk_[x]) \o t
    <3> SUFFICES ASSUME NEW x \in Marshals, x = bmark.m
                 PROVE  \E t \in Seq(Place) : Places(chunk_'[x]) = Places(chunk_[x]) \o t
      OBVIOUS
    <3>1. chunk_'[x] = chunk_[x] /\ chunk_[x] \in ChunkList
      BY <1>1, <1>2, <1>3
    <3> QED BY <3>1, SamePlaces
  <2>2. call'.op # "set_bookmark"
    BY <1>9 DEF Idle
  <2>3. CallEffect'
    BY <1>9, IdleEffect
  <2>4. MarkPlaces'
    BY <1>1, <2>1, <2>2, MarksStay
  <2> QED BY <2>3, <2>4
<1>11. [x \in Marshals |-> Queue(x)]' = [[x \in Marshals |-> Queue(x)] EXCEPT ![m] = b]
  BY <1>1, <1>6, <1>7, OneQueue
<1>13. CASE call.op = "read"
  <2>1. Len(s) <= call.n /\ (call.n = Len(s) \/ b = <<>>)
    BY <1>0, <1>1, <1>13 DEF CallEffect, Limited, Wanted
  <2>2. SubSeq(Queue(m), 1, BQ!Min({call.n, Len(Queue(m))})) = s
    <3>1. SubSeq(s \o b, 1, BQ!Min({call.n, Len(s \o b)})) = s
      <4> HIDE DEF s, b
      <4> QED BY <1>1, <1>4, <2>1, FirstOfConcat
    <3> QED BY <1>5, <3>1, Zenon
  <2>3. BQ!Return("read")
    BY <1>9, <1>13 DEF BQ!Return, BQ!NoCall, Idle
  <2>4. BQ!First(m, call.n) = s /\ BQ!After(m, Len(s)) = b
    BY <1>1, <1>8, <2>2, QueueParts, Zenon
  <2>5. /\ call.bytes = BQ!First(call.m, call.n)
        /\ [x \in Marshals |-> Queue(x)]' =
               [[x \in Marshals |-> Queue(x)] EXCEPT ![call.m] = BQ!After(call.m, Len(call.bytes))]
    BY <1>0, <1>11, <2>4, Zenon
  <2>6. BQ!Read
    BY <2>3, <2>5 DEF BQ!Read
  <2> QED BY <1>10, <2>6
<1>14. CASE call.op = "write_to_fd"
  <2>1. SubSeq(Queue(m), 1, BQ!Min({Len(s), Len(Queue(m))})) = s
    <3> DEFINE k == Len(s)
    <3>1. SubSeq(s \o b, 1, BQ!Min({k, Len(s \o b)})) = s
      <4>1. s \in Seq(Byte) /\ b \in Seq(Byte) /\ k \in Nat /\ Len(s) <= k /\ k = Len(s)
        BY <1>1, <1>4
      <4> HIDE DEF s, b, k
      <4> QED BY <4>1, FirstOfConcat
    <3> QED BY <1>5, <3>1, Zenon
  <2>3. BQ!Return("write_to_fd")
    BY <1>9, <1>14 DEF BQ!Return, BQ!NoCall, Idle
  <2>4. BQ!First(m, Len(s)) = s /\ BQ!After(m, Len(s)) = b
    BY <1>1, <1>8, <2>1, QueueParts, Zenon
  <2>5. /\ call.bytes = BQ!First(call.m, Len(call.bytes))
        /\ [x \in Marshals |-> Queue(x)]' =
               [[x \in Marshals |-> Queue(x)] EXCEPT ![call.m] = BQ!After(call.m, Len(call.bytes))]
    BY <1>0, <1>11, <2>4, Zenon
  <2>6. BQ!WriteToFd
    BY <2>3, <2>5 DEF BQ!WriteToFd
  <2> QED BY <1>10, <2>6
<1> QED BY <1>10, <1>13, <1>14

\* Marshal::read, a step of the loop and the return; ...
LEMMA ReadQueue ==
    ASSUME QueueInv, ReadLoop \/ ReadEnd
    PROVE  CallEffect' /\ MarkPlaces' /\ (BQ!Read \/ BQ!WriteToFd \/ BQ!Progress)
<1>1. call.op = "read" /\ UNCHANGED <<supplied, bmark>>
  BY DEF ReadLoop, ReadEnd, Running
<1>2. /\ MarshalInv /\ CallOK /\ call.m \in Marshals /\ chunk_[call.m] \in ChunkList
      /\ chunk_ \in [Marshals -> ChunkList]
  BY <1>1, RunningFacts
<1>3. call.from = call.m
  BY <1>1, <1>2 DEF CallOK
<1>4. /\ Wanted \in Int
      /\ chunk_[call.m] # <<>> =>
            /\ Head(chunk_[call.m]) \in Chunk
            /\ content_size(Head(chunk_[call.m])) \in Nat
            /\ ReadSize \in Int /\ ReadSize <= content_size(Head(chunk_[call.m])) /\ ReadSize <= Wanted
            /\ ReadSize = 0 => Wanted = 0 \/ content_size(Head(chunk_[call.m])) = 0
  <2>1. Wanted \in Int
    BY <1>1, <1>2, CallFacts
  <2>2. chunk_[call.m] # <<>> => Head(chunk_[call.m]) \in Chunk /\ content_size(Head(chunk_[call.m])) \in Nat
    BY <1>2, ListFacts, ChunkFacts
  <2>3. ReadSize = Least(Wanted, content_size(Head(chunk_[call.m])))
    BY <1>3 DEF ReadSize
  <2> HIDE DEF Wanted
  <2> QED BY <2>1, <2>2, <2>3 DEF Least
<1>5. CASE ReadLoop
  <2>1. /\ chunk_[call.m] # <<>> /\ ReadSize > 0
        /\ chunk_' = [chunk_ EXCEPT ![call.m] = ReadHead(@, ReadSize)]
        /\ Moved(Content(Head(chunk_[call.m]), ReadSize))
    BY <1>5 DEF ReadLoop
  <2>2. /\ ReadSize \in Nat /\ ReadSize <= content_size(Head(chunk_[call.m])) /\ ReadSize <= Wanted
    BY <1>4, <2>1
  <2> QED BY <1>1, <2>1, <2>2, TakesStep
<1>6. CASE ReadEnd /\ (chunk_[call.m] = <<>> \/ Wanted = 0) /\ UNCHANGED chunk_
  <2>1. chunk_' = [chunk_ EXCEPT ![call.m] = chunk_[call.m]]
    BY <1>2, <1>6
  <2>2. chunk_[call.m] = <<>> => ListBytes(chunk_[call.m]) = <<>>
    BY ListBytesEmpty
  <2>3. Returns
    BY <1>6 DEF ReadEnd
  <2> QED BY <1>1, <1>2, <1>6, <2>1, <2>2, <2>3, TakesEnd
<1>7. CASE /\ ReadEnd /\ chunk_[call.m] # <<>> /\ ReadSize = 0
           /\ chunk_' = [chunk_ EXCEPT ![call.m] = ReadHead(@, 0)]
  <2>1. ReadHead(chunk_[call.m], 0) \in ChunkList
    BY <1>2, <1>4, <1>7, ReadHeadIsList
  <2>2. ListBytes(ReadHead(chunk_[call.m], 0)) = ListBytes(chunk_[call.m])
    BY <1>2, <1>7, ReadNothing
  <2>3. Wanted = 0 \/ ListBytes(chunk_[call.m]) = <<>>
    BY <1>2, <1>4, <1>7, NothingLeft
  <2>4. Returns
    BY <1>7 DEF ReadEnd
  <2> QED BY <1>1, <1>7, <2>1, <2>2, <2>3, <2>4, TakesEnd
<1>8. ReadEnd => \/ (chunk_[call.m] = <<>> \/ Wanted = 0) /\ UNCHANGED chunk_
                 \/ /\ chunk_[call.m] # <<>> /\ ReadSize = 0
                    /\ chunk_' = [chunk_ EXCEPT ![call.m] = ReadHead(@, 0)]
  BY DEF ReadEnd
<1> QED BY <1>5, <1>6, <1>7, <1>8

\* ... and write_to_fd.
LEMMA WriteToFdQueue ==
    ASSUME QueueInv, WriteToFdLoop \/ WriteToFdEnd
    PROVE  CallEffect' /\ MarkPlaces' /\ (BQ!Read \/ BQ!WriteToFd \/ BQ!Progress)
<1>1. call.op = "write_to_fd" /\ UNCHANGED <<supplied, bmark>>
  BY DEF WriteToFdLoop, WriteToFdEnd, Running
<1>2. /\ MarshalInv /\ CallOK /\ call.m \in Marshals /\ chunk_[call.m] \in ChunkList
      /\ chunk_ \in [Marshals -> ChunkList]
  BY <1>1, RunningFacts
<1>3. chunk_[call.m] # <<>> => content_size(Head(chunk_[call.m])) \in Nat
  BY <1>2, ListFacts, ChunkFacts
<1>5. CASE WriteToFdLoop
  <2>1. PICK r \in 1 .. content_size(Head(chunk_[call.m])) :
           /\ chunk_' = [chunk_ EXCEPT ![call.m] = ReadHead(@, r)]
           /\ Moved(Content(Head(chunk_[call.m]), r))
    BY <1>5 DEF WriteToFdLoop
  <2>2. chunk_[call.m] # <<>>
    BY <1>5 DEF WriteToFdLoop
  <2>3. r \in Nat /\ r <= content_size(Head(chunk_[call.m]))
    BY <1>3, <2>2
  <2> QED BY <1>1, <2>1, <2>2, <2>3, TakesStep
<1>6. CASE WriteToFdEnd
  <2> DEFINE cs == chunk_[call.m]
             ds == IF cs = <<>> THEN cs ELSE ReadHead(cs, 0)
  <2>1. Returns /\ chunk_' = [chunk_ EXCEPT ![call.m] = ds]
    BY <1>6 DEF WriteToFdEnd
  <2>2. ds \in ChunkList
    BY <1>2, <1>3, ReadHeadIsList
  <2>3. ListBytes(ds) = ListBytes(cs)
    BY <1>2, ReadNothing
  <2> HIDE DEF ds
  <2> QED BY <1>1, <2>1, <2>2, <2>3, TakesEnd
<1> QED BY <1>5, <1>6

\* The chunks behind the first k.
LEMMA FromFacts ==
    ASSUME NEW cs \in ChunkList, NEW k \in Nat
    PROVE  /\ From(cs, k) \in Seq(Chunk)
           /\ k >= Len(cs) => From(cs, k) = <<>>
           /\ k < Len(cs) =>
                 /\ cs[k + 1] \in Chunk
                 /\ ListBytes(From(cs, k)) = Unread(cs[k + 1]) \o ListBytes(From(cs, k + 1))
                 /\ content_size(cs[k + 1]) = 0 => ListBytes(From(cs, k)) = <<>>
<1> DEFINE n == Len(cs)
<1>1. /\ cs \in Seq(Chunk) /\ n \in Nat
      /\ \A i \in 1 .. n - 1 : fully_written(cs[i])
      /\ \A i \in 1 .. n : cs[i] \in Chunk
  BY ListFacts
<1>2. ASSUME NEW j \in Nat
      PROVE  /\ From(cs, j) \in Seq(Chunk)
             /\ Len(From(cs, j)) = IF j < n THEN n - j ELSE 0
             /\ \A i \in 1 .. n - j : From(cs, j)[i] = cs[j + i]
  <2> DEFINE a == j + 1
  <2>1. a \in Int /\ \A i \in a .. n : cs[i] \in Chunk
    BY <1>1
  <2>2. n - a + 1 = n - j /\ (a <= n <=> j < n) /\ \A i \in 1 .. n - j : a + i - 1 = j + i
    BY <1>1
  <2>3. From(cs, j) = SubSeq(cs, a, n)
    BY DEF From
  <2> HIDE DEF a, n
  <2>4. /\ SubSeq(cs, a, n) \in Seq(Chunk)
        /\ Len(SubSeq(cs, a, n)) = IF a <= n THEN n - a + 1 ELSE 0
        /\ \A i \in 1 .. n - a + 1 : SubSeq(cs, a, n)[i] = cs[a + i - 1]
    BY <1>1, <2>1, SubSeqProperties
  <2> QED BY <2>2, <2>3, <2>4
<1>3. k >= n => From(cs, k) = <<>>
  <2> DEFINE t == From(cs, k)
  <2>1. t \in Seq(Chunk) /\ (k >= n => Len(t) = 0)
    BY <1>1, <1>2
  <2> HIDE DEF t
  <2>2. k >= n => t = <<>>
    BY <2>1
  <2> QED BY <2>2 DEF t
<1>4. ASSUME k < n
      PROVE  /\ cs[k + 1] \in Chunk
             /\ ListBytes(From(cs, k)) = Unread(cs[k + 1]) \o ListBytes(From(cs, k + 1))
             /\ content_size(cs[k + 1]) = 0 => ListBytes(From(cs, k)) = <<>>
  <2> DEFINE t == From(cs, k)
             u == From(cs, k + 1)
             c == cs[k + 1]
             v == <<c>> \o u
             l == n - k - 1
  <2>1. k + 1 \in 1 .. n /\ k + 1 \in Nat /\ l \in Nat /\ c \in Chunk
    BY <1>1, <1>4
  <2>2. /\ t \in Seq(Chunk) /\ Len(t) = l + 1 /\ \A i \in 1 .. l + 1 : t[i] = cs[k + i]
        /\ u \in Seq(Chunk) /\ Len(u) = l /\ \A i \in 1 .. l : u[i] = cs[k + 1 + i]
    <3>1. n - k = l + 1 /\ n - (k + 1) = l /\ (k + 1 < n \/ l = 0)
      BY <1>1, <1>4
    <3>2. /\ t \in Seq(Chunk) /\ Len(t) = n - k /\ \A i \in 1 .. n - k : t[i] = cs[k + i]
      BY <1>2, <1>4
    <3>3. /\ u \in Seq(Chunk) /\ Len(u) = IF k + 1 < n THEN n - (k + 1) ELSE 0
          /\ \A i \in 1 .. n - (k + 1) : u[i] = cs[k + 1 + i]
      BY <1>2, <2>1
    <3> HIDE DEF t, u, l
    <3> QED BY <3>1, <3>2, <3>3
  <2>3. /\ v \in Seq(Chunk) /\ Len(v) = l + 1 /\ v[1] = c /\ \A i \in 1 .. l : v[i + 1] = u[i]
    <3> HIDE DEF u, c, l
    <3> QED BY <2>1, <2>2
  <2>4. t = v
    <3> SUFFICES ASSUME NEW i \in 1 .. l + 1 PROVE t[i] = v[i]
      <4> HIDE DEF t, v, l
      <4> QED BY <2>2, <2>3, SeqEqual
    <3>1. CASE i = 1
      BY <2>1, <2>2, <2>3, <3>1
    <3>2. CASE i # 1
      <4> DEFINE j == i - 1
      <4>1. j \in 1 .. l /\ i = j + 1 /\ k + i = k + 1 + j
        BY <2>1, <3>2
      <4> HIDE DEF j, t, u, v, l
      <4>2. t[i] = cs[k + 1 + j] /\ v[i] = cs[k + 1 + j]
        BY <2>2, <2>3, <4>1
      <4> QED BY <4>2
    <3> QED BY <3>1, <3>2
  <2>5. ListBytes(t) = Unread(c) \o ListBytes(u)
    <3> HIDE DEF t, u, c
    <3> QED BY <2>1, <2>2, <2>4, ListBytesCons
  <2>6. ASSUME content_size(c) = 0 PROVE ListBytes(t) = <<>>
    <3>1. ~fully_written(c)
      <4> HIDE DEF c
      <4>2. Len(c.data) - c.read_idx = 0 /\ c.read_idx < c.size
            /\ Len(c.data) \in Nat /\ c.read_idx \in Nat /\ c.size \in Nat
        BY <2>1, <2>6, ChunkFacts DEF content_size
      <4> QED BY <4>2 DEF fully_written
    <3>2. k + 1 \notin 1 .. n - 1
      BY <1>1, <3>1
    <3>3. k + 1 >= n
      BY <1>1, <2>1, <3>2
    <3>4. u = <<>>
      <4>1. u \in Seq(Chunk) /\ Len(u) = 0
        BY <1>2, <2>1, <3>3
      <4> HIDE DEF u
      <4> QED BY <4>1
    <3>5. Unread(c) = <<>>
      <4>1. Unread(c) \in Seq(Byte) /\ Len(Unread(c)) = 0
        BY <2>1, <2>6, UnreadType
      <4> HIDE DEF c
      <4> QED BY <4>1
    <3>6. ListBytes(t) = <<>> \o <<>>
      BY <2>5, <3>4, <3>5, ListBytesEmpty, Zenon
    <3> QED BY <3>6
  <2> QED BY <2>1, <2>5, <2>6
<1> QED BY <1>2, <1>3, <1>4

\* What is left of a chunk after r bytes.
LEMMA ContentPrefix ==
    ASSUME NEW c \in Chunk, NEW r \in Nat, r <= content_size(c)
    PROVE  \E t \in Seq(Byte) : Unread(c) = Content(c, r) \o t /\ (r = content_size(c) => t = <<>>)
<1>1. CASE r = content_size(c)
  <2>1. Content(c, r) \in Seq(Byte) /\ Content(c, r) = Unread(c)
    BY <1>1, ContentAt DEF Unread
  <2>2. <<>> \in Seq(Byte) /\ Unread(c) = Content(c, r) \o <<>>
    BY <2>1, ConcatEmptySeq
  <2> QED BY <2>2
<1>2. CASE r # content_size(c)
  <2>1. ~fully_read(ReadChunk(c, r))
    <3>1. /\ ReadChunk(c, r).read_idx = c.read_idx + r /\ ReadChunk(c, r).size = c.size
      BY ChunkFacts DEF ReadChunk
    <3>2. /\ c.read_idx \in Nat /\ c.size \in Nat /\ Len(c.data) \in Nat
          /\ content_size(c) = Len(c.data) - c.read_idx /\ Len(c.data) <= c.size
      BY ChunkFacts DEF content_size
    <3>3. c.read_idx + r # c.size
      BY <1>2, <3>2
    <3> QED BY <3>1, <3>3 DEF fully_read
  <2>2. ReadChunk(c, r) \in Chunk
    BY <2>1, ReadChunkIsChunk
  <2>3. Unread(c) = Content(c, r) \o Unread(ReadChunk(c, r)) /\ Unread(ReadChunk(c, r)) \in Seq(Byte)
    BY <2>2, ReadChunkUnread, UnreadType
  <2> QED BY <1>2, <2>3
<1> QED BY <1>1, <1>2

\* Marshal::peek, a step of the loop: what was copied stays a prefix.
LEMMA PeekLoopQueue ==
    ASSUME QueueInv, PeekLoop
    PROVE  CallEffect' /\ MarkPlaces' /\ BQ!Progress
<1>0. PICK m : m = call.m
  OBVIOUS
<1> DEFINE cs == chunk_[m]
           k == call.at
           c == cs[k + 1]
           r == PeekSize
           p == Content(c, r)
           s == call.bytes
<1>1. /\ call.op = "peek" /\ k < Len(cs) /\ r > 0 /\ Moved(p)
      /\ UNCHANGED <<chunk_, supplied, bmark>>
  BY <1>0 DEF PeekLoop, Running
<1>2. /\ MarshalInv /\ CallOK /\ MarkPlaces /\ CallEffect
      /\ m \in Marshals /\ chunk_ \in [Marshals -> ChunkList] /\ cs \in ChunkList
      /\ s \in Seq(Byte) /\ Len(s) \in Nat /\ call.n \in Nat /\ k \in Nat
  BY <1>0, <1>1, RunningFacts
<1>3. /\ c \in Chunk /\ From(cs, k + 1) \in Seq(Chunk)
      /\ ListBytes(From(cs, k)) = Unread(c) \o ListBytes(From(cs, k + 1))
  <2> HIDE DEF cs, k
  <2>1. k + 1 \in Nat
    BY <1>2
  <2>2. From(cs, k + 1) \in Seq(Chunk)
    BY <1>2, <2>1, FromFacts
  <2> QED BY <1>1, <1>2, <2>2, FromFacts
<1>4. /\ content_size(c) \in Nat /\ Wanted = call.n - Len(s) /\ r = Least(Wanted, content_size(c))
  BY <1>0, <1>3, ChunkFacts DEF Wanted, PeekSize
<1>5. /\ r \in Nat /\ r <= content_size(c) /\ r <= call.n - Len(s)
      /\ r = content_size(c) \/ r = call.n - Len(s)
  <2> HIDE DEF r, c, s
  <2>1. call.n - Len(s) \in Int /\ r = Least(call.n - Len(s), content_size(c))
    BY <1>2, <1>4
  <2> QED BY <1>1, <1>4, <2>1 DEF Least
<1>6. p \in Seq(Byte) /\ Len(p) = r
  BY <1>3, <1>5, ContentIsBytes
<1>7. /\ call'.op = "peek" /\ call'.m = m /\ call'.from = call.from /\ call'.at = k + 1
      /\ call'.n = call.n /\ call'.bytes = s \o p
      /\ Len(call'.bytes) = Len(s) + r
  BY <1>0, <1>1, <1>2, <1>6, MovedIs
<1>8. PICK t \in Seq(Byte) : Unread(c) = p \o t /\ (r = content_size(c) => t = <<>>)
  BY <1>3, <1>5, ContentPrefix
<1>9. PICK g \in Seq(Byte) :
         ListBytes(cs) = s \o g /\ (Len(s) < call.n => g = ListBytes(From(cs, k)))
  BY <1>0, <1>1, <1>2 DEF CallEffect
<1>10. Len(s) < call.n
  BY <1>1, <1>2, <1>5
<1> DEFINE b == ListBytes(From(cs, k + 1))
           h == t \o b
<1>11. b \in Seq(Byte) /\ h \in Seq(Byte)
  <2>1. b \in Seq(Byte)
    BY <1>3, ListBytesType
  <2> QED BY <2>1, <1>8, ConcatProperties
<1>12. ListBytes(cs) = (s \o p) \o h
  <2>0. g = ListBytes(From(cs, k)) /\ ListBytes(From(cs, k)) = Unread(c) \o b /\ Unread(c) = p \o t
        /\ s \in Seq(Byte) /\ p \in Seq(Byte)
    BY <1>2, <1>3, <1>6, <1>8, <1>9, <1>10
  <2> HIDE DEF s, p, b, cs, c, k
  <2>1. g = (p \o t) \o b
    BY <2>0, Zenon
  <2>2. (p \o t) \o b = p \o h
    BY <1>6, <1>8, <1>11, ConcatAssociative
  <2>3. h \in Seq(Byte)
    BY <1>11
  <2> HIDE DEF h
  <2>5. s \in Seq(Byte) /\ p \in Seq(Byte) /\ h \in Seq(Byte)
    BY <2>0, <2>3, Zenon
  <2>4. (s \o p) \o h = s \o (p \o h)
    BY <2>5, ConcatAssociative
  <2> QED BY <1>9, <2>1, <2>2, <2>4, Zenon
<1>13. Len(s) + r < call.n => h = b
  <2>1. Len(s) + r < call.n => t = <<>>
    BY <1>2, <1>5, <1>8
  <2>2. <<>> \o b = b
    BY <1>11, ConcatEmptySeq
  <2> QED BY <2>1, <2>2
<1>14. CallEffect'
  <2>1. Len(call'.bytes) <= call'.n
    <3> DEFINE l == Len(s)
    <3>1. l \in Nat /\ call.n \in Nat /\ r \in Nat /\ r <= call.n - l
      BY <1>2, <1>5
    <3>2. l + r <= call.n
      <4> HIDE DEF l, r
      <4> QED BY <3>1
    <3> QED BY <1>7, <3>2
  <2>2. /\ ListBytes(chunk_'[call'.m]) = call'.bytes \o h
        /\ Len(call'.bytes) < call'.n => h = ListBytes(From(chunk_'[call'.m], call'.at))
    <3>1. chunk_'[call'.m] = cs /\ call'.at = k + 1
      BY <1>1, <1>7
    <3> HIDE DEF h, s, p, cs, r, k
    <3> QED BY <1>7, <1>12, <1>13, <3>1
  <2>3. call'.op # "none" /\ call'.op \notin Gives /\ call'.op # "set_bookmark"
    BY <1>7 DEF Gives
  <2> HIDE DEF h
  <2> QED BY <1>11, <2>1, <2>2, <2>3, NextEffect
<1>15. MarkPlaces'
  <2>1. \A x \in Marshals : x = bmark.m =>
            \E y \in Seq(Place) : Places(chunk_'[x]) = Places(chunk_[x]) \o y
    BY <1>1, <1>2, SamePlaces
  <2>2. call'.op # "set_bookmark"
    BY <1>7
  <2> QED BY <1>1, <1>2, <2>1, <2>2, MarksStay
<1>16. \A x \in Marshals : Queue(x)' = Queue(x)
  <2> SUFFICES ASSUME NEW x \in Marshals PROVE Queue(x)' = Queue(x)
    OBVIOUS
  <2>1. Queue(x) = ListBytes(chunk_[x])
    BY <1>1, UnusedQueue DEF Takes, Gives
  <2>2. Queue(x)' = ListBytes(chunk_'[x])
    BY <1>7, UnusedQueueNext DEF Takes, Gives
  <2> QED BY <1>1, <2>1, <2>2
<1>17. BQ!Progress
  <2>1. call.op # "none" /\ call.op # "read_from_fd" /\ supplied' = supplied
    BY <1>1
  <2> HIDE DEF p
  <2> QED BY <1>1, <1>6, <1>16, <2>1, ProgressStep
<1> QED BY <1>14, <1>15, <1>17

\* ... and its return: it copied as much as was asked for and is there.
LEMMA PeekEndQueue ==
    ASSUME QueueInv, PeekEnd
    PROVE  CallEffect' /\ MarkPlaces' /\ BQ!Peek
<1>0. PICK m : m = call.m
  OBVIOUS
<1> DEFINE cs == chunk_[m]
           k == call.at
           s == call.bytes
<1>1. /\ call.op = "peek" /\ (k < Len(cs) => PeekSize = 0) /\ Returns
      /\ UNCHANGED <<chunk_, supplied, bmark>>
  BY <1>0 DEF PeekEnd, Running
<1>2. /\ MarshalInv /\ CallOK /\ MarkPlaces /\ CallEffect
      /\ m \in Marshals /\ chunk_ \in [Marshals -> ChunkList] /\ cs \in ChunkList
      /\ s \in Seq(Byte) /\ Len(s) \in Nat /\ call.n \in Nat /\ k \in Nat
  BY <1>0, <1>1, RunningFacts
<1>3. PICK g \in Seq(Byte) :
         ListBytes(cs) = s \o g /\ (Len(s) < call.n => g = ListBytes(From(cs, k)))
  BY <1>0, <1>1, <1>2 DEF CallEffect
<1>4. Len(s) <= call.n
  BY <1>1, <1>2 DEF CallEffect, Limited
<1>5. call.n = Len(s) \/ g = <<>>
  <2> SUFFICES ASSUME Len(s) < call.n PROVE ListBytes(From(cs, k)) = <<>>
    BY <1>2, <1>3, <1>4
  <2>1. CASE k >= Len(cs)
    BY <1>2, <2>1, FromFacts, ListBytesEmpty
  <2>2. CASE k < Len(cs)
    <3>1. content_size(cs[k + 1]) \in Nat
      BY <1>2, <2>2, FromFacts, ChunkFacts
    <3>2. Wanted = call.n - Len(s) /\ PeekSize = Least(Wanted, content_size(cs[k + 1])) /\ PeekSize = 0
      BY <1>0, <1>1, <2>2 DEF Wanted, PeekSize
    <3>3. content_size(cs[k + 1]) = 0
      <4> DEFINE l == Len(s)
                 w == content_size(cs[k + 1])
      <4>1. l \in Nat /\ w \in Nat /\ call.n \in Nat /\ l < call.n /\ Least(call.n - l, w) = 0
        BY <1>2, <3>1, <3>2
      <4> HIDE DEF l, w
      <4>2. w = 0
        BY <4>1 DEF Least
      <4> QED BY <4>2 DEF w
    <3> QED BY <1>2, <2>2, <3>3, FromFacts
  <2>3. Len(cs) \in Nat
    BY <1>2, ListFacts
  <2> QED BY <1>2, <2>1, <2>2, <2>3
<1>6. call' = Idle
  BY <1>1 DEF Returns
<1>7. CallEffect' /\ MarkPlaces'
  <2>1. \A x \in Marshals : x = bmark.m =>
            \E y \in Seq(Place) : Places(chunk_'[x]) = Places(chunk_[x]) \o y
    BY <1>1, <1>2, SamePlaces
  <2>2. call'.op # "set_bookmark"
    BY <1>6 DEF Idle
  <2>3. CallEffect'
    BY <1>6, IdleEffect
  <2>4. MarkPlaces'
    BY <1>1, <1>2, <2>1, <2>2, MarksStay
  <2> QED BY <2>3, <2>4
<1>8. Queue(m) = s \o g /\ \A x \in Marshals : Queue(x)' = Queue(x)
  <2>1. \A x \in Marshals : Queue(x) = ListBytes(chunk_[x])
    BY <1>1, UnusedQueue DEF Takes, Gives
  <2>2. \A x \in Marshals : Queue(x)' = ListBytes(chunk_'[x])
    BY <1>1, ReturnedQueue
  <2> HIDE DEF s
  <2> QED BY <1>1, <1>2, <1>3, <2>1, <2>2
<1>9. BQ!Peek
  <2>1. SubSeq(Queue(m), 1, BQ!Min({call.n, Len(Queue(m))})) = s
    <3>1. SubSeq(s \o g, 1, BQ!Min({call.n, Len(s \o g)})) = s
      <4> HIDE DEF s
      <4> QED BY <1>2, <1>3, <1>4, <1>5, FirstOfConcat
    <3> QED BY <1>8, <3>1, Zenon
  <2>2. BQ!First(m, call.n) = s
    BY <1>2, <2>1, QueueParts, Zenon
  <2>3. BQ!Return("peek")
    BY <1>1, <1>6 DEF BQ!Return, BQ!NoCall, Idle
  <2>4. call.bytes = BQ!First(call.m, call.n)
    BY <1>0, <2>2, Zenon
  <2>5. [x \in Marshals |-> Queue(x)]' = [x \in Marshals |-> Queue(x)]
    BY <1>8, SameQueues
  <2> QED BY <2>3, <2>4, <2>5 DEF BQ!Peek
<1> QED BY <1>7, <1>9

-------------------------------------------------------------------------------
(* The calls that write.                                                   *)

\* A running call that adds bytes at the end: its queue does not see them yet.
LEMMA GivesStep ==
    ASSUME QueueInv, call.op \in {"read_from_fd", "set_bookmark"}, NEW p \in Seq(Byte), Moved(p),
           NEW ds \in ChunkList, chunk_' = [chunk_ EXCEPT ![call.m] = ds],
           ListBytes(ds) = ListBytes(chunk_[call.m]) \o p
    PROVE  /\ \A x \in Marshals : Queue(x)' = Queue(x)
           /\ \E g \in Seq(Byte) : ListBytes(chunk_'[call'.m]) = g \o call'.bytes
<1>0. PICK m : m = call.m
  OBVIOUS
<1> DEFINE s == call.bytes
<1>1. /\ CallOK /\ CallEffect
      /\ m \in Marshals /\ chunk_ \in [Marshals -> ChunkList] /\ chunk_[m] \in ChunkList
      /\ s \in Seq(Byte)
  BY <1>0, RunningFacts
<1>2. /\ call'.op = call.op /\ call'.m = m /\ call'.bytes = s \o p /\ call'.bytes \in Seq(Byte)
  BY <1>0, <1>1, MovedIs
<1>3. call.op \in Gives /\ call.op \notin Takes
  BY DEF Takes, Gives
<1>4. PICK g \in Seq(Byte) : ListBytes(chunk_[m]) = g \o s
  BY <1>0, <1>1, <1>3 DEF CallEffect
<1>5. chunk_'[m] = ds /\ \A x \in Marshals \ {m} : chunk_'[x] = chunk_[x]
  BY <1>0, <1>1
<1>6. ListBytes(chunk_'[m]) = g \o call'.bytes
  <2>1. s \in Seq(Byte) /\ ListBytes(ds) = (g \o s) \o p
    BY <1>0, <1>1, <1>4
  <2> HIDE DEF s
  <2>2. (g \o s) \o p = g \o (s \o p)
    BY <2>1, ConcatAssociative
  <2> QED BY <1>2, <1>5, <2>1, <2>2, Zenon
<1>7. Queue(m) = g /\ Queue(m)' = g
  <2>1. Queue(m) = g
    <3> HIDE DEF s
    <3> QED BY <1>0, <1>1, <1>3, <1>4, GivenQueue DEF s
  <2>2. Queue(m)' = g
    <3> HIDE DEF s
    <3> QED BY <1>2, <1>3, <1>6, GivenQueueNext
  <2> QED BY <2>1, <2>2
<1>8. ASSUME NEW x \in Marshals \ {m} PROVE Queue(x)' = Queue(x)
  <2>1. Queue(x) = ListBytes(chunk_[x])
    BY <1>0, <1>3, UnusedQueue
  <2>2. Queue(x)' = ListBytes(chunk_'[x])
    BY <1>2, <1>3, UnusedQueueNext
  <2> QED BY <1>5, <2>1, <2>2
<1>9. \A x \in Marshals : Queue(x)' = Queue(x)
  BY <1>7, <1>8
<1>10. ListBytes(chunk_'[call'.m]) = g \o call'.bytes
  BY <1>2, <1>6
<1> QED BY <1>9, <1>10

\* When it returns, they are at the end of its queue.
LEMMA GivesEnd ==
    ASSUME QueueInv, call.op \in {"read_from_fd", "set_bookmark"}, Returns,
           NEW ds \in ChunkList, chunk_' = [chunk_ EXCEPT ![call.m] = ds],
           ListBytes(ds) = ListBytes(chunk_[call.m])
    PROVE  [x \in Marshals |-> Queue(x)]' =
               [[x \in Marshals |-> Queue(x)] EXCEPT ![call.m] = @ \o call.bytes]
<1>0. PICK m : m = call.m
  OBVIOUS
<1> DEFINE s == call.bytes
<1>1. /\ CallOK /\ CallEffect
      /\ m \in Marshals /\ chunk_ \in [Marshals -> ChunkList] /\ chunk_[m] \in ChunkList
      /\ s \in Seq(Byte)
  BY <1>0, RunningFacts
<1>3. call.op \in Gives /\ call.op \notin Takes
  BY DEF Takes, Gives
<1>4. PICK g \in Seq(Byte) : ListBytes(chunk_[m]) = g \o s
  BY <1>0, <1>1, <1>3 DEF CallEffect
<1>5. chunk_'[m] = ds /\ \A x \in Marshals \ {m} : chunk_'[x] = chunk_[x]
  BY <1>0, <1>1
<1>6. Queue(m) = g
  <2> HIDE DEF s
  <2> QED BY <1>0, <1>1, <1>3, <1>4, GivenQueue DEF s
<1>7. Queue(m)' = g \o s
  <2>1. Queue(m)' = ListBytes(chunk_'[m])
    BY <1>1, ReturnedQueue
  <2>2. ListBytes(chunk_'[m]) = ListBytes(chunk_[m])
    BY <1>0, <1>5
  <2> QED BY <1>4, <2>1, <2>2, Zenon
<1>8. ASSUME NEW x \in Marshals \ {m} PROVE Queue(x)' = Queue(x)
  <2>1. Queue(x) = ListBytes(chunk_[x])
    BY <1>0, <1>3, UnusedQueue
  <2>2. Queue(x)' = ListBytes(chunk_'[x])
    BY ReturnedQueue
  <2> QED BY <1>5, <2>1, <2>2
<1>9. [x \in Marshals |-> Queue(x)]' = [[x \in Marshals |-> Queue(x)] EXCEPT ![m] = Queue(m) \o s]
  <2>1. Queue(m)' = Queue(m) \o s
    BY <1>6, <1>7, Zenon
  <2> HIDE DEF s
  <2> QED BY <1>1, <1>8, <2>1, OneQueue
<1>10. [x \in Marshals |-> Queue(x)][m] = Queue(m)
  BY <1>1
<1> QED BY <1>0, <1>9, <1>10, Zenon

\* The bytes and the places of a list after a write, ...
LEMMA GivesBytes ==
    ASSUME NEW cs \in ChunkList, NEW p \in Seq(Byte), Len(p) <= writable(Last(WithRoom(cs)))
    PROVE  /\ WriteLast(WithRoom(cs), p) \in ChunkList
           /\ ListBytes(WriteLast(WithRoom(cs), p)) = ListBytes(cs) \o p
           /\ NewPlaces(WithRoom(cs), p) \in Seq(Place)
           /\ Places(WriteLast(WithRoom(cs), p)) = Places(cs) \o NewPlaces(WithRoom(cs), p)
<1> DEFINE ds == WithRoom(cs)
<1>1. ds \in ChunkList /\ ds # <<>> /\ ListBytes(ds) = ListBytes(cs) /\ Places(ds) = Places(cs)
  BY WithRoomIsList, WithRoomBytes, WithRoomPlaces
<1>2. WriteLast(ds, p) \in ChunkList
  BY GivesOK
<1> HIDE DEF ds
<1>3. ListBytes(WriteLast(ds, p)) = ListBytes(ds) \o p
  BY <1>1, WriteLastBytes DEF ds
<1>4. NewPlaces(ds, p) \in Seq(Place) /\ Places(WriteLast(ds, p)) = Places(ds) \o NewPlaces(ds, p)
  BY <1>1, WriteLastPlaces DEF ds
<1> QED BY <1>1, <1>2, <1>3, <1>4, Zenon DEF ds

\* Marshal::read_from_fd.
LEMMA ReadFromFdQueue ==
    ASSUME QueueInv, ReadFromFdLoop \/ ReadFromFdEnd
    PROVE  CallEffect' /\ MarkPlaces' /\ (BQ!ReadFromFd \/ BQ!Progress)
<1>0. PICK m : m = call.m
  OBVIOUS
<1> DEFINE cs == chunk_[m]
<1>1. call.op = "read_from_fd" /\ UNCHANGED bmark
  BY DEF ReadFromFdLoop, ReadFromFdEnd, Running
<1>2. /\ MarshalInv /\ CallOK /\ MarkPlaces /\ CallEffect /\ supplied \in Nat
      /\ m \in Marshals /\ chunk_ \in [Marshals -> ChunkList] /\ cs \in ChunkList
  BY <1>0, <1>1, RunningFacts
<1>3. ASSUME NEW ds \in ChunkList, NEW t \in Seq(Place), Places(ds) = Places(cs) \o t,
             chunk_' = [chunk_ EXCEPT ![call.m] = ds], call'.op # "set_bookmark"
      PROVE  MarkPlaces'
  <2>1. ASSUME NEW x \in Marshals, x = bmark.m
        PROVE  \E y \in Seq(Place) : Places(chunk_'[x]) = Places(chunk_[x]) \o y
    <3>1. CASE x = m
      <4>1. chunk_'[x] = ds
        BY <1>0, <1>2, <1>3, <3>1
      <4> QED BY <1>3, <3>1, <4>1
    <3>2. CASE x # m
      <4>1. chunk_'[x] = chunk_[x] /\ chunk_[x] \in ChunkList
        BY <1>0, <1>2, <1>3, <3>2
      <4> QED BY <4>1, SamePlaces
    <3> QED BY <3>1, <3>2
  <2> QED BY <1>1, <1>2, <1>3, <2>1, MarksStay
<1>4. CASE ReadFromFdLoop
  <2>1. PICK r \in 1 .. Least(writable(Last(WithRoom(chunk_[call.m]))), MaxBytes - supplied) :
           /\ chunk_' = [chunk_ EXCEPT ![call.m] = WriteLast(WithRoom(chunk_[call.m]), Fresh(r))]
           /\ Moved(Fresh(r))
           /\ supplied' = supplied + r
    BY <1>4 DEF ReadFromFdLoop
  <2> DEFINE p == Fresh(r)
             ds == WriteLast(WithRoom(cs), p)
  <2>2. r \in Nat /\ r <= writable(Last(WithRoom(cs)))
    BY <1>0, <1>2, <2>1, WithRoomIsList, LeastRange, MarshalAssumption
  <2>3. p \in Seq(Byte) /\ Len(p) = r
    BY <1>2, <2>2, FreshBytes
  <2>4. /\ ds \in ChunkList /\ ListBytes(ds) = ListBytes(cs) \o p
        /\ NewPlaces(WithRoom(cs), p) \in Seq(Place)
        /\ Places(ds) = Places(cs) \o NewPlaces(WithRoom(cs), p)
    BY <1>2, <2>2, <2>3, GivesBytes
  <2>5. Moved(p) /\ chunk_' = [chunk_ EXCEPT ![call.m] = ds]
    BY <1>0, <2>1
  <2>6. p = Fresh(Len(p)) /\ supplied' = supplied + Len(p)
    BY <2>1, <2>3
  <2>7. call'.op = call.op /\ call'.m = call.m
    BY <1>2, <2>3, <2>5, MovedIs
  <2> HIDE DEF p, ds
  <2>8. /\ \A x \in Marshals : Queue(x)' = Queue(x)
        /\ \E g \in Seq(Byte) : ListBytes(chunk_'[call'.m]) = g \o call'.bytes
    <3>1. ListBytes(ds) = ListBytes(chunk_[call.m]) \o p
      BY <1>0, <2>4
    <3> QED BY <1>1, <2>3, <2>4, <2>5, <3>1, GivesStep
  <2>9. CallEffect'
    <3>1. call'.op \notin Limited /\ call'.op # "none" /\ call'.op # "peek" /\ call'.op # "set_bookmark"
      BY <1>1, <2>7 DEF Limited
    <3> QED BY <2>8, <3>1, NextEffect
  <2>10. MarkPlaces'
    BY <1>1, <1>3, <2>4, <2>5, <2>7
  <2>11. BQ!Progress
    BY <1>1, <2>3, <2>5, <2>6, <2>8, ProgressStep
  <2> QED BY <2>9, <2>10, <2>11
<1>5. CASE ReadFromFdEnd
  <2> DEFINE ds == WithRoom(cs)
  <2>1. Returns /\ chunk_' = [chunk_ EXCEPT ![call.m] = ds] /\ supplied' = supplied
    BY <1>0, <1>5 DEF ReadFromFdEnd
  <2>2. ds \in ChunkList /\ ListBytes(ds) = ListBytes(cs) /\ Places(ds) = Places(cs)
    BY <1>2, WithRoomIsList, WithRoomBytes, WithRoomPlaces
  <2>3. call' = Idle
    BY <2>1 DEF Returns
  <2> HIDE DEF ds
  <2>4. MarkPlaces'
    <3>1. PICK t \in Seq(Place) : Places(cs) = Places(cs) \o t
      BY <1>2, SamePlaces
    <3>2. call'.op # "set_bookmark"
      BY <2>3 DEF Idle
    <3> QED BY <1>3, <2>1, <2>2, <3>1, <3>2
  <2>5. BQ!ReadFromFd
    <3>1. BQ!Return("read_from_fd")
      BY <1>1, <2>1, <2>3 DEF BQ!Return, BQ!NoCall, Idle
    <3>2. [x \in Marshals |-> Queue(x)]' =
               [[x \in Marshals |-> Queue(x)] EXCEPT ![call.m] = @ \o call.bytes]
      <4>1. ListBytes(ds) = ListBytes(chunk_[call.m])
        BY <1>0, <2>2
      <4> QED BY <1>1, <2>1, <2>2, <4>1, GivesEnd
    <3> QED BY <3>1, <3>2 DEF BQ!ReadFromFd
  <2> QED BY <2>3, <2>4, <2>5, IdleEffect
<1> QED BY <1>4, <1>5

\* A step of read_from_marshal: p leaves the one Marshal and is not yet seen in
\* the other.
LEMMA PassesStep ==
    ASSUME QueueInv, call.op = "read_from_marshal", NEW p \in Seq(Byte), Len(p) <= Wanted, Moved(p),
           NEW ds \in ChunkList, NEW es \in ChunkList,
           chunk_' = [chunk_ EXCEPT ![call.m] = ds, ![call.from] = es],
           ListBytes(ds) = ListBytes(chunk_[call.m]) \o p,
           ListBytes(chunk_[call.from]) = p \o ListBytes(es),
           \E t \in Seq(Place) : Places(ds) = Places(chunk_[call.m]) \o t,
           UNCHANGED <<supplied, bmark>>
    PROVE  CallEffect' /\ MarkPlaces' /\ BQ!Progress
<1>0. PICK m, o : m = call.m /\ o = call.from
  OBVIOUS
<1> DEFINE s == call.bytes
<1>1. /\ MarshalInv /\ CallOK /\ Marks /\ MarkPlaces /\ CallEffect
      /\ m \in Marshals /\ o \in Marshals /\ chunk_ \in [Marshals -> ChunkList]
      /\ chunk_[m] \in ChunkList /\ chunk_[o] \in ChunkList
      /\ s \in Seq(Byte) /\ Len(s) \in Nat /\ call.n \in Nat
  BY <1>0, RunningFacts
<1>2. m # o /\ o # bmark.m
  BY <1>0, <1>1 DEF CallOK, Marks
<1>3. /\ call'.op = "read_from_marshal" /\ call'.m = m /\ call'.from = o /\ call'.n = call.n
      /\ call'.bytes = s \o p /\ call'.bytes \in Seq(Byte) /\ Len(p) \in Nat
      /\ Len(call'.bytes) = Len(s) + Len(p)
  BY <1>0, <1>1, MovedIs
<1>4. call.op \in Gives /\ call.op \in Takes /\ call'.op \in Gives /\ call'.op \in Takes
  BY <1>3 DEF Takes, Gives
<1>5. /\ chunk_'[m] = ds /\ chunk_'[o] = es
      /\ \A x \in Marshals \ {m, o} : chunk_'[x] = chunk_[x]
  BY <1>0, <1>1, <1>2
<1>6. PICK g \in Seq(Byte) : ListBytes(chunk_[m]) = g \o s
  BY <1>0, <1>1, <1>4 DEF CallEffect
<1>7. ListBytes(chunk_'[m]) = g \o call'.bytes
  <2>1. s \in Seq(Byte) /\ ListBytes(ds) = (g \o s) \o p
    BY <1>0, <1>1, <1>6
  <2> HIDE DEF s
  <2>2. (g \o s) \o p = g \o (s \o p)
    BY <2>1, ConcatAssociative
  <2> QED BY <1>3, <1>5, <2>1, <2>2, Zenon
<1>8. Queue(m) = g /\ Queue(m)' = g
  <2>1. Queue(m) = g
    <3> HIDE DEF s
    <3> QED BY <1>0, <1>1, <1>2, <1>4, <1>6, GivenQueue DEF s
  <2>2. Queue(m)' = g
    <3> HIDE DEF s
    <3> QED BY <1>2, <1>3, <1>4, <1>7, GivenQueueNext
  <2> QED BY <2>1, <2>2
<1>9. Queue(o)' = Queue(o)
  <2> DEFINE b == ListBytes(es)
  <2>1. b \in Seq(Byte) /\ s \in Seq(Byte)
    BY <1>1, ListBytesIs
  <2>2. Queue(o) = s \o ListBytes(chunk_[o])
    BY <1>0, <1>2, <1>4, TakenQueue
  <2>3. Queue(o)' = call'.bytes \o ListBytes(chunk_'[o])
    BY <1>2, <1>3, <1>4, TakenQueueNext
  <2>4. call'.bytes = s \o p /\ ListBytes(chunk_'[o]) = b /\ ListBytes(chunk_[o]) = p \o b
    BY <1>0, <1>3, <1>5
  <2> HIDE DEF s, b
  <2>5. (s \o p) \o b = s \o (p \o b)
    <3>1. s \in Seq(Byte) /\ p \in Seq(Byte) /\ b \in Seq(Byte)
      BY <2>1
    <3> QED BY <3>1, BytesAssociate, Zenon
  <2> QED BY <2>2, <2>3, <2>4, <2>5, Zenon
<1>10. ASSUME NEW x \in Marshals \ {m, o} PROVE Queue(x)' = Queue(x)
  <2>1. Queue(x) = ListBytes(chunk_[x])
    BY <1>0, UnusedQueue
  <2>2. Queue(x)' = ListBytes(chunk_'[x])
    BY <1>3, UnusedQueueNext
  <2> QED BY <1>5, <2>1, <2>2
<1>11. \A x \in Marshals : Queue(x)' = Queue(x)
  BY <1>8, <1>9, <1>10
<1>12. CallEffect'
  <2>1. Len(call'.bytes) <= call'.n
    <3> DEFINE l == Len(s)
               r == Len(p)
    <3>1. l \in Nat /\ call.n \in Nat /\ r \in Nat /\ r <= call.n - l
      BY <1>1, <1>3 DEF Wanted
    <3>2. l + r <= call.n
      <4> HIDE DEF l, r
      <4> QED BY <3>1
    <3> QED BY <1>3, <3>2
  <2>2. ListBytes(chunk_'[call'.m]) = g \o call'.bytes
    BY <1>3, <1>7
  <2>3. call'.op # "none" /\ call'.op # "peek" /\ call'.op # "set_bookmark"
    BY <1>3
  <2> QED BY <2>1, <2>2, <2>3, NextEffect
<1>13. MarkPlaces'
  <2>1. ASSUME NEW x \in Marshals, x = bmark.m
        PROVE  \E y \in Seq(Place) : Places(chunk_'[x]) = Places(chunk_[x]) \o y
    <3>1. CASE x = m
      BY <1>0, <1>5, <3>1
    <3>2. CASE x # m
      <4>1. chunk_'[x] = chunk_[x] /\ chunk_[x] \in ChunkList
        BY <1>1, <1>2, <1>5, <2>1, <3>2
      <4> QED BY <4>1, SamePlaces
    <3> QED BY <3>1, <3>2
  <2>2. call'.op # "set_bookmark"
    BY <1>3
  <2> QED BY <1>1, <2>1, <2>2, MarksStay
<1>14. BQ!Progress
  <2>1. call.op # "none" /\ call.op # "read_from_fd" /\ supplied' = supplied
    OBVIOUS
  <2> QED BY <1>11, <2>1, ProgressStep
<1> QED BY <1>12, <1>13, <1>14

\* read_from_marshal returns: what it moved was the front of the one queue and
\* is now the end of the other.
LEMMA PassesEnd ==
    ASSUME QueueInv, call.op = "read_from_marshal", Returns,
           NEW ds \in ChunkList, NEW es \in ChunkList,
           chunk_' = [chunk_ EXCEPT ![call.m] = ds, ![call.from] = es],
           ListBytes(ds) = ListBytes(chunk_[call.m]),
           ListBytes(es) = ListBytes(chunk_[call.from]),
           Places(ds) = Places(chunk_[call.m]),
           Wanted = 0 \/ ListBytes(chunk_[call.from]) = <<>>,
           UNCHANGED <<supplied, bmark>>
    PROVE  CallEffect' /\ MarkPlaces' /\ BQ!ReadFromMarshal
<1>0. PICK m, o : m = call.m /\ o = call.from
  OBVIOUS
<1> DEFINE s == call.bytes
           b == ListBytes(chunk_[o])
           Q == [x \in Marshals |-> Queue(x)]
<1>1. /\ MarshalInv /\ CallOK /\ Marks /\ MarkPlaces /\ CallEffect
      /\ m \in Marshals /\ o \in Marshals /\ chunk_ \in [Marshals -> ChunkList]
      /\ chunk_[m] \in ChunkList /\ chunk_[o] \in ChunkList
      /\ s \in Seq(Byte) /\ Len(s) \in Nat /\ call.n \in Nat
  BY <1>0, RunningFacts
<1>2. m # o /\ o # bmark.m
  BY <1>0, <1>1 DEF CallOK, Marks
<1>3. call' = Idle
  BY DEF Returns
<1>4. call.op \in Gives /\ call.op \in Takes
  BY DEF Takes, Gives
<1>5. /\ chunk_'[m] = ds /\ chunk_'[o] = es
      /\ \A x \in Marshals \ {m, o} : chunk_'[x] = chunk_[x]
  BY <1>0, <1>1, <1>2
<1>6. PICK g \in Seq(Byte) : ListBytes(chunk_[m]) = g \o s
  BY <1>0, <1>1, <1>4 DEF CallEffect
<1>7. b \in Seq(Byte)
  BY <1>1, ListBytesIs
<1>8. Queue(m) = g /\ Queue(m)' = g \o s
  <2>1. Queue(m) = g
    <3> HIDE DEF s
    <3> QED BY <1>0, <1>1, <1>2, <1>4, <1>6, GivenQueue DEF s
  <2>2. Queue(m)' = ListBytes(chunk_'[m])
    BY <1>1, ReturnedQueue
  <2>3. ListBytes(chunk_'[m]) = ListBytes(chunk_[m])
    BY <1>0, <1>5
  <2> QED BY <1>6, <2>1, <2>2, <2>3, Zenon
<1>9. Queue(o) = s \o b /\ Queue(o)' = b
  <2>1. Queue(o) = s \o ListBytes(chunk_[o])
    BY <1>0, <1>2, <1>4, TakenQueue
  <2>2. Queue(o)' = ListBytes(chunk_'[o])
    BY <1>1, ReturnedQueue
  <2>3. ListBytes(chunk_'[o]) = b
    BY <1>0, <1>5
  <2> QED BY <2>1, <2>2, <2>3, Zenon
<1>10. ASSUME NEW x \in Marshals \ {m, o} PROVE Queue(x)' = Queue(x)
  <2>1. Queue(x) = ListBytes(chunk_[x])
    BY <1>0, UnusedQueue
  <2>2. Queue(x)' = ListBytes(chunk_'[x])
    BY ReturnedQueue
  <2> QED BY <1>5, <2>1, <2>2
<1>11. [x \in Marshals |-> Queue(x)]' = [Q EXCEPT ![m] = g \o s, ![o] = b]
  <2> DEFINE gs == g \o s
  <2>1. Queue(m)' = gs /\ Queue(o)' = b /\ \A x \in Marshals \ {m, o} : Queue(x)' = Queue(x)
    BY <1>8, <1>9, <1>10
  <2> HIDE DEF gs, b
  <2>2. [x \in Marshals |-> Queue(x)]' = [Q EXCEPT ![m] = gs, ![o] = b]
    BY <1>1, <1>2, <2>1
  <2> QED BY <2>2 DEF gs
<1>12. BQ!After(o, Len(s)) = b /\ BQ!First(o, call.n) = s
  <2>1. SubSeq(s \o b, Len(s) + 1, Len(s \o b)) = b
    <3> HIDE DEF s, b
    <3> QED BY <1>1, <1>7, AfterOfConcat
  <2>2. Len(s) <= call.n /\ (call.n = Len(s) \/ b = <<>>)
    BY <1>0, <1>1 DEF CallEffect, Limited, Wanted
  <2>3. SubSeq(s \o b, 1, BQ!Min({call.n, Len(s \o b)})) = s
    <3> HIDE DEF s, b
    <3> QED BY <1>1, <1>7, <2>2, FirstOfConcat
  <2> QED BY <1>1, <1>9, <2>1, <2>3, QueueParts, Zenon
<1>13. BQ!ReadFromMarshal
  <2>1. BQ!Return("read_from_marshal")
    BY <1>3 DEF BQ!Return, BQ!NoCall, Idle
  <2>2. call.bytes = BQ!First(call.from, call.n)
    BY <1>0, <1>12, Zenon
  <2>3. Q[m] = g
    BY <1>1, <1>8
  <2>4. [x \in Marshals |-> Queue(x)]' =
            [Q EXCEPT ![call.m] = @ \o call.bytes, ![call.from] = BQ!After(call.from, Len(call.bytes))]
    BY <1>0, <1>11, <1>12, <2>3, Zenon
  <2> QED BY <2>1, <2>2, <2>4 DEF BQ!ReadFromMarshal
<1>14. CallEffect' /\ MarkPlaces'
  <2>1. ASSUME NEW x \in Marshals, x = bmark.m
        PROVE  \E y \in Seq(Place) : Places(chunk_'[x]) = Places(chunk_[x]) \o y
    <3>1. CASE x = m
      <4>1. Places(chunk_'[x]) = Places(chunk_[x])
        BY <1>0, <1>5, <3>1
      <4> QED BY <1>1, <4>1, SamePlaces
    <3>2. CASE x # m
      <4>1. chunk_'[x] = chunk_[x] /\ chunk_[x] \in ChunkList
        BY <1>1, <1>2, <1>5, <2>1, <3>2
      <4> QED BY <4>1, SamePlaces
    <3> QED BY <3>1, <3>2
  <2>2. call'.op # "set_bookmark"
    BY <1>3 DEF Idle
  <2>3. CallEffect'
    BY <1>3, IdleEffect
  <2>4. MarkPlaces'
    BY <1>1, <2>1, <2>2, MarksStay
  <2> QED BY <2>3, <2>4
<1> QED BY <1>13, <1>14

\* Marshal::read_from_marshal.
LEMMA ReadFromMarshalQueue ==
    ASSUME QueueInv, TransferChunk \/ CopyChunk \/ ReadFromMarshalEnd
    PROVE  CallEffect' /\ MarkPlaces' /\ (BQ!ReadFromMarshal \/ BQ!Progress)
<1> DEFINE cs == chunk_[call.m]
           es == chunk_[call.from]
<1>1. /\ call.op = "read_from_marshal" /\ UNCHANGED <<supplied, bmark>>
  BY DEF TransferChunk, CopyChunk, ReadFromMarshalEnd, Running
<1>2. /\ MarshalInv /\ CallOK /\ call.m \in Marshals /\ call.from \in Marshals
      /\ chunk_ \in [Marshals -> ChunkList] /\ cs \in ChunkList /\ es \in ChunkList
  BY <1>1, RunningFacts
<1>3. call.m # call.from
  BY <1>1, <1>2 DEF CallOK
<1>4. /\ Wanted \in Int
      /\ es # <<>> => /\ Head(es) \in Chunk
                      /\ content_size(Head(es)) \in Nat
                      /\ ReadSize \in Int /\ ReadSize <= Wanted
                      /\ ReadSize = 0 => Wanted = 0 \/ content_size(Head(es)) = 0
  <2>1. Wanted \in Int
    BY <1>1, <1>2, CallFacts
  <2>2. es # <<>> => Head(es) \in Chunk /\ content_size(Head(es)) \in Nat
    BY <1>2, ListFacts, ChunkFacts
  <2>3. ReadSize = Least(Wanted, content_size(Head(es)))
    BY DEF ReadSize
  <2> HIDE DEF Wanted
  <2> QED BY <2>1, <2>2, <2>3 DEF Least
<1>5. /\ WithRoom(cs) \in ChunkList /\ Last(WithRoom(cs)) \in Chunk
      /\ writable(Last(WithRoom(cs))) \in Nat \ {0}
      /\ es # <<>> => /\ CopySize \in Int
                      /\ CopySize <= writable(Last(WithRoom(cs)))
                      /\ CopySize <= content_size(Head(es))
  BY <1>1, <1>2, WithRoomIsList, CopySizeFacts
<1>6. es # <<>> => /\ CopySize <= ReadSize
                   /\ CopySize = 0 => ReadSize = 0
  <2> DEFINE w == writable(Last(WithRoom(cs)))
  <2>1. CopySize = Least(w, ReadSize) /\ w \in Nat \ {0}
    BY <1>5 DEF CopySize
  <2> HIDE DEF w, CopySize, ReadSize
  <2> QED BY <1>4, <2>1 DEF Least
<1>7. CASE TransferChunk
  <2> DEFINE c == Head(es)
             p == Content(c, content_size(c))
  <2>1. /\ NeedsChunk(cs) /\ es # <<>> /\ content_size(c) < Wanted
        /\ chunk_' = [chunk_ EXCEPT ![call.m] = Append(cs, c), ![call.from] = Tail(es)]
        /\ Moved(p)
    BY <1>2, <1>3, <1>7 DEF TransferChunk, Transfers
  <2>2. Append(cs, c) \in ChunkList /\ Tail(es) \in ChunkList
    BY <1>2, <1>4, <2>1, AppendIsList, TailIsList
  <2>3. p \in Seq(Byte) /\ Len(p) = content_size(c) /\ p = Unread(c)
    BY <1>4, <2>1, ContentIsBytes DEF Unread
  <2>4. Len(p) <= Wanted
    BY <1>4, <2>1, <2>3
  <2>5. ListBytes(Append(cs, c)) = ListBytes(cs) \o p
    <3>1. cs \in Seq(Chunk) /\ c \in Chunk
      BY <1>2, <1>4, <2>1, ListFacts
    <3> QED BY <2>3, <3>1, ListBytesAppend
  <2>6. ListBytes(es) = p \o ListBytes(Tail(es))
    <3>1. es \in Seq(Chunk) /\ es # <<>>
      BY <1>2, <2>1, ListFacts
    <3> QED BY <2>3, <3>1, HeadApart
  <2>7. \E t \in Seq(Place) : Places(Append(cs, c)) = Places(cs) \o t
    BY <1>2, <1>4, <2>1, PushPlaces
  <2> HIDE DEF p, c
  <2> QED BY <1>1, <2>1, <2>2, <2>3, <2>4, <2>5, <2>6, <2>7, PassesStep
<1>8. CASE CopyChunk
  <2> DEFINE p == Content(Head(es), CopySize)
             ds == WriteLast(WithRoom(cs), p)
             fs == ReadHead(es, CopySize)
  <2>1. /\ es # <<>> /\ CopySize > 0
        /\ chunk_' = [chunk_ EXCEPT ![call.m] = ds, ![call.from] = fs]
        /\ Moved(p)
    BY <1>2, <1>3, <1>8 DEF CopyChunk
  <2>2. CopySize \in Nat
    BY <1>5, <2>1
  <2>3. p \in Seq(Byte) /\ Len(p) = CopySize
    BY <1>4, <1>5, <2>1, <2>2, ContentIsBytes
  <2>4. Len(p) <= Wanted
    <3> HIDE DEF CopySize, ReadSize, Wanted
    <3> QED BY <1>4, <1>6, <2>1, <2>2, <2>3
  <2>5. /\ ds \in ChunkList /\ ListBytes(ds) = ListBytes(cs) \o p
        /\ \E t \in Seq(Place) : Places(ds) = Places(cs) \o t
    <3>1. Len(p) <= writable(Last(WithRoom(cs)))
      BY <1>5, <2>1, <2>3
    <3> HIDE DEF p
    <3> QED BY <1>2, <2>3, <3>1, GivesBytes
  <2>6. fs \in ChunkList /\ ListBytes(es) = p \o ListBytes(fs)
    BY <1>2, <1>5, <2>1, <2>2, ReadHeadIsList, ReadHeadBytes
  <2> HIDE DEF p, ds, fs
  <2> QED BY <1>1, <2>1, <2>3, <2>4, <2>5, <2>6, PassesStep
<1>9. CASE ReadFromMarshalEnd /\ (Wanted = 0 \/ es = <<>>) /\ UNCHANGED chunk_
  <2>1. chunk_' = [chunk_ EXCEPT ![call.m] = cs, ![call.from] = es]
    BY <1>2, <1>3, <1>9
  <2>2. es = <<>> => ListBytes(es) = <<>>
    BY ListBytesEmpty
  <2>3. Returns
    BY <1>9 DEF ReadFromMarshalEnd
  <2> QED BY <1>1, <1>2, <1>9, <2>1, <2>2, <2>3, PassesEnd
<1>10. CASE /\ ReadFromMarshalEnd /\ es # <<>> /\ CopySize = 0
            /\ chunk_' = [chunk_ EXCEPT ![call.m] = WithRoom(@), ![call.from] = ReadHead(@, 0)]
  <2>1. chunk_' = [chunk_ EXCEPT ![call.m] = WithRoom(cs), ![call.from] = ReadHead(es, 0)]
    BY <1>2, <1>3, <1>10
  <2>2. ReadHead(es, 0) \in ChunkList /\ ListBytes(ReadHead(es, 0)) = ListBytes(es)
    BY <1>2, <1>4, <1>10, ReadHeadIsList, ReadNothing
  <2>3. ListBytes(WithRoom(cs)) = ListBytes(cs) /\ Places(WithRoom(cs)) = Places(cs)
    BY <1>2, WithRoomBytes, WithRoomPlaces
  <2>4. Wanted = 0 \/ ListBytes(es) = <<>>
    BY <1>2, <1>4, <1>6, <1>10, NothingLeft
  <2>5. Returns
    BY <1>10 DEF ReadFromMarshalEnd
  <2> QED BY <1>1, <1>5, <2>1, <2>2, <2>3, <2>4, <2>5, PassesEnd
<1>11. ReadFromMarshalEnd =>
          \/ (Wanted = 0 \/ es = <<>>) /\ UNCHANGED chunk_
          \/ /\ es # <<>> /\ CopySize = 0
             /\ chunk_' = [chunk_ EXCEPT ![call.m] = WithRoom(@), ![call.from] = ReadHead(@, 0)]
  BY DEF ReadFromMarshalEnd
<1> QED BY <1>7, <1>8, <1>9, <1>10, <1>11

\* Bytes supplied at the end of a Marshal.
LEMMA SupplyQueue ==
    ASSUME QueueInv, call = Idle, NEW m \in Marshals, NEW n \in Nat \ {0}, NEW ds \in ChunkList,
           chunk_' = [chunk_ EXCEPT ![m] = ds], supplied' = supplied + n, UNCHANGED <<call, bmark>>,
           ListBytes(ds) = ListBytes(chunk_[m]) \o Fresh(n),
           \E t \in Seq(Place) : Places(ds) = Places(chunk_[m]) \o t
    PROVE  CallEffect' /\ MarkPlaces' /\ BQ!Write(m)
<1>1. /\ MarshalInv /\ MarkPlaces /\ chunk_ \in [Marshals -> ChunkList] /\ supplied \in Nat
  BY DEF QueueInv, BookInv, MarshalInv
<1>2. chunk_'[m] = ds /\ \A x \in Marshals \ {m} : chunk_'[x] = chunk_[x]
  BY <1>1
<1>3. CallEffect'
  BY IdleEffect
<1>4. MarkPlaces'
  <2>1. \A x \in Marshals : x = bmark.m =>
            \E t \in Seq(Place) : Places(chunk_'[x]) = Places(chunk_[x]) \o t
    <3> SUFFICES ASSUME NEW x \in Marshals
                 PROVE  \E t \in Seq(Place) : Places(chunk_'[x]) = Places(chunk_[x]) \o t
      OBVIOUS
    <3>1. CASE x = m
      BY <1>2, <3>1
    <3>2. CASE x # m
      <4>1. chunk_'[x] = chunk_[x] /\ chunk_[x] \in ChunkList
        BY <1>1, <1>2, <3>2
      <4> QED BY <4>1, SamePlaces
    <3> QED BY <3>1, <3>2
  <2>2. call'.op # "set_bookmark"
    BY DEF Idle
  <2> QED BY <1>1, <2>1, <2>2, MarksStay
<1>5. [x \in Marshals |-> Queue(x)]' =
          [[x \in Marshals |-> Queue(x)] EXCEPT ![m] = @ \o BQ!Fresh(n)]
  <2>1. BQ!Fresh(n) = Fresh(n)
    BY DEF BQ!Fresh, Fresh
  <2>2. Queue(m) = ListBytes(chunk_[m])
    BY IdleQueue
  <2>3. Queue(m)' = ListBytes(chunk_'[m])
    BY IdleQueueNext
  <2>4. Queue(m)' = Queue(m) \o BQ!Fresh(n)
    BY <1>2, <2>1, <2>2, <2>3
  <2>5. \A x \in Marshals \ {m} : Queue(x)' = Queue(x)
    <3> SUFFICES ASSUME NEW x \in Marshals \ {m} PROVE Queue(x)' = Queue(x)
      OBVIOUS
    <3>1. Queue(x)' = ListBytes(chunk_[x])
      BY <1>2, IdleQueueNext
    <3> QED BY <3>1, IdleQueue
  <2>6. [x \in Marshals |-> Queue(x)]' = [[x \in Marshals |-> Queue(x)] EXCEPT ![m] = Queue(m) \o BQ!Fresh(n)]
    BY <2>4, <2>5, OneQueue
  <2> QED BY <2>6
<1>6. n \in 1 .. supplied' - supplied
  BY <1>1
<1>7. BQ!Supply(n)
  BY DEF BQ!Supply, BQ!NoCall, Idle
<1> QED BY <1>3, <1>4, <1>5, <1>6, <1>7 DEF BQ!Write

\* Marshal::write.
LEMMA WriteQueue ==
    ASSUME QueueInv, NEW m \in Marshals, NEW n \in Nat, Write(m, n)
    PROVE  CallEffect' /\ MarkPlaces' /\ BQ!Write(m)
<1> DEFINE cs == chunk_[m]
           room == Least(n, writable(Last(cs)))
           p == Fresh(n)
<1>1. /\ BookInv /\ cs \in ChunkList /\ supplied \in Nat /\ n \in Nat \ {0}
      /\ call = Idle /\ UNCHANGED <<call, bmark>> /\ supplied' = supplied + n
  BY DEF QueueInv, BookInv, MarshalInv, Write
<1>2. p \in Seq(Byte) /\ Len(p) = n
  BY <1>1, FreshBytes
<1>3. ASSUME NEW ds, chunk_' = [chunk_ EXCEPT ![m] = ds],
             ListBytes(ds) = ListBytes(cs) \o p, \E t \in Seq(Place) : Places(ds) = Places(cs) \o t
      PROVE  CallEffect' /\ MarkPlaces' /\ BQ!Write(m)
  <2>1. MarshalInv /\ MarshalInv'
    BY <1>1, WriteOK DEF BookInv
  <2>2. ds \in ChunkList
    BY <1>3, <2>1 DEF MarshalInv
  <2> QED BY <1>1, <1>3, <2>2, SupplyQueue
<1> HIDE DEF cs, p
<1>4. CASE NeedsChunk(cs)
  <2> DEFINE ds == Append(cs, NewChunk(p))
  <2>1. chunk_' = [chunk_ EXCEPT ![m] = ds]
    BY <1>4 DEF Write, cs, p
  <2>2. NewChunk(p) \in Chunk
    BY <1>2, NewChunkIsChunk
  <2>4. ListBytes(ds) = ListBytes(cs) \o p
    BY <1>1, <1>2, NewChunkBytes
  <2>5. \E t \in Seq(Place) : Places(ds) = Places(cs) \o t
    BY <1>1, <2>2, PushPlaces
  <2> HIDE DEF ds
  <2> QED BY <1>3, <2>1, <2>4, <2>5
<1>5. CASE ~NeedsChunk(cs)
  <2>1. cs # <<>> /\ Last(cs) \in Chunk /\ writable(Last(cs)) \in Nat
    BY <1>1, <1>5, ListFacts, ChunkFacts DEF NeedsChunk
  <2>2. room \in Nat /\ room <= n /\ room <= writable(Last(cs)) /\ (room < n => room = writable(Last(cs)))
    BY <2>1 DEF Least
  <2> HIDE DEF room
  <2>3. CASE ~(room < n)
    <3> DEFINE ds == WriteLast(cs, p)
    <3>1. chunk_' = [chunk_ EXCEPT ![m] = ds]
      BY <1>5, <2>3, WriteFits DEF cs, room, p
    <3>2. Len(p) <= writable(Last(cs))
      BY <1>2, <2>1, <2>2, <2>3
    <3>4. ListBytes(ds) = ListBytes(cs) \o p
      BY <1>1, <1>2, <2>1, <3>2, WriteLastBytes
    <3>5. \E t \in Seq(Place) : Places(ds) = Places(cs) \o t
      BY <1>1, <1>2, <2>1, <3>2, WriteLastPlaces
    <3> HIDE DEF ds
    <3> QED BY <1>3, <3>1, <3>4, <3>5
  <2>4. CASE room < n
    <3> DEFINE p1 == SubSeq(p, 1, room)
               p2 == SubSeq(p, room + 1, n)
               es == WriteLast(cs, p1)
               ds == Append(es, NewChunk(p2))
    <3>1. /\ p1 \in Seq(Byte) /\ Len(p1) = room /\ \A k \in 1 .. room : p1[k] = p[k]
      BY <1>2, <2>2
    <3>2. /\ p2 \in Seq(Byte) /\ Len(p2) = n - room /\ \A k \in 1 .. n - room : p2[k] = p[room + k]
      <4>1. \A k \in room + 1 .. n : p[k] \in Byte
        BY <1>2, <2>2
      <4>2. /\ p2 \in Seq(Byte) /\ Len(p2) = IF room + 1 <= n THEN n - (room + 1) + 1 ELSE 0
            /\ \A k \in 1 .. n - (room + 1) + 1 : p2[k] = p[room + 1 + k - 1]
        BY <2>2, <4>1, SubSeqProperties
      <4> HIDE DEF p2
      <4> QED BY <2>2, <2>4, <4>2
    <3> HIDE DEF p1, p2
    <3>3. p = p1 \o p2
      <4>1. p1 \o p2 \in Seq(Byte) /\ Joins(p1 \o p2, p1, p2)
        BY <3>1, <3>2, ConcatJoins
      <4>2. Joins(p, p1, p2)
        <5>1. Len(p) = Len(p1) + Len(p2)
          BY <1>2, <2>2, <3>1, <3>2
        <5> QED BY <3>1, <3>2, <5>1 DEF Joins
      <4> DEFINE w == p1 \o p2
      <4> HIDE DEF w
      <4>3. w \in Seq(Byte) /\ Joins(w, p1, p2)
        BY <4>1 DEF w
      <4>4. p = w
        BY <1>2, <3>1, <3>2, <4>2, <4>3, JoinsSame
      <4> QED BY <4>4 DEF w
    <3>4. /\ es \in ChunkList /\ es # <<>>
      BY <1>1, <2>1, <2>2, <3>1, WriteLastIsList
    <3>5. Len(p1) <= writable(Last(cs))
      BY <2>2, <3>1
    <3>6. ListBytes(es) = ListBytes(cs) \o p1
      BY <1>1, <2>1, <3>1, <3>5, WriteLastBytes
    <3>7. PICK t \in Seq(Place) : Places(es) = Places(cs) \o t
      BY <1>1, <2>1, <3>1, <3>5, WriteLastPlaces
    <3>8. NewChunk(p2) \in Chunk
      BY <3>2, NewChunkIsChunk
    <3>9. PICK u \in Seq(Place) : Places(ds) = Places(es) \o u
      BY <3>4, <3>8, PushPlaces
    <3>10. ListBytes(ds) = ListBytes(es) \o p2
      BY <3>2, <3>4, NewChunkBytes
    <3>12. ListBytes(ds) = ListBytes(cs) \o p
      <4>1. ListBytes(cs) \in Seq(Byte)
        BY <1>1, ListBytesIs
      <4> DEFINE b == ListBytes(cs)
      <4>2. b \in Seq(Byte) /\ p1 \in Seq(Byte) /\ p2 \in Seq(Byte)
        BY <3>1, <3>2, <4>1
      <4> HIDE DEF b
      <4>3. (b \o p1) \o p2 = b \o (p1 \o p2)
        BY <4>2, BytesAssociate, Zenon
      <4> QED BY <3>3, <3>6, <3>10, <4>3, Zenon DEF b
    <3>13. \E v \in Seq(Place) : Places(ds) = Places(cs) \o v
      <4>1. Places(cs) \in Seq(Place)
        BY <1>1, ListFacts, PlacesType
      <4> DEFINE b == Places(cs)
      <4>2. b \in Seq(Place) /\ t \in Seq(Place) /\ u \in Seq(Place)
        BY <4>1
      <4> HIDE DEF b
      <4>3. (b \o t) \o u = b \o (t \o u)
        BY <4>2, PlacesAssociate, Zenon
      <4>4. t \o u \in Seq(Place)
        BY ConcatProperties
      <4>5. Places(ds) = Places(cs) \o (t \o u)
        BY <3>7, <3>9, <4>3, Zenon DEF b
      <4> QED BY <4>4, <4>5
    <3>14. chunk_' = [chunk_ EXCEPT ![m] = ds]
      BY <1>5, <2>4 DEF Write, cs, room, p, p1, p2, ds
    <3> HIDE DEF ds
    <3> QED BY <1>3, <3>12, <3>13, <3>14
  <2> QED BY <2>3, <2>4
<1> QED BY <1>4, <1>5

-------------------------------------------------------------------------------
(* Bookmarks.                                                              *)

\* Marshal::set_bookmark, one reserved byte: its pointer is the next place.
LEMMA SetBookmarkLoopQueue ==
    ASSUME QueueInv, SetBookmarkLoop
    PROVE  CallEffect' /\ MarkPlaces' /\ BQ!Progress
<1>0. PICK m : m = call.m
  OBVIOUS
<1> DEFINE cs == WithRoom(chunk_[m])
           p == <<Hole>>
           ds == WriteLast(cs, p)
           x == <<Len(cs), Len(Last(cs).data) + 1>>
           s == call.bytes
<1>1. /\ call.op = "set_bookmark" /\ Wanted > 0 /\ UNCHANGED supplied /\ Moved(p)
      /\ chunk_' = [chunk_ EXCEPT ![call.m] = ds]
      /\ bmark' = [m |-> m, ptr |-> Append(bmark.ptr, x)]
  BY <1>0 DEF SetBookmarkLoop, Running
<1>2. /\ MarshalInv /\ CallOK /\ MarkPlaces /\ CallEffect /\ supplied \in Nat
      /\ m \in Marshals /\ chunk_ \in [Marshals -> ChunkList] /\ chunk_[m] \in ChunkList
      /\ s \in Seq(Byte) /\ Len(s) \in Nat /\ call.n \in Nat /\ bmark.ptr \in Seq(Place)
  BY <1>0, <1>1, RunningFacts DEF MarshalInv, Place
<1>3. p \in Seq(Byte) /\ Len(p) = 1
  BY DEF Hole, Byte
<1>4. /\ cs \in ChunkList /\ Last(cs) \in Chunk /\ writable(Last(cs)) \in Nat \ {0} /\ Len(cs) \in Nat
  BY <1>2, WithRoomIsList, ListFacts
<1>5. /\ ds \in ChunkList /\ ListBytes(ds) = ListBytes(chunk_[m]) \o p
      /\ NewPlaces(cs, p) \in Seq(Place)
      /\ Places(ds) = Places(chunk_[m]) \o NewPlaces(cs, p)
  <2>1. Len(p) <= writable(Last(cs))
    BY <1>3, <1>4
  <2> HIDE DEF p
  <2> QED BY <1>2, <1>3, <2>1, GivesBytes
<1>6. x \in Place /\ NewPlaces(cs, p) = <<x>>
  <2>1. x \in Place
    BY <1>4, ChunkFacts DEF Place
  <2>2. NewPlaces(cs, p) = [j \in 1 .. 1 |-> <<Len(cs), Len(Last(cs).data) + j>>]
    BY <1>3 DEF NewPlaces
  <2>3. NewPlaces(cs, p)[1] = x /\ Len(NewPlaces(cs, p)) = 1
    BY <2>2
  <2> DEFINE y == NewPlaces(cs, p)
  <2> HIDE DEF y, x
  <2>4. y \in Seq(Place) /\ Len(y) = 1 /\ y[1] = x
    BY <1>5, <2>3 DEF y
  <2>5. y = <<x>>
    BY <2>1, <2>4
  <2> QED BY <2>1, <2>5 DEF y
<1>7. /\ call'.op = "set_bookmark" /\ call'.m = m /\ call'.n = call.n /\ call'.bytes = s \o p
      /\ Len(call'.bytes) = Len(s) + 1
  <2> HIDE DEF p
  <2> QED BY <1>0, <1>1, <1>2, <1>3, MovedIs
<1>8. chunk_'[m] = ds
  BY <1>0, <1>1, <1>2
<1>9. /\ \A z \in Marshals : Queue(z)' = Queue(z)
      /\ \E g \in Seq(Byte) : ListBytes(chunk_'[call'.m]) = g \o call'.bytes
  <2>1. ListBytes(ds) = ListBytes(chunk_[call.m]) \o p
    BY <1>0, <1>5
  <2> HIDE DEF p, ds
  <2> QED BY <1>1, <1>3, <1>5, <2>1, GivesStep
<1>10. PICK f \in Seq(Place) : Places(chunk_[m]) = f \o bmark.ptr
  BY <1>0, <1>1, <1>2 DEF MarkPlaces
<1>11. Places(ds) = f \o bmark'.ptr /\ bmark'.ptr \in Seq(Place)
  <2> DEFINE t == bmark.ptr
  <2>1. t \in Seq(Place) /\ x \in Place /\ bmark'.ptr = Append(t, x)
    BY <1>1, <1>2, <1>6
  <2>2. Places(ds) = (f \o t) \o <<x>>
    BY <1>5, <1>6, <1>10, Zenon
  <2> HIDE DEF t, x
  <2>3. <<x>> \in Seq(Place) /\ Append(t, x) = t \o <<x>> /\ Append(t, x) \in Seq(Place)
    BY ONLY <2>1, AppendIsConcat
  <2>4. (f \o t) \o <<x>> = f \o (t \o <<x>>)
    <3> DEFINE y == <<x>>
    <3>1. y \in Seq(Place) /\ t \in Seq(Place) /\ f \in Seq(Place)
      BY <2>1, <2>3
    <3> HIDE DEF y
    <3>2. (f \o t) \o y = f \o (t \o y)
      BY <3>1, PlacesAssociate, Zenon
    <3> QED BY <3>2 DEF y
  <2> QED BY <2>1, <2>2, <2>3, <2>4, Zenon
<1>12. MarkPlaces'
  <2>1. chunk_'[call'.m] = ds /\ bmark'.m = m
    BY <1>1, <1>7, <1>8
  <2>2. \E h \in Seq(Place) : Places(chunk_'[call'.m]) = h \o bmark'.ptr
    BY <1>11, <2>1
  <2>3. ASSUME NEW z \in Marshals, z = bmark'.m
        PROVE  \E h, g \in Seq(Place) : Places(chunk_'[z]) = (h \o bmark'.ptr) \o g
    <3>1. Places(chunk_'[z]) = f \o bmark'.ptr
      BY <1>8, <1>11, <2>1, <2>3
    <3>2. <<>> \in Seq(Place) /\ f \o bmark'.ptr \in Seq(Place)
      BY <1>11, ConcatProperties
    <3>3. (f \o bmark'.ptr) \o <<>> = f \o bmark'.ptr
      BY <3>2, ConcatEmptySeq
    <3>4. Places(chunk_'[z]) = (f \o bmark'.ptr) \o <<>>
      BY <3>1, <3>3, Zenon
    <3> QED BY <3>2, <3>4
  <2> HIDE DEF ds
  <2> QED BY <2>2, <2>3 DEF MarkPlaces, Places, PlacePieces, ChunkPlaces, content_size
<1>13. CallEffect'
  <2>1. Len(call'.bytes) <= call'.n
    <3> DEFINE l == Len(s)
    <3>1. l \in Nat /\ call.n \in Nat /\ call.n - l > 0
      BY <1>1, <1>2 DEF Wanted
    <3>2. l + 1 <= call.n
      <4> HIDE DEF l
      <4> QED BY <3>1
    <3> QED BY <1>7, <3>2
  <2>2. \A i \in DOMAIN call'.bytes : call'.bytes[i] = Hole
    <3>1. \A i \in DOMAIN s : s[i] = Hole
      BY <1>1, <1>2 DEF CallEffect
    <3>2. s \o p \in Seq(Byte) /\ Joins(s \o p, s, p)
      <4> HIDE DEF p, s
      <4> QED BY <1>2, <1>3, ConcatJoins
    <3> DEFINE w == s \o p
               l == Len(s)
    <3>3. /\ l \in Nat /\ Len(w) = l + 1 /\ w \in Seq(Byte)
          /\ \A i \in 1 .. l : w[i] = Hole
          /\ w[l + 1] = Hole
      <4>1. p[1] = Hole /\ 1 \in 1 .. Len(p)
        BY <1>3
      <4> HIDE DEF p, w
      <4>2. /\ Len(w) = Len(s) + Len(p)
            /\ \A i \in 1 .. Len(s) : w[i] = s[i]
            /\ \A i \in 1 .. Len(p) : w[Len(s) + i] = p[i]
        BY <3>2 DEF Joins, w
      <4>3. w[l + 1] = p[1]
        BY <4>1, <4>2
      <4>4. DOMAIN s = 1 .. Len(s) /\ w \in Seq(Byte)
        BY <1>2, <3>2 DEF w
      <4> QED BY <1>2, <1>3, <3>1, <4>1, <4>2, <4>3, <4>4
    <3> HIDE DEF w, l
    <3>4. \A i \in DOMAIN w : i \in 1 .. l \/ i = l + 1
      BY <3>3
    <3>5. \A i \in DOMAIN w : w[i] = Hole
      BY <3>3, <3>4
    <3> QED BY <1>7, <3>5 DEF w
  <2>3. call'.op # "none" /\ call'.op # "peek"
    BY <1>7
  <2> QED BY <1>9, <2>1, <2>2, <2>3, NextEffect
<1>14. BQ!Progress
  <2>1. call.op # "none" /\ call.op # "read_from_fd" /\ supplied' = supplied
    BY <1>1
  <2> HIDE DEF p
  <2> QED BY <1>1, <1>3, <1>9, <2>1, ProgressStep
<1> QED BY <1>12, <1>13, <1>14

\* ... and its return.
LEMMA SetBookmarkEndQueue ==
    ASSUME QueueInv, SetBookmarkEnd
    PROVE  CallEffect' /\ MarkPlaces' /\ BQ!SetBookmark
<1>1. /\ call.op = "set_bookmark" /\ Wanted = 0 /\ Returns
      /\ UNCHANGED <<chunk_, supplied, bmark>>
  BY DEF SetBookmarkEnd, Running
<1>2. /\ MarshalInv /\ CallOK /\ MarkPlaces /\ CallEffect
      /\ call.m \in Marshals /\ chunk_ \in [Marshals -> ChunkList] /\ chunk_[call.m] \in ChunkList
      /\ call.bytes \in Seq(Byte) /\ Len(call.bytes) \in Nat /\ call.n \in Nat
  BY <1>1, RunningFacts
<1>3. call' = Idle
  BY <1>1 DEF Returns
<1>4. CallEffect' /\ MarkPlaces'
  <2>1. \A x \in Marshals : x = bmark.m =>
            \E y \in Seq(Place) : Places(chunk_'[x]) = Places(chunk_[x]) \o y
    BY <1>1, <1>2, SamePlaces
  <2>2. call'.op # "set_bookmark"
    BY <1>3 DEF Idle
  <2>3. CallEffect'
    BY <1>3, IdleEffect
  <2>4. MarkPlaces'
    BY <1>1, <1>2, <2>1, <2>2, MarksStay
  <2> QED BY <2>3, <2>4
<1>5. [x \in Marshals |-> Queue(x)]' =
          [[x \in Marshals |-> Queue(x)] EXCEPT ![call.m] = @ \o call.bytes]
  <2>1. chunk_' = [chunk_ EXCEPT ![call.m] = chunk_[call.m]]
    BY <1>1, <1>2
  <2> QED BY <1>1, <1>2, <2>1, GivesEnd
<1>6. call.bytes = [i \in 1 .. call.n |-> Hole]
  <2>1. Len(call.bytes) = call.n
    <3> DEFINE l == Len(call.bytes)
    <3>1. l \in Nat /\ call.n \in Nat /\ call.n - l = 0
      BY <1>1, <1>2 DEF Wanted
    <3> HIDE DEF l
    <3>2. l = call.n
      BY <3>1
    <3> QED BY <3>2 DEF l
  <2>2. \A i \in DOMAIN call.bytes : call.bytes[i] = Hole
    BY <1>1, <1>2 DEF CallEffect
  <2>3. DOMAIN call.bytes = 1 .. call.n /\ call.bytes = [i \in DOMAIN call.bytes |-> call.bytes[i]]
    BY <1>2, <2>1
  <2> QED BY <2>2, <2>3
<1>7. BQ!SetBookmark
  <2>1. BQ!Return("set_bookmark")
    BY <1>1, <1>3 DEF BQ!Return, BQ!NoCall, Idle
  <2> QED BY <1>5, <1>6, <2>1 DEF BQ!SetBookmark
<1> QED BY <1>4, <1>7

\* The bytes of a Marshal with a bookmark: those at its pointers, a run of
\* them, are the reserved ones.
MarkedAt(a, k, m) ==
    LET P == Places(chunk_[m])
        L == ListBytes(chunk_[m]) IN
    /\ a \in Nat /\ k \in Nat /\ k = Len(bmark.ptr)
    /\ \A j \in 1 .. k : a + j \in 1 .. Len(P) /\ P[a + j] = bmark.ptr[j]
    /\ \A i \in 1 .. Len(P) : L[i] = Hole <=> i \in a + 1 .. a + k
    /\ \A i \in 1 .. Len(P) : \A j \in 1 .. k : P[i] = bmark.ptr[j] => i = a + j

\* A bookmark marks such a run.
LEMMA MarkedRun ==
    ASSUME QueueInv, NEW m \in Marshals, bmark.m = m
    PROVE  \E a, k \in Nat : MarkedAt(a, k, m)
<1> DEFINE cs == chunk_[m]
           P == Places(cs)
           L == ListBytes(cs)
           ptr == bmark.ptr
           k == Len(ptr)
           n == Len(P)
<1>1. /\ BookmarkPoints /\ MarkPlaces /\ cs \in Seq(Chunk) /\ ptr \in Seq(Place)
  BY ListFacts DEF QueueInv, BookInv, MarshalInv, Place
<1>2. PICK f \in Seq(Place), g \in Seq(Place) : P = (f \o ptr) \o g
  BY <1>1 DEF MarkPlaces
<1> DEFINE a == Len(f)
<1>3. /\ P \in Seq(Place) /\ n \in Nat /\ k \in Nat /\ a \in Nat
      /\ \A i \in 1 .. n : Stands(cs, P[i], L[i])
      /\ \A i, j \in 1 .. n : P[i] = P[j] => i = j
  BY <1>1, PlacesAreOK, PlacesType DEF PlacesOK
<1>4. \A j \in 1 .. k : a + j \in 1 .. n /\ P[a + j] = ptr[j]
  <2> DEFINE h == f \o ptr
             w == h \o g
             l == Len(g)
  <2>1. h \in Seq(Place) /\ Joins(h, f, ptr)
    BY <1>1, ConcatJoins
  <2> HIDE DEF h
  <2>2. w \in Seq(Place) /\ Joins(w, h, g) /\ l \in Nat
    BY <2>1, ConcatJoins
  <2>3. P = w
    BY <1>2 DEF h
  <2> HIDE DEF w, P, ptr
  <2>4. /\ Len(h) = a + k /\ \A j \in 1 .. k : h[a + j] = ptr[j]
    BY <2>1 DEF Joins
  <2>5. n = a + k + l /\ \A i \in 1 .. a + k : P[i] = h[i]
    BY <2>2, <2>3, <2>4 DEF Joins
  <2> HIDE DEF a, k, l, n
  <2> QED BY <1>3, <2>2, <2>4, <2>5
<1>5. \A i \in 1 .. n : \A j \in 1 .. k : P[i] = ptr[j] => i = a + j
  BY <1>3, <1>4
<1> HIDE DEF P, L, n
<1>6. ASSUME NEW i \in 1 .. n, i \in a + 1 .. a + k PROVE L[i] = Hole
  <2> DEFINE j == i - a
  <2>1. j \in 1 .. k /\ i = a + j
    BY <1>3, <1>6
  <2> HIDE DEF j
  <2>2. P[i] = ptr[j] /\ Stands(cs, P[i], L[i])
    BY <1>3, <1>4, <2>1
  <2>3. j \in DOMAIN ptr
    BY <1>1, <2>1
  <2>4. Reserved(m, ptr[j][1], ptr[j][2])
    BY <1>1, <2>3 DEF BookmarkPoints
  <2> QED BY <2>2, <2>4 DEF Stands, Reserved
<1>7. ASSUME NEW i \in 1 .. n, L[i] = Hole PROVE i \in a + 1 .. a + k
  <2> DEFINE c == P[i][1]
             b == P[i][2]
  <2>1. Stands(cs, P[i], L[i]) /\ P[i] = <<c, b>>
    <3>1. P[i] \in Place
      BY <1>3 DEF n
    <3> QED BY <1>3, <3>1 DEF Place
  <2>2. c \in DOMAIN cs /\ b \in DOMAIN cs[c].data /\ cs[c].data[b] = Hole
    <3>1. c \in 1 .. Len(cs) /\ b \in 1 .. Len(cs[c].data) /\ cs[c].data[b] = Hole
      BY <1>7, <2>1 DEF Stands
    <3>2. cs[c] \in Chunk /\ DOMAIN cs = 1 .. Len(cs)
      BY <1>1, <3>1
    <3>3. DOMAIN cs[c].data = 1 .. Len(cs[c].data)
      BY <3>2, ChunkFacts
    <3> QED BY <3>1, <3>2, <3>3
  <2>3. PICK j \in DOMAIN ptr : ptr[j] = <<c, b>>
    BY <1>1, <2>2 DEF BookmarkPoints, Reserved
  <2>4. j \in 1 .. k /\ P[i] = ptr[j]
    BY <1>1, <2>1, <2>3
  <2>5. i = a + j
    BY <1>5, <2>4
  <2> HIDE DEF a, k
  <2> QED BY <1>3, <2>4, <2>5
<1>8. MarkedAt(a, k, m)
  BY <1>3, <1>4, <1>5, <1>6, <1>7 DEF MarkedAt, P, L, n
<1> QED BY <1>3, <1>8

\* write_bookmark moves nothing, and writes the reserved bytes in their order.
LEMMA PatchedBytes ==
    ASSUME QueueInv, NEW m \in Marshals, WriteBookmark(m),
           NEW a \in Nat, NEW k \in Nat, MarkedAt(a, k, m)
    PROVE  /\ Places(chunk_'[m]) = Places(chunk_[m])
           /\ ListBytes(chunk_'[m]) =
                  [i \in DOMAIN ListBytes(chunk_[m]) |->
                      IF i \in a + 1 .. a + k THEN supplied + (i - a) ELSE ListBytes(chunk_[m])[i]]
<1> DEFINE cs == chunk_[m]
           ds == chunk_'[m]
           P == Places(cs)
           L == ListBytes(cs)
           M == ListBytes(ds)
           n == Len(P)
           ptr == bmark.ptr
<1>1. /\ MarshalInv /\ chunk_ \in [Marshals -> ChunkList] /\ cs \in Seq(Chunk) /\ supplied \in Nat
      /\ ptr \in Seq(Place) /\ k = Len(ptr)
      /\ Len(cs) \in Nat /\ DOMAIN cs = 1 .. Len(cs) /\ \A c \in 1 .. Len(cs) : cs[c] \in Chunk
  BY ListFacts DEF QueueInv, BookInv, MarshalInv, Place, MarkedAt
<1>2. ds = [c \in 1 .. Len(cs) |-> PatchChunk(cs[c], c)]
  BY <1>1 DEF WriteBookmark
<1>3. /\ ds \in Seq(Chunk) /\ Len(ds) = Len(cs)
      /\ \A c \in 1 .. Len(cs) : ds[c] = PatchChunk(cs[c], c)
  BY <1>1, <1>2, PatchChunkIsChunk, IsASeq
<1>4. \A c \in 1 .. Len(cs) :
          /\ ds[c].read_idx = cs[c].read_idx /\ Len(ds[c].data) = Len(cs[c].data)
          /\ \A b \in 1 .. Len(cs[c].data) : ds[c].data[b] = Patched(c, b, cs[c].data[b])
  BY <1>1, <1>3, PatchChunkIsChunk
<1> HIDE DEF cs, ds
<1>5. Places(ds) = P
  BY <1>1, <1>3, <1>4, PatchedPlaces
<1>6. /\ L \in Seq(Byte) /\ M \in Seq(Byte) /\ n \in Nat /\ Len(L) = n /\ Len(M) = n
      /\ \A i \in 1 .. n : Stands(cs, P[i], L[i]) /\ Stands(ds, P[i], M[i])
  BY <1>1, <1>3, <1>5, PlacesAreOK, PlacesType, ListBytesType DEF PlacesOK
<1>7. /\ \A j \in 1 .. k : a + j \in 1 .. n /\ P[a + j] = ptr[j]
      /\ \A i \in 1 .. n : \A j \in 1 .. k : P[i] = ptr[j] => i = a + j
  BY DEF MarkedAt, cs
<1>8. \A i \in 1 .. n : P[i] = <<P[i][1], P[i][2]>>
  <2>1. P \in Seq(Place)
    BY <1>1, PlacesType
  <2> QED BY <2>1 DEF Place
<1> HIDE DEF P, L, M, n, ptr
<1>9. ASSUME NEW i \in 1 .. n
      PROVE  M[i] = Patched(P[i][1], P[i][2], L[i])
  BY <1>4, <1>6 DEF Stands
<1>10. DOMAIN ptr = 1 .. k
  BY <1>1
<1>11. ASSUME NEW i \in 1 .. n
       PROVE  M[i] = IF i \in a + 1 .. a + k THEN supplied + (i - a) ELSE L[i]
  <2>1. CASE i \in a + 1 .. a + k
    <3> DEFINE j == i - a
    <3>1. j \in 1 .. k /\ i = a + j
      BY <2>1
    <3> HIDE DEF j
    <3>2. P[i] = ptr[j]
      BY <1>7, <3>1
    <3>3. \A y \in 1 .. k : ptr[y] = P[i] => y = j
      <4>1. \A y \in 1 .. k : a + y = a + j => y = j
        BY <3>1
      <4> QED BY <1>7, <3>1, <4>1
    <3>4. ptr[j] = <<P[i][1], P[i][2]>>
      BY <1>8, <3>2
    <3>5. (CHOOSE y \in DOMAIN ptr : ptr[y] = <<P[i][1], P[i][2]>>) = j
      BY <1>8, <1>10, <3>1, <3>3, <3>4
    <3>6. Patched(P[i][1], P[i][2], L[i]) = supplied + j
      BY <1>10, <3>1, <3>4, <3>5 DEF Patched, ptr
    <3> QED BY <1>9, <2>1, <3>6 DEF j
  <2>2. CASE i \notin a + 1 .. a + k
    <3>1. \A y \in 1 .. k : P[i] # ptr[y]
      <4>1. \A y \in 1 .. k : a + y \in a + 1 .. a + k
        OBVIOUS
      <4> QED BY <1>7, <2>2, <4>1
    <3>2. Patched(P[i][1], P[i][2], L[i]) = L[i]
      BY <1>8, <1>10, <3>1 DEF Patched, ptr
    <3> QED BY <1>9, <2>2, <3>2
  <2> QED BY <2>1, <2>2
<1>12. M = [i \in 1 .. n |-> IF i \in a + 1 .. a + k THEN supplied + (i - a) ELSE L[i]]
  <2>1. M = [i \in 1 .. n |-> M[i]]
    BY <1>6
  <2> QED BY <1>11, <2>1
<1>13. DOMAIN L = 1 .. n
  BY <1>6
<1> QED BY <1>5, <1>12, <1>13 DEF P, L, M, cs, ds

\* The two names of Cardinality.
LEMMA SameCardinality == \A S : BQ!Cardinality(S) = Cardinality(S)
BY Zenon DEF BQ!Cardinality, Cardinality

\* Marshal::write_bookmark.
LEMMA WriteBookmarkQueue ==
    ASSUME QueueInv, NEW m \in Marshals, WriteBookmark(m)
    PROVE  CallEffect' /\ MarkPlaces' /\ BQ!WriteBookmark(m)
<1>1. /\ MarshalInv /\ chunk_ \in [Marshals -> ChunkList] /\ supplied \in Nat
      /\ chunk_[m] \in ChunkList /\ chunk_[m] \in Seq(Chunk)
      /\ call = Idle /\ call' = Idle /\ bmark.m = m /\ bmark' = NoBookmark
      /\ supplied' = supplied + Len(bmark.ptr)
  BY ListFacts DEF QueueInv, BookInv, MarshalInv, WriteBookmark
<1>2. \A x \in Marshals \ {m} : chunk_'[x] = chunk_[x]
  BY <1>1 DEF WriteBookmark
<1>3. \A x \in Marshals : chunk_'[x] \in ChunkList
  <2>1. MarshalInv'
    BY <1>1, WriteBookmarkOK
  <2> QED BY <2>1 DEF MarshalInv
<1>4. CallEffect'
  BY <1>1, IdleEffect
<1>5. MarkPlaces'
  <2>1. ASSUME NEW x \in Marshals
        PROVE  \E f, g \in Seq(Place) : Places(chunk_'[x]) = (f \o bmark'.ptr) \o g
    <3>1. Places(chunk_'[x]) \in Seq(Place) /\ <<>> \in Seq(Place) /\ bmark'.ptr = <<>>
      BY <1>1, <1>3, ListFacts, PlacesType DEF NoBookmark
    <3> DEFINE p == Places(chunk_'[x])
    <3>2. p \in Seq(Place)
      BY <3>1
    <3> HIDE DEF p
    <3>3. p \o <<>> = p
      BY <3>2, ConcatEmptySeq
    <3>4. (p \o bmark'.ptr) \o <<>> = p
      BY <3>1, <3>3
    <3> QED BY <3>1, <3>2, <3>4 DEF p
  <2>2. call'.op # "set_bookmark"
    BY <1>1 DEF Idle
  <2> QED BY <2>1, <2>2 DEF MarkPlaces, Places, PlacePieces, ChunkPlaces, content_size
<1>6. PICK a \in Nat, k \in Nat : MarkedAt(a, k, m)
  BY <1>1, MarkedRun
<1> DEFINE L == ListBytes(chunk_[m])
           holes == {i \in DOMAIN L : L[i] = Hole}
           n == Len(L)
<1>7. /\ ListBytes(chunk_'[m]) =
             [i \in DOMAIN L |-> IF i \in a + 1 .. a + k THEN supplied + (i - a) ELSE L[i]]
  BY <1>6, PatchedBytes
<1>8. L \in Seq(Byte) /\ n \in Nat /\ n = Len(Places(chunk_[m])) /\ DOMAIN L = 1 .. n
  <2>1. L \in Seq(Byte) /\ Len(L) \in Nat /\ Len(L) = Len(Places(chunk_[m]))
    BY <1>1, ListBytesType, PlacesAreOK DEF PlacesOK
  <2> HIDE DEF L
  <2> QED BY <2>1
<1>9. holes = a + 1 .. a + k
  <2>1. \A i \in 1 .. n : L[i] = Hole <=> i \in a + 1 .. a + k
    BY <1>6, <1>8 DEF MarkedAt
  <2>2. \A i \in a + 1 .. a + k : i \in 1 .. n
    <3>1. \A j \in 1 .. k : a + j \in 1 .. n
      BY <1>6, <1>8 DEF MarkedAt
    <3>2. ASSUME NEW i \in a + 1 .. a + k PROVE i \in 1 .. n
      <4> DEFINE j == i - a
      <4>1. j \in 1 .. k /\ a + j = i
        OBVIOUS
      <4> HIDE DEF j, n
      <4> QED BY <3>1, <4>1
    <3> QED BY <3>2
  <2> HIDE DEF L, n
  <2> QED BY <1>8, <2>1, <2>2
<1>10. BQ!Cardinality(holes) = k
  <2>1. Cardinality(a + 1 .. a + k) = IF a + 1 > a + k THEN 0 ELSE a + k - (a + 1) + 1
    BY FS_Interval
  <2>2. Cardinality(a + 1 .. a + k) = k
    BY <2>1
  <2> QED BY <1>9, <2>2, SameCardinality
<1>11. ListBytes(chunk_'[m]) =
           [i \in DOMAIN L |->
               IF i \in holes THEN supplied + i - BQ!Min(holes) + 1 ELSE L[i]]
  <2>1. ASSUME NEW i \in a + 1 .. a + k
        PROVE  supplied + (i - a) = supplied + i - BQ!Min(holes) + 1
    <3>1. k # 0
      BY <2>1
    <3>2. BQ!Min(holes) = a + 1
      BY <1>9, <3>1, MinOfRange
    <3> QED BY <1>1, <3>2
  <2> HIDE DEF L, holes
  <2> QED BY <1>7, <1>9, <2>1
<1>12. \A x \in Marshals \ {m} : Queue(x)' = Queue(x)
  <2> SUFFICES ASSUME NEW x \in Marshals \ {m} PROVE Queue(x)' = Queue(x)
    OBVIOUS
  <2>1. Queue(x)' = ListBytes(chunk_[x])
    BY <1>1, <1>2, IdleQueueNext
  <2> QED BY <1>1, <2>1, IdleQueue
<1>13. Queue(m) = L /\ Queue(m)' = ListBytes(chunk_'[m])
  BY <1>1, IdleQueue, IdleQueueNext
<1> DEFINE q == [x \in Marshals |-> Queue(x)]
<1>14. q[m] = L
  BY <1>13
<1>15. q' = [q EXCEPT ![m] = [i \in DOMAIN L |->
                 IF i \in holes THEN supplied + i - BQ!Min(holes) + 1 ELSE L[i]]]
  <2> HIDE DEF L, holes
  <2> QED BY <1>11, <1>12, <1>13, OneQueue
<1>16. BQ!Supply(BQ!Cardinality(holes))
  <2>1. k = Len(bmark.ptr)
    BY <1>6 DEF MarkedAt
  <2>2. supplied' = supplied + BQ!Cardinality(holes)
    BY <1>1, <1>10, <2>1
  <2> HIDE DEF holes
  <2> QED BY <1>1, <2>2 DEF BQ!Supply, BQ!NoCall, Idle
<1>17. BQ!WriteBookmark(m)
  <2>1. holes = {i \in DOMAIN q[m] : q[m][i] = Hole}
    BY <1>14
  <2> HIDE DEF L, holes
  <2>2. BQ!Supply(BQ!Cardinality({i \in DOMAIN q[m] : q[m][i] = Hole}))
    BY <1>16, <2>1
  <2>3. q' = [q EXCEPT ![m] = [i \in DOMAIN q[m] |->
                  IF i \in {j \in DOMAIN q[m] : q[m][j] = Hole}
                  THEN supplied + i - BQ!Min({j \in DOMAIN q[m] : q[m][j] = Hole}) + 1
                  ELSE q[m][i]]]
    <3> HIDE DEF q
    <3> QED BY <1>14, <1>15, <2>1
  <2> QED BY <2>2, <2>3 DEF BQ!WriteBookmark
<1> QED BY <1>4, <1>5, <1>17

-------------------------------------------------------------------------------
(* Every step.                                                             *)

\* A call that starts has moved nothing.
LEMMA StartQueue ==
    ASSUME QueueInv, NEW op \in Operations \ {"none"}, NEW m \in Marshals, NEW o \in Marshals,
           NEW n \in Nat, Start(op, m, o, n), op = "set_bookmark" => bmark.ptr = <<>>
    PROVE  CallEffect' /\ MarkPlaces' /\ BQ!Begin
<1>1. /\ call = Idle /\ UNCHANGED <<chunk_, supplied, bmark>>
      /\ call' = [op |-> op, m |-> m, from |-> o, n |-> n, at |-> 0, bytes |-> <<>>]
  BY DEF Start, Idle
<1>2. /\ MarshalInv /\ MarkPlaces /\ chunk_ \in [Marshals -> ChunkList]
      /\ bmark.ptr \in Seq(Place)
  BY DEF QueueInv, BookInv, MarshalInv, Place
<1>3. ASSUME NEW x \in Marshals
      PROVE  /\ chunk_[x] \in ChunkList /\ chunk_[x] \in Seq(Chunk) /\ ListBytes(chunk_[x]) \in Seq(Byte)
             /\ Places(chunk_[x]) \in Seq(Place)
  BY <1>2, ListFacts, ListBytesType, PlacesType
<1>4. \A x \in Marshals : Queue(x)' = Queue(x)
  <2> SUFFICES ASSUME NEW x \in Marshals PROVE Queue(x)' = Queue(x)
    OBVIOUS
  <2>1. Queue(x) = ListBytes(chunk_[x])
    BY <1>1, IdleQueue
  <2>2. Queue(x)' = QueueOf(call', ListBytes(chunk_[x]), x)
    BY <1>1, QueueIs
  <2>3. QueueOf(call', ListBytes(chunk_[x]), x) = ListBytes(chunk_[x])
    BY <1>1, <1>3, QueueStarts
  <2> QED BY <2>1, <2>2, <2>3, Zenon
<1>5. CallEffect'
  <2>1. /\ call'.op = op /\ call'.m = m /\ call'.n = n /\ call'.at = 0 /\ call'.bytes = <<>>
        /\ chunk_'[m] = chunk_[m] /\ Len(<<>>) <= n
    BY <1>1
  <2>2. /\ <<>> \in Seq(Byte)
        /\ ListBytes(chunk_[m]) \o <<>> = ListBytes(chunk_[m])
        /\ <<>> \o ListBytes(chunk_[m]) = ListBytes(chunk_[m])
    BY <1>3, ConcatEmptySeq
  <2>3. From(chunk_[m], 0) = chunk_[m]
    <3>1. chunk_[m] \in Seq(Chunk)
      BY <1>3
    <3> DEFINE cs == chunk_[m]
    <3> HIDE DEF cs
    <3>2. SubSeq(cs, 0 + 1, Len(cs)) = cs
      <4>1. cs \in Seq(Chunk)
        BY <3>1 DEF cs
      <4> QED BY <4>1, SubSeqFull
    <3> QED BY <3>2 DEF From, cs
  <2>4. \E g \in Seq(Byte) : ListBytes(chunk_'[call'.m]) = g \o call'.bytes
    BY <1>3, <2>1, <2>2
  <2>5. \E g \in Seq(Byte) :
            /\ ListBytes(chunk_'[call'.m]) = call'.bytes \o g
            /\ Len(call'.bytes) < call'.n => g = ListBytes(From(chunk_'[call'.m], call'.at))
    BY <1>3, <2>1, <2>2, <2>3
  <2>6. call'.op # "none" /\ \A i \in DOMAIN call'.bytes : call'.bytes[i] = Hole
    BY <2>1
  <2> QED BY <2>1, <2>4, <2>5, <2>6, NextEffect
<1>6. MarkPlaces'
  <2>1. call'.op = "set_bookmark" =>
            \E f \in Seq(Place) : Places(chunk_'[call'.m]) = f \o bmark'.ptr
    <3>1. Places(chunk_[m]) \in Seq(Place) /\ Places(chunk_[m]) \o <<>> = Places(chunk_[m])
      BY <1>3, ConcatEmptySeq
    <3> QED BY <1>1, <3>1
  <2>2. \A x \in Marshals : x = bmark'.m =>
            \E f, g \in Seq(Place) : Places(chunk_'[x]) = (f \o bmark'.ptr) \o g
    BY <1>1, <1>2 DEF MarkPlaces
  <2> QED BY <2>1, <2>2 DEF MarkPlaces, Places, PlacePieces, ChunkPlaces, content_size
<1>7. BQ!Begin
  <2>1. [x \in Marshals |-> Queue(x)]' = [x \in Marshals |-> Queue(x)]
    BY <1>4, SameQueues
  <2>2. call'.op # "none" /\ call'.bytes = <<>>
    BY <1>1
  <2> QED BY <1>1, <2>1, <2>2 DEF BQ!Begin, BQ!NoCall, Idle
<1> QED BY <1>5, <1>6, <1>7

\* Every call that starts.
LEMMA StartsQueue ==
    ASSUME QueueInv, NEW m \in Marshals, NEW n \in Nat, NEW o \in Marshals,
           \/ StartRead(m, n) \/ StartPeek(m, n) \/ StartWriteToFd(m) \/ StartReadFromFd(m)
           \/ StartReadFromMarshal(m, o, n) \/ StartSetBookmark(m, n)
    PROVE  CallEffect' /\ MarkPlaces' /\ BQ!Begin
<1>1. CASE StartRead(m, n) \/ StartPeek(m, n)
  <2>1. PICK op \in {"read", "peek"} : Start(op, m, m, n)
    BY <1>1 DEF StartRead, StartPeek
  <2> QED BY <2>1, StartQueue DEF Operations
<1>2. CASE StartWriteToFd(m) \/ StartReadFromFd(m)
  <2>1. PICK op \in {"write_to_fd", "read_from_fd"} : Start(op, m, m, 0)
    BY <1>2 DEF StartWriteToFd, StartReadFromFd
  <2> QED BY <2>1, StartQueue DEF Operations
<1>3. CASE StartReadFromMarshal(m, o, n)
  <2>1. Start("read_from_marshal", m, o, n)
    BY <1>3 DEF StartReadFromMarshal
  <2> QED BY <2>1, StartQueue DEF Operations
<1>4. CASE StartSetBookmark(m, n)
  <2>1. Start("set_bookmark", m, m, n) /\ bmark.ptr = <<>>
    BY <1>4 DEF StartSetBookmark, NoBookmark
  <2> QED BY <2>1, StartQueue DEF Operations
<1> QED BY <1>1, <1>2, <1>3, <1>4

\* In the initial state every queue is empty.
LEMMA QueueInit == Init => QueueInv /\ BQ!Init
<1> SUFFICES ASSUME Init PROVE QueueInv /\ BQ!Init
  OBVIOUS
<1>1. BookInv
  <2>1. BookmarkPoints
    BY DEF Init, NoBookmark, BookmarkPoints, Reserved
  <2>2. Marks
    BY DEF Init, NoBookmark, Idle, Marks
  <2> QED BY <2>1, <2>2, InitOK DEF BookInv
<1>2. call = Idle /\ bmark.ptr = <<>> /\ \A m \in Marshals : chunk_[m] = <<>>
  BY DEF Init, NoBookmark
<1>3. CallEffect
  BY <1>2 DEF CallEffect, Idle, Limited, Gives
<1>4. MarkPlaces
  <2>1. \A m \in Marshals : Places(chunk_[m]) = <<>>
    BY <1>2, PlacesEmpty
  <2>2. <<>> \in Seq(Place) /\ (<<>> \o <<>>) \o <<>> = <<>>
    OBVIOUS
  <2> QED BY <1>2, <2>1, <2>2 DEF MarkPlaces, Idle
<1>5. \A m \in Marshals : Queue(m) = <<>>
  BY <1>2, IdleQueue, ListBytesEmpty
<1>6. BQ!Init
  BY <1>5 DEF BQ!Init, BQ!NoCall, Init, Idle
<1> QED BY <1>1, <1>3, <1>4, <1>6 DEF QueueInv

\* A step that leaves the bytes alone.
LEMMA SameQueue ==
    ASSUME QueueInv, UNCHANGED <<chunk_, supplied, call, bmark>>
    PROVE  /\ CallEffect' /\ MarkPlaces'
           /\ UNCHANGED <<[m \in Marshals |-> Queue(m)], supplied,
                          [op |-> call.op, m |-> call.m, from |-> call.from, n |-> call.n], call.bytes>>
<1>1. CallEffect'
  BY DEF QueueInv, CallEffect, ListBytes, Pieces, Unread, Content, content_size, From
<1>2. MarkPlaces'
  BY DEF QueueInv, MarkPlaces, Places, PlacePieces, ChunkPlaces, content_size
<1>3. \A m \in Marshals : Queue(m)' = Queue(m)
  BY QueueIs
<1> QED BY <1>1, <1>2, <1>3, SameQueues

\* QueueInv is inductive, and every step is a step of ByteQueue or none.
LEMMA QueueStep ==
    QueueInv /\ [Next]_vars =>
        QueueInv' /\ [BQ!Next]_<<[m \in Marshals |-> Queue(m)], supplied,
                                 [op |-> call.op, m |-> call.m, from |-> call.from, n |-> call.n],
                                 call.bytes>>
<1> DEFINE T == <<[m \in Marshals |-> Queue(m)], supplied,
                  [op |-> call.op, m |-> call.m, from |-> call.from, n |-> call.n], call.bytes>>
<1> SUFFICES ASSUME QueueInv, [Next]_vars PROVE QueueInv' /\ [BQ!Next]_T
  OBVIOUS
<1>1. BookInv'
  BY BookStep DEF QueueInv
<1>2. ASSUME CallEffect' /\ MarkPlaces' /\ (BQ!Next \/ UNCHANGED T)
      PROVE  QueueInv' /\ [BQ!Next]_T
  <2>1. QueueInv'
    BY <1>1, <1>2 DEF QueueInv
  <2> HIDE DEF T
  <2> QED BY <1>2, <2>1
<1> HIDE DEF T
<1>3. ASSUME UNCHANGED <<chunk_, supplied, call, bmark>>
      PROVE  QueueInv' /\ [BQ!Next]_T
  <2>1. CallEffect' /\ MarkPlaces' /\ UNCHANGED T
    BY <1>3, SameQueue DEF T
  <2> QED BY <1>2, <2>1
<1>4. CASE Step
  <2>1. CASE ReadLoop \/ ReadEnd
    <3>1. CallEffect' /\ MarkPlaces' /\ (BQ!Read \/ BQ!WriteToFd \/ BQ!Progress)
      BY <2>1, ReadQueue
    <3>2. BQ!Next
      BY <3>1, Zenon DEF BQ!Next
    <3> QED BY <1>2, <3>1, <3>2
  <2>2. CASE PeekLoop \/ PeekEnd
    <3>1. CallEffect' /\ MarkPlaces' /\ (BQ!Peek \/ BQ!Progress)
      BY <2>2, PeekLoopQueue, PeekEndQueue
    <3>2. BQ!Next
      BY <3>1, Zenon DEF BQ!Next
    <3> QED BY <1>2, <3>1, <3>2
  <2>3. CASE WriteToFdLoop \/ WriteToFdEnd
    <3>1. CallEffect' /\ MarkPlaces' /\ (BQ!Read \/ BQ!WriteToFd \/ BQ!Progress)
      BY <2>3, WriteToFdQueue
    <3>2. BQ!Next
      BY <3>1, Zenon DEF BQ!Next
    <3> QED BY <1>2, <3>1, <3>2
  <2>4. CASE ReadFromFdLoop \/ ReadFromFdEnd
    <3>1. CallEffect' /\ MarkPlaces' /\ (BQ!ReadFromFd \/ BQ!Progress)
      BY <2>4, ReadFromFdQueue
    <3>2. BQ!Next
      BY <3>1, Zenon DEF BQ!Next
    <3> QED BY <1>2, <3>1, <3>2
  <2>5. CASE TransferChunk \/ CopyChunk \/ ReadFromMarshalEnd
    <3>1. CallEffect' /\ MarkPlaces' /\ (BQ!ReadFromMarshal \/ BQ!Progress)
      BY <2>5, ReadFromMarshalQueue
    <3>2. BQ!Next
      BY <3>1, Zenon DEF BQ!Next
    <3> QED BY <1>2, <3>1, <3>2
  <2>6. CASE SetBookmarkLoop \/ SetBookmarkEnd
    <3>1. CallEffect' /\ MarkPlaces' /\ (BQ!SetBookmark \/ BQ!Progress)
      BY <2>6, SetBookmarkLoopQueue, SetBookmarkEndQueue
    <3>2. BQ!Next
      BY <3>1, Zenon DEF BQ!Next
    <3> QED BY <1>2, <3>1, <3>2
  <2> QED BY <1>4, <2>1, <2>2, <2>3, <2>4, <2>5, <2>6 DEF Step
<1>5. ASSUME NEW m \in Marshals, Call(m) PROVE QueueInv' /\ [BQ!Next]_T
  <2>1. CASE \E n \in 0 .. MaxArg : Write(m, n)
    <3>1. PICK n \in Nat : Write(m, n)
      BY <2>1
    <3>2. CallEffect' /\ MarkPlaces' /\ BQ!Write(m)
      BY <3>1, WriteQueue
    <3>3. BQ!Next
      BY <3>2, Zenon DEF BQ!Next
    <3> QED BY <1>2, <3>2, <3>3
  <2>2. CASE ResetCounter(m)
    <3>1. UNCHANGED <<chunk_, supplied, call, bmark>>
      BY <2>2 DEF ResetCounter
    <3> QED BY <1>3, <3>1
  <2>3. CASE WriteBookmark(m)
    <3>1. CallEffect' /\ MarkPlaces' /\ BQ!WriteBookmark(m)
      BY <2>3, WriteBookmarkQueue
    <3>2. BQ!Next
      BY <3>1, Zenon DEF BQ!Next
    <3> QED BY <1>2, <3>1, <3>2
  <2>4. CASE \/ \E n \in 0 .. MaxArg : StartRead(m, n) \/ StartPeek(m, n)
             \/ \E n \in 0 .. MaxArg, o \in Marshals : StartReadFromMarshal(m, o, n)
             \/ \E n \in 1 .. MaxArg : StartSetBookmark(m, n)
             \/ StartWriteToFd(m) \/ StartReadFromFd(m)
    <3>1. PICK n \in Nat, o \in Marshals :
              \/ StartRead(m, n) \/ StartPeek(m, n) \/ StartWriteToFd(m) \/ StartReadFromFd(m)
              \/ StartReadFromMarshal(m, o, n) \/ StartSetBookmark(m, n)
      BY <2>4
    <3>2. CallEffect' /\ MarkPlaces' /\ BQ!Begin
      BY <3>1, StartsQueue
    <3>3. BQ!Next
      BY <3>2, Zenon DEF BQ!Next
    <3> QED BY <1>2, <3>2, <3>3
  <2> QED BY <1>5, <2>1, <2>2, <2>3, <2>4 DEF Call
<1>6. CASE UNCHANGED vars
  <2>1. UNCHANGED <<chunk_, supplied, call, bmark>>
    BY <1>6 DEF vars
  <2> QED BY <1>3, <2>1
<1>7. QueueInv' /\ [BQ!Next]_T
  BY <1>4, <1>5, <1>6 DEF Next
<1> QED BY <1>7 DEF T

\* What a running call has moved and what is left in the chunks make up the queue,
\* and a bookmark names reserved bytes that follow one another, at every moment.
THEOREM MarshalQueueInvariant == Spec => []QueueInv
BY QueueInit, QueueStep, PTL DEF Spec

\* A Marshal is a first-in first-out queue of bytes: read, peek, write_to_fd,
\* read_from_marshal, read_from_fd, write and the two halves of a bookmark do to
\* the chunks what they do to the queue, for any chunk size, arguments and Marshals.
THEOREM MarshalImplementsByteQueue == Spec => IsByteQueue
BY QueueInit, QueueStep, PTL DEF Spec, IsByteQueue, BQ!Spec

================================================================================
