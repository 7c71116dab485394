----------------------------- MODULE MarshalProofs -----------------------------
(***************************************************************************)
(* Theorems about Marshal, for any set of Marshals, any chunk size and any *)
(* arguments: no assert of Chunk or of Marshal fails, only the last chunk  *)
(* of a Marshal has room or is without content, and a bookmark points to   *)
(* the bytes reserved for it until it is written.                          *)
(***************************************************************************)
EXTENDS Marshal, SequenceTheorems, TLAPS

-------------------------------------------------------------------------------
(* The invariant.                                                          *)

\* A chunk in a list: its asserts hold, and there is something left to read or
\* to write in it.
Chunk ==
    {c \in [size : Nat, data : Seq(Byte), read_idx : Nat] : ChunkOK(c) /\ ~fully_read(c)}

Packed(cs) == \A i \in 1 .. Len(cs) - 1 : fully_written(cs[i])

ChunkList == {cs \in Seq(Chunk) : Packed(cs)}

Operations ==
    {"none", "read", "peek", "write_to_fd", "read_from_fd", "read_from_marshal", "set_bookmark"}

CallOK ==
    /\ call \in [op : Operations, m : Marshals \cup {{}}, from : Marshals \cup {{}},
                 n : Nat, at : Nat, bytes : Seq(Byte)]
    /\ call.op # "none" => call.m \in Marshals /\ call.from \in Marshals
    /\ call.op = "read_from_marshal" => call.m # call.from
    /\ call.op \in {"read", "write_to_fd"} => call.m = call.from

MarshalInv ==
    /\ chunk_ \in [Marshals -> ChunkList]
    /\ supplied \in Nat
    /\ bmark.ptr \in Seq(Nat \X Nat)
    /\ CallOK

-------------------------------------------------------------------------------
(* The operators on chunks and lists of chunks.                            *)

\* The indexes of a chunk: read_idx <= write_idx <= size, and never all read.
LEMMA ChunkFacts ==
    ASSUME NEW c \in Chunk
    PROVE  /\ c \in [size : Nat, data : Seq(Byte), read_idx : Nat]
           /\ c.size \in Nat /\ c.data \in Seq(Byte) /\ Len(c.data) \in Nat /\ c.read_idx \in Nat
           /\ c.read_idx <= Len(c.data) /\ Len(c.data) <= c.size /\ c.read_idx < c.size
           /\ content_size(c) \in Nat /\ writable(c) \in Nat
BY DEF Chunk, ChunkOK, fully_read, content_size, writable

\* peek() of no more than a chunk has.
LEMMA ContentIsBytes ==
    ASSUME NEW c \in Chunk, NEW n \in Nat, n <= content_size(c)
    PROVE  Content(c, n) \in Seq(Byte) /\ Len(Content(c, n)) = n
<1>1. /\ c.data \in Seq(Byte) /\ c.read_idx \in Nat
      /\ c.read_idx + n <= Len(c.data)
  BY ChunkFacts DEF content_size
<1> QED BY <1>1, SubSeqProperties DEF Content

\* The constructors of Chunk.
LEMMA NewChunkIsChunk ==
    ASSUME NEW p \in Seq(Byte)
    PROVE  NewChunk(p) \in Chunk
BY MarshalAssumption DEF NewChunk, Chunk, ChunkOK, fully_read

\* Chunk::write of no more than there is room for.
LEMMA WriteChunkIsChunk ==
    ASSUME NEW c \in Chunk, NEW p \in Seq(Byte), Len(p) <= writable(c)
    PROVE  WriteChunk(c, p) \in Chunk
<1>1. c.data \o p \in Seq(Byte) /\ Len(c.data \o p) = Len(c.data) + Len(p)
  BY ChunkFacts, ConcatProperties
<1>2. /\ WriteChunk(c, p) \in [size : Nat, data : Seq(Byte), read_idx : Nat]
      /\ WriteChunk(c, p).size = c.size
      /\ WriteChunk(c, p).data = c.data \o p
      /\ WriteChunk(c, p).read_idx = c.read_idx
  BY <1>1, ChunkFacts DEF WriteChunk
<1> QED BY <1>1, <1>2, ChunkFacts DEF Chunk, ChunkOK, fully_read, writable

\* Chunk::read that leaves something to be read.
LEMMA ReadChunkIsChunk ==
    ASSUME NEW c \in Chunk, NEW r \in Nat, r <= content_size(c), ~fully_read(ReadChunk(c, r))
    PROVE  /\ ReadChunk(c, r) \in Chunk
           /\ fully_written(ReadChunk(c, r)) <=> fully_written(c)
<1>1. /\ ReadChunk(c, r) \in [size : Nat, data : Seq(Byte), read_idx : Nat]
      /\ ReadChunk(c, r).size = c.size
      /\ ReadChunk(c, r).data = c.data
      /\ ReadChunk(c, r).read_idx = c.read_idx + r
  BY ChunkFacts DEF ReadChunk
<1> QED BY <1>1, ChunkFacts DEF Chunk, ChunkOK, fully_written, content_size

\* A list of chunks of which only the last may have room.
LEMMA ListFacts ==
    ASSUME NEW cs \in ChunkList
    PROVE  /\ cs \in Seq(Chunk) /\ Len(cs) \in Nat
           /\ \A k \in 1 .. Len(cs) - 1 : fully_written(cs[k])
           /\ \A k \in 1 .. Len(cs) : cs[k] \in Chunk
           /\ cs # <<>> => Len(cs) > 0 /\ Head(cs) = cs[1] /\ Head(cs) \in Chunk /\ Last(cs) \in Chunk
BY DEF ChunkList, Packed, Last

\* pop_front()
LEMMA TailIsList ==
    ASSUME NEW cs \in ChunkList, cs # <<>>
    PROVE  /\ Tail(cs) \in ChunkList
           /\ Len(Tail(cs)) = Len(cs) - 1
           /\ \A k \in 1 .. Len(cs) - 1 : Tail(cs)[k] = cs[k + 1]
<1>1. /\ Tail(cs) \in Seq(Chunk) /\ Len(Tail(cs)) = Len(cs) - 1
      /\ \A k \in 1 .. Len(cs) - 1 : Tail(cs)[k] = cs[k + 1]
  BY ListFacts
<1>2. Packed(Tail(cs))
  BY <1>1, ListFacts DEF Packed
<1> QED BY <1>1, <1>2 DEF ChunkList

\* push_back() of a chunk behind a list without room
LEMMA AppendIsList ==
    ASSUME NEW cs \in ChunkList, NEW c \in Chunk, NeedsChunk(cs)
    PROVE  Append(cs, c) \in ChunkList /\ Append(cs, c) # <<>> /\ Last(Append(cs, c)) = c
<1>1. /\ Append(cs, c) \in Seq(Chunk) /\ Len(Append(cs, c)) = Len(cs) + 1
      /\ Append(cs, c)[Len(cs) + 1] = c
      /\ \A k \in 1 .. Len(cs) : Append(cs, c)[k] = cs[k]
  BY ListFacts, AppendProperties
<1>2. \A k \in 1 .. Len(cs) : fully_written(cs[k])
  BY ListFacts DEF NeedsChunk, Last
<1>3. Packed(Append(cs, c))
  BY <1>1, <1>2, ListFacts DEF Packed
<1>4. Len(cs) \in Nat /\ Last(Append(cs, c)) = c /\ Append(cs, c) # <<>>
  <2>1. Len(cs) \in Nat
    BY ListFacts
  <2>2. Last(Append(cs, c)) = Append(cs, c)[Len(cs) + 1]
    BY <1>1 DEF Last
  <2> QED BY <2>1, <2>2, <1>1
<1> QED BY <1>1, <1>3, <1>4 DEF ChunkList

\* There is room after push_back() of a new chunk where there was none.
LEMMA WithRoomIsList ==
    ASSUME NEW cs \in ChunkList
    PROVE  /\ WithRoom(cs) \in ChunkList
           /\ WithRoom(cs) # <<>>
           /\ Last(WithRoom(cs)) \in Chunk
           /\ writable(Last(WithRoom(cs))) \in Nat \ {0}
<1>1. CASE NeedsChunk(cs)
  <2>1. NewChunk(<<>>) \in Chunk
    <3>1. <<>> \in Seq(Byte)
      OBVIOUS
    <3> QED BY <3>1, NewChunkIsChunk
  <2>2. writable(NewChunk(<<>>)) \in Nat \ {0}
    BY MarshalAssumption DEF NewChunk, writable
  <2> QED BY <1>1, <2>1, <2>2, AppendIsList DEF WithRoom
<1>2. CASE ~NeedsChunk(cs)
  BY <1>2, ListFacts, ChunkFacts DEF WithRoom, NeedsChunk, fully_written, writable
<1> QED BY <1>1, <1>2

\* A write to the last chunk that has room for it.
LEMMA WriteLastIsList ==
    ASSUME NEW cs \in ChunkList, cs # <<>>, NEW p \in Seq(Byte), Len(p) <= writable(Last(cs))
    PROVE  /\ WriteLast(cs, p) \in ChunkList
           /\ Len(WriteLast(cs, p)) = Len(cs)
           /\ Last(WriteLast(cs, p)) = WriteChunk(Last(cs), p)
           /\ \A k \in 1 .. Len(cs) - 1 : WriteLast(cs, p)[k] = cs[k]
<1> DEFINE c == WriteChunk(Last(cs), p)
<1>1. c \in Chunk
  BY WriteChunkIsChunk, ListFacts
<1> HIDE DEF c
<1>2. /\ Front(cs) \in Seq(Chunk) /\ Len(Front(cs)) = Len(cs) - 1
      /\ \A k \in 1 .. Len(cs) - 1 : Front(cs)[k] = cs[k]
  <2> DEFINE n == Len(cs) - 1
  <2>1. n \in Nat /\ \A k \in 1 .. n : cs[k] \in Chunk
    BY ListFacts
  <2>2. Front(cs) = SubSeq(cs, 1, n)
    BY DEF Front
  <2> HIDE DEF n
  <2>3. /\ SubSeq(cs, 1, n) \in Seq(Chunk)
        /\ Len(SubSeq(cs, 1, n)) = IF 1 <= n THEN n - 1 + 1 ELSE 0
        /\ \A k \in 1 .. n - 1 + 1 : SubSeq(cs, 1, n)[k] = cs[1 + k - 1]
    BY <2>1, SubSeqProperties
  <2>4. Len(Front(cs)) = n /\ \A k \in 1 .. n : Front(cs)[k] = cs[k]
    BY <2>1, <2>2, <2>3
  <2> QED BY <2>2, <2>3, <2>4 DEF n
<1>3. /\ Front(cs) \o <<c>> \in Seq(Chunk)
      /\ Len(Front(cs) \o <<c>>) = Len(cs)
      /\ (Front(cs) \o <<c>>)[Len(cs)] = c
      /\ \A k \in 1 .. Len(cs) - 1 : (Front(cs) \o <<c>>)[k] = cs[k]
  BY <1>1, <1>2, ListFacts
<1>4. Packed(Front(cs) \o <<c>>)
  BY <1>3, ListFacts DEF Packed
<1>5. WriteLast(cs, p) = Front(cs) \o <<c>>
  BY DEF WriteLast, c
<1>6. Last(WriteLast(cs, p)) = c
  <2>1. Last(WriteLast(cs, p)) = (Front(cs) \o <<c>>)[Len(Front(cs) \o <<c>>)]
    BY <1>5 DEF Last
  <2> QED BY <2>1, <1>3
<1> QED BY <1>3, <1>4, <1>5, <1>6 DEF ChunkList, c

\* A read of the head takes no more than its content.
LEMMA ReadHeadIsList ==
    ASSUME NEW cs \in ChunkList, cs # <<>>, NEW r \in Nat, r <= content_size(Head(cs))
    PROVE  ReadHead(cs, r) \in ChunkList
<1> DEFINE c == ReadChunk(Head(cs), r)
<1>1. CASE fully_read(c)
  BY <1>1, TailIsList DEF ReadHead
<1>2. CASE ~fully_read(c)
  <2>1. c \in Chunk /\ (fully_written(c) <=> fully_written(Head(cs)))
    BY <1>2, ReadChunkIsChunk, ListFacts
  <2> HIDE DEF c
  <2>2. /\ <<c>> \o Tail(cs) \in Seq(Chunk)
        /\ Len(<<c>> \o Tail(cs)) = Len(cs)
        /\ (<<c>> \o Tail(cs))[1] = c
        /\ \A k \in 2 .. Len(cs) : (<<c>> \o Tail(cs))[k] = cs[k]
    BY <2>1, ListFacts
  <2>3. Packed(<<c>> \o Tail(cs))
    BY <2>1, <2>2, ListFacts DEF Packed
  <2> QED BY <1>2, <2>2, <2>3 DEF ReadHead, ChunkList, c
<1> QED BY <1>1, <1>2


-------------------------------------------------------------------------------
(* The steps.                                                              *)

\* What a caller or a descriptor supplies are bytes.
LEMMA FreshBytes ==
    ASSUME supplied \in Nat, NEW n \in Nat
    PROVE  Fresh(n) \in Seq(Byte) /\ Len(Fresh(n)) = n
<1>1. \A k \in 1 .. n : supplied + k \in Byte
  BY DEF Byte
<1> QED BY <1>1, IsASeq DEF Fresh

\* A Marshal is empty initially.
LEMMA InitOK == Init => MarshalInv
<1> SUFFICES ASSUME Init PROVE MarshalInv
  OBVIOUS
<1>1. <<>> \in ChunkList
  BY DEF ChunkList, Packed
<1>2. CallOK
  BY DEF Init, CallOK, Idle, Operations
<1> QED BY <1>1, <1>2 DEF Init, MarshalInv, NoBookmark

\* Loops move bytes, ends return.
LEMMA MovedOK ==
    ASSUME CallOK, NEW p \in Seq(Byte), Moved(p)
    PROVE  CallOK'
<1>1. call.bytes \o p \in Seq(Byte)
  BY DEF CallOK
<1>2. call.at + 1 \in Nat
  BY DEF CallOK
<1> QED BY <1>1, <1>2 DEF CallOK, Moved

\* A call that returns leaves no locals behind.
LEMMA ReturnsOK ==
    ASSUME Returns
    PROVE  CallOK'
BY DEF CallOK, Returns, Idle, Operations

\* A call that starts its loop changes no Marshal ...
LEMMA StartOK ==
    ASSUME MarshalInv, NEW op \in Operations, NEW m \in Marshals, NEW o \in Marshals, NEW n \in Nat,
           Start(op, m, o, n), op = "read_from_marshal" => m # o,
           op \in {"read", "write_to_fd"} => m = o
    PROVE  MarshalInv'
<1>1. call' = [op |-> op, m |-> m, from |-> o, n |-> n, at |-> 0, bytes |-> <<>>]
  BY DEF Start, Idle
<1>2. CallOK'
  BY <1>1 DEF CallOK
<1> QED BY <1>2 DEF Start, MarshalInv

\* A call changes one list of chunks.
LEMMA OneList ==
    ASSUME MarshalInv, NEW m \in Marshals, NEW cs \in ChunkList, chunk_' = [chunk_ EXCEPT ![m] = cs]
    PROVE  chunk_' \in [Marshals -> ChunkList]
BY DEF MarshalInv

\* ... whichever call it is.
LEMMA StartsOK ==
    ASSUME MarshalInv, NEW m \in Marshals, NEW n \in Nat, NEW o \in Marshals,
           \/ StartRead(m, n) \/ StartPeek(m, n) \/ StartWriteToFd(m) \/ StartReadFromFd(m)
           \/ StartReadFromMarshal(m, o, n) \/ StartSetBookmark(m, n)
    PROVE  MarshalInv'
<1> USE DEF Operations
<1>1. CASE StartRead(m, n) \/ StartPeek(m, n)
  BY <1>1, StartOK DEF StartRead, StartPeek
<1>2. CASE StartWriteToFd(m) \/ StartReadFromFd(m)
  BY <1>2, StartOK DEF StartWriteToFd, StartReadFromFd
<1>3. CASE StartReadFromMarshal(m, o, n)
  BY <1>3, StartOK, MarshalAssumption DEF StartReadFromMarshal
<1>4. CASE StartSetBookmark(m, n)
  BY <1>4, StartOK DEF StartSetBookmark
<1> QED BY <1>1, <1>2, <1>3, <1>4

\* A write that fits goes into the last chunk.
LEMMA WriteFits ==
    ASSUME NEW m, NEW n, Write(m, n), ~NeedsChunk(chunk_[m]),
           ~(Least(n, writable(Last(chunk_[m]))) < n)
    PROVE  chunk_' = [chunk_ EXCEPT ![m] = WriteLast(chunk_[m], Fresh(n))]
BY DEF Write

\* Marshal::write keeps MarshalInv.
LEMMA WriteOK ==
    ASSUME MarshalInv, NEW m \in Marshals, NEW n \in Nat, Write(m, n)
    PROVE  MarshalInv'
<1> DEFINE cs == chunk_[m]
           room == Least(n, writable(Last(cs)))
           p == Fresh(n)
<1>1. cs \in ChunkList /\ supplied \in Nat /\ CallOK
  BY DEF MarshalInv
<1>2. p \in Seq(Byte) /\ Len(p) = n
  BY <1>1, FreshBytes
<1>0. supplied' \in Nat /\ bmark'.ptr \in Seq(Nat \X Nat) /\ CallOK'
  <2>1. supplied' = supplied + n /\ bmark' = bmark /\ call' = call
    BY DEF Write
  <2> QED BY <1>1, <2>1 DEF MarshalInv, CallOK
<1> HIDE DEF cs, p
<1>3. CASE NeedsChunk(cs)
  <2>1. Append(cs, NewChunk(p)) \in ChunkList
    BY <1>1, <1>2, <1>3, NewChunkIsChunk, AppendIsList
  <2>2. chunk_' = [chunk_ EXCEPT ![m] = Append(cs, NewChunk(p))]
    BY <1>3 DEF Write, cs, p
  <2> QED BY <1>0, <2>1, <2>2, OneList DEF MarshalInv
<1>4. CASE ~NeedsChunk(cs)
  <2>1. cs # <<>> /\ Last(cs) \in Chunk /\ writable(Last(cs)) \in Nat
    BY <1>1, <1>4, ListFacts, ChunkFacts DEF NeedsChunk
  <2>2. room \in Nat /\ room <= n /\ room <= writable(Last(cs)) /\ (room < n => room = writable(Last(cs)))
    BY <2>1 DEF Least
  <2> HIDE DEF room
  <2>3. CASE room < n
    <3> DEFINE p1 == SubSeq(p, 1, room)
               p2 == SubSeq(p, room + 1, n)
    <3>1. p1 \in Seq(Byte) /\ Len(p1) = room
      BY <1>2, <2>2, SubSeqProperties
    <3>2. p2 \in Seq(Byte)
      BY <1>2, <2>2, SubSeqProperties
    <3> HIDE DEF p1, p2
    <3>3. /\ WriteLast(cs, p1) \in ChunkList /\ Len(WriteLast(cs, p1)) = Len(cs)
          /\ Last(WriteLast(cs, p1)) = WriteChunk(Last(cs), p1)
      BY <1>1, <2>1, <2>2, <3>1, WriteLastIsList
    <3>4. fully_written(WriteChunk(Last(cs), p1))
      <4>1. PICK c \in Chunk : c = Last(cs)
        BY <2>1
      <4>2. c \in [size : Nat, data : Seq(Byte), read_idx : Nat] /\ Len(c.data) + room = c.size
        BY <2>2, <2>3, <4>1, ChunkFacts DEF writable
      <4>3. Len(c.data \o p1) = Len(c.data) + room
        BY <3>1, <4>2, ConcatProperties
      <4> QED BY <4>1, <4>2, <4>3 DEF WriteChunk, fully_written
    <3>5. NeedsChunk(WriteLast(cs, p1))
      BY <3>3, <3>4 DEF NeedsChunk
    <3>6. Append(WriteLast(cs, p1), NewChunk(p2)) \in ChunkList
      BY <3>2, <3>3, <3>5, NewChunkIsChunk, AppendIsList
    <3>7. chunk_' = [chunk_ EXCEPT ![m] = Append(WriteLast(cs, p1), NewChunk(p2))]
      BY <1>4, <2>3 DEF Write, cs, room, p, p1, p2
    <3> QED BY <1>0, <3>6, <3>7, OneList DEF MarshalInv
  <2>4. CASE room = n
    <3>1. WriteLast(cs, p) \in ChunkList
      BY <1>1, <1>2, <2>1, <2>2, <2>4, WriteLastIsList
    <3>2. chunk_' = [chunk_ EXCEPT ![m] = WriteLast(cs, p)]
      <4>1. ~(room < n)
        BY <2>4
      <4> QED BY <1>4, <4>1, WriteFits DEF cs, room, p
    <3> QED BY <1>0, <3>1, <3>2, OneList DEF MarshalInv
  <2> QED BY <2>2, <2>3, <2>4
<1> QED BY <1>3, <1>4

\* The Marshals of a running call, and what it may take from a chunk.
LEMMA CallFacts ==
    ASSUME MarshalInv, call.op # "none"
    PROVE  /\ call.m \in Marshals /\ call.from \in Marshals
           /\ chunk_[call.m] \in ChunkList /\ chunk_[call.from] \in ChunkList
           /\ Wanted \in Int
BY DEF MarshalInv, CallOK, Wanted

\* The smaller of two numbers.
LEMMA LeastFacts ==
    ASSUME NEW a \in Int, NEW b \in Int
    PROVE  Least(a, b) \in Int /\ Least(a, b) <= a /\ Least(a, b) <= b
BY DEF Least

\* A transfer of at most what both sides allow.
LEMMA LeastRange ==
    ASSUME NEW a \in Int, NEW b \in Int, NEW r \in 1 .. Least(a, b)
    PROVE  r \in Nat /\ r <= a
BY DEF Least

\* A read takes from the head chunk no more than it has.
LEMMA ReadSizeFacts ==
    ASSUME MarshalInv, call.op # "none", chunk_[call.from] # <<>>
    PROVE  /\ Head(chunk_[call.from]) \in Chunk
           /\ content_size(Head(chunk_[call.from])) \in Nat
           /\ ReadSize \in Int
           /\ ReadSize <= content_size(Head(chunk_[call.from]))
<1>1. Head(chunk_[call.from]) \in Chunk
  BY CallFacts, ListFacts
<1>2. content_size(Head(chunk_[call.from])) \in Nat
  BY <1>1, ChunkFacts
<1> QED BY <1>1, <1>2, CallFacts, LeastFacts DEF ReadSize

\* A loop that reads r bytes of the head of its only Marshal.
LEMMA TakesOK ==
    ASSUME MarshalInv, call.op \in {"read", "write_to_fd"}, chunk_[call.m] # <<>>, NEW r \in Nat,
           r <= content_size(Head(chunk_[call.m])),
           chunk_' = [chunk_ EXCEPT ![call.m] = ReadHead(@, r)],
           Moved(Content(Head(chunk_[call.m]), r)) \/ Returns,
           UNCHANGED <<supplied, bmark>>
    PROVE  MarshalInv'
<1>1. call.m \in Marshals /\ chunk_[call.m] \in ChunkList
  BY CallFacts
<1>2. ReadHead(chunk_[call.m], r) \in ChunkList
  BY <1>1, ReadHeadIsList
<1>3. chunk_' \in [Marshals -> ChunkList]
  BY <1>1, <1>2, OneList
<1>4. Content(Head(chunk_[call.m]), r) \in Seq(Byte)
  BY <1>1, ListFacts, ContentIsBytes
<1>5. CallOK'
  BY <1>4, MovedOK, ReturnsOK DEF MarshalInv
<1> QED BY <1>3, <1>5 DEF MarshalInv

\* Marshal::read keeps MarshalInv.
LEMMA ReadOK ==
    ASSUME MarshalInv, ReadLoop \/ ReadEnd
    PROVE  MarshalInv'
<1>1. call.op = "read" /\ call.m = call.from /\ UNCHANGED <<supplied, bmark>>
  BY DEF ReadLoop, ReadEnd, Running, MarshalInv, CallOK
<1>2. CASE ReadLoop
  <2>1. chunk_[call.m] # <<>> /\ ReadSize > 0
    BY <1>2 DEF ReadLoop
  <2>2. ReadSize \in Nat /\ ReadSize <= content_size(Head(chunk_[call.m]))
    BY <1>1, <2>1, ReadSizeFacts
  <2> QED BY <1>1, <1>2, <2>1, <2>2, TakesOK DEF ReadLoop
<1>3. CASE ReadEnd /\ UNCHANGED chunk_
  BY <1>1, <1>3, ReturnsOK DEF ReadEnd, MarshalInv
<1>4. CASE /\ ReadEnd /\ chunk_[call.m] # <<>>
           /\ chunk_' = [chunk_ EXCEPT ![call.m] = ReadHead(@, 0)]
  <2>1. 0 <= content_size(Head(chunk_[call.m]))
    BY <1>1, <1>4, ReadSizeFacts
  <2> QED BY <1>1, <1>4, <2>1, TakesOK DEF ReadEnd
<1> QED BY <1>2, <1>3, <1>4 DEF ReadEnd

\* Marshal::peek keeps MarshalInv: its index stays inside the list.
LEMMA PeekOK ==
    ASSUME MarshalInv, PeekLoop \/ PeekEnd
    PROVE  MarshalInv'
<1>1. UNCHANGED <<chunk_, supplied, bmark>>
  BY DEF PeekLoop, PeekEnd
<1>2. CASE PeekLoop
  <2> DEFINE c == chunk_[call.m][call.at + 1]
  <2>1. c \in Chunk
    <3>1. chunk_[call.m] \in ChunkList /\ call.at + 1 \in 1 .. Len(chunk_[call.m])
      BY <1>2, CallFacts DEF PeekLoop, Running, MarshalInv, CallOK
    <3> QED BY <3>1, ListFacts
  <2>2. PeekSize \in Nat /\ PeekSize <= content_size(c)
    <3>1. content_size(c) \in Nat /\ Wanted \in Int /\ PeekSize > 0
      BY <1>2, <2>1, ChunkFacts, CallFacts DEF PeekLoop, Running
    <3> QED BY <3>1, LeastFacts DEF PeekSize
  <2>3. Content(c, PeekSize) \in Seq(Byte)
    BY <2>1, <2>2, ContentIsBytes
  <2> QED BY <1>1, <1>2, <2>3, MovedOK DEF PeekLoop, MarshalInv
<1>3. CASE PeekEnd
  BY <1>1, <1>3, ReturnsOK DEF PeekEnd, MarshalInv
<1> QED BY <1>2, <1>3

\* Marshal::write_to_fd keeps MarshalInv.
LEMMA WriteToFdOK ==
    ASSUME MarshalInv, WriteToFdLoop \/ WriteToFdEnd
    PROVE  MarshalInv'
<1>1. call.op = "write_to_fd" /\ call.m = call.from /\ UNCHANGED <<supplied, bmark>>
  BY DEF WriteToFdLoop, WriteToFdEnd, Running, MarshalInv, CallOK
<1>2. chunk_[call.m] # <<>> => content_size(Head(chunk_[call.m])) \in Nat
  BY <1>1, ReadSizeFacts
<1>3. CASE WriteToFdLoop
  <2>1. PICK r \in 1 .. content_size(Head(chunk_[call.m])) :
            /\ chunk_[call.m] # <<>>
            /\ chunk_' = [chunk_ EXCEPT ![call.m] = ReadHead(@, r)]
            /\ Moved(Content(Head(chunk_[call.m]), r))
    BY <1>3 DEF WriteToFdLoop
  <2>2. r \in Nat /\ r <= content_size(Head(chunk_[call.m]))
    BY <1>2, <2>1
  <2> QED BY <1>1, <2>1, <2>2, TakesOK
<1>4. CASE WriteToFdEnd /\ chunk_[call.m] # <<>>
  <2>1. chunk_' = [chunk_ EXCEPT ![call.m] = ReadHead(@, 0)] /\ Returns
    BY <1>4 DEF WriteToFdEnd
  <2>2. 0 <= content_size(Head(chunk_[call.m]))
    BY <1>2, <1>4
  <2> QED BY <1>1, <1>4, <2>1, <2>2, TakesOK
<1>5. CASE WriteToFdEnd /\ chunk_[call.m] = <<>>
  <2>1. chunk_' = chunk_ /\ Returns
    BY <1>5 DEF WriteToFdEnd, MarshalInv
  <2> QED BY <1>1, <2>1, ReturnsOK DEF MarshalInv
<1> QED BY <1>3, <1>4, <1>5

\* A loop that writes p to the last chunk, or to a new one if there is no room.
LEMMA GivesOK ==
    ASSUME NEW cs \in ChunkList, NEW p \in Seq(Byte), Len(p) <= writable(Last(WithRoom(cs)))
    PROVE  WriteLast(WithRoom(cs), p) \in ChunkList
BY WithRoomIsList, WriteLastIsList

\* Marshal::read_from_fd keeps MarshalInv.
LEMMA ReadFromFdOK ==
    ASSUME MarshalInv, ReadFromFdLoop \/ ReadFromFdEnd
    PROVE  MarshalInv'
<1> DEFINE cs == WithRoom(chunk_[call.m])
<1>1. call.op = "read_from_fd" /\ UNCHANGED bmark
  BY DEF ReadFromFdLoop, ReadFromFdEnd, Running
<1>2. call.m \in Marshals /\ chunk_[call.m] \in ChunkList
  BY <1>1, CallFacts
<1>3. CASE ReadFromFdLoop
  <2>1. PICK r \in 1 .. Least(writable(Last(cs)), MaxBytes - supplied) :
            /\ chunk_' = [chunk_ EXCEPT ![call.m] = WriteLast(cs, Fresh(r))]
            /\ Moved(Fresh(r))
            /\ supplied' = supplied + r
    BY <1>3 DEF ReadFromFdLoop
  <2>2. r \in Nat /\ r <= writable(Last(cs))
    <3>1. writable(Last(cs)) \in Int /\ MaxBytes - supplied \in Int
      BY <1>2, WithRoomIsList, MarshalAssumption DEF MarshalInv
    <3> QED BY ONLY <2>1, <3>1, LeastRange
  <2>3. Fresh(r) \in Seq(Byte) /\ Len(Fresh(r)) = r
    BY <2>2, FreshBytes DEF MarshalInv
  <2>4. WriteLast(cs, Fresh(r)) \in ChunkList
    BY <1>2, <2>2, <2>3, GivesOK
  <2>5. chunk_' \in [Marshals -> ChunkList]
    BY <1>2, <2>1, <2>4, OneList
  <2> QED BY <1>1, <2>1, <2>2, <2>3, <2>5, MovedOK DEF MarshalInv
<1>4. CASE ReadFromFdEnd
  <2>1. chunk_' = [chunk_ EXCEPT ![call.m] = cs] /\ Returns /\ UNCHANGED supplied
    BY <1>4 DEF ReadFromFdEnd
  <2>2. chunk_' \in [Marshals -> ChunkList]
    BY <1>2, <2>1, WithRoomIsList, OneList
  <2> QED BY <1>1, <2>1, <2>2, ReturnsOK DEF MarshalInv
<1> QED BY <1>3, <1>4

\* Two lists change: m and o are different Marshals.
LEMMA TwoLists ==
    ASSUME MarshalInv, NEW m \in Marshals, NEW o \in Marshals, m # o,
           NEW cs \in ChunkList, NEW ds \in ChunkList,
           chunk_' = [chunk_ EXCEPT ![m] = cs, ![o] = ds]
    PROVE  chunk_' \in [Marshals -> ChunkList]
BY DEF MarshalInv

\* A copy between Marshals fits on both sides.
LEMMA CopySizeFacts ==
    ASSUME MarshalInv, call.op # "none", chunk_[call.from] # <<>>
    PROVE  /\ CopySize \in Int
           /\ CopySize <= writable(Last(WithRoom(chunk_[call.m])))
           /\ CopySize <= content_size(Head(chunk_[call.from]))
           /\ CopySize > 0 => CopySize \in Nat
<1> DEFINE w == writable(Last(WithRoom(chunk_[call.m])))
           h == content_size(Head(chunk_[call.from]))
<1>1. w \in Int /\ h \in Int /\ ReadSize \in Int /\ ReadSize <= h
  BY CallFacts, WithRoomIsList, ReadSizeFacts
<1>2. CopySize = Least(w, ReadSize)
  BY DEF CopySize
<1> HIDE DEF w, h
<1>3. Least(w, ReadSize) \in Int /\ Least(w, ReadSize) <= w /\ Least(w, ReadSize) <= ReadSize
  BY ONLY <1>1, LeastFacts
<1>4. CopySize \in Int /\ CopySize <= w /\ CopySize <= h
  BY <1>1, <1>2, <1>3
<1> QED BY <1>4 DEF w, h

\* Marshal::read_from_marshal keeps MarshalInv.
LEMMA ReadFromMarshalOK ==
    ASSUME MarshalInv, TransferChunk \/ CopyChunk \/ ReadFromMarshalEnd
    PROVE  MarshalInv'
<1> DEFINE cs == chunk_[call.m]
           ds == chunk_[call.from]
<1>1. /\ call.op = "read_from_marshal" /\ call.m # call.from
      /\ UNCHANGED <<supplied, bmark>>
  BY DEF TransferChunk, CopyChunk, ReadFromMarshalEnd, Running, MarshalInv, CallOK
<1>2. call.m \in Marshals /\ call.from \in Marshals /\ cs \in ChunkList /\ ds \in ChunkList
  BY <1>1, CallFacts
<1>3. ds # <<>> => /\ Head(ds) \in Chunk
                   /\ content_size(Head(ds)) \in Nat
                   /\ ReadSize \in Int /\ ReadSize <= content_size(Head(ds))
  BY <1>1, ReadSizeFacts
<1>4. /\ WithRoom(cs) \in ChunkList
      /\ ds # <<>> => /\ CopySize > 0 => CopySize \in Nat
                      /\ CopySize <= writable(Last(WithRoom(cs)))
                      /\ CopySize <= content_size(Head(ds))
  BY <1>1, <1>2, WithRoomIsList, CopySizeFacts
<1>5. CASE TransferChunk
  <2>1. /\ NeedsChunk(cs) /\ ds # <<>>
        /\ chunk_' = [chunk_ EXCEPT ![call.m] = Append(cs, Head(ds)), ![call.from] = Tail(ds)]
        /\ Moved(Content(Head(ds), content_size(Head(ds))))
    BY <1>1, <1>5 DEF TransferChunk, Transfers, MarshalInv
  <2>2. Append(cs, Head(ds)) \in ChunkList /\ Tail(ds) \in ChunkList
    BY <1>2, <1>3, <2>1, AppendIsList, TailIsList
  <2>3. Content(Head(ds), content_size(Head(ds))) \in Seq(Byte)
    BY <1>3, <2>1, ContentIsBytes
  <2>4. CallOK'
    BY <2>1, <2>3, MovedOK DEF MarshalInv
  <2>5. chunk_' \in [Marshals -> ChunkList]
    BY <1>1, <1>2, <2>1, <2>2, TwoLists
  <2> QED BY <1>1, <2>4, <2>5 DEF MarshalInv
<1>6. CASE CopyChunk
  <2> DEFINE p == Content(Head(ds), CopySize)
  <2>1. /\ ds # <<>> /\ CopySize > 0
        /\ chunk_' = [chunk_ EXCEPT ![call.m] = WriteLast(WithRoom(cs), p),
                                    ![call.from] = ReadHead(ds, CopySize)]
        /\ Moved(p)
    BY <1>1, <1>6 DEF CopyChunk
  <2>2. CopySize \in Nat
    BY <1>4, <2>1
  <2>3. p \in Seq(Byte) /\ Len(p) = CopySize
    BY <1>3, <1>4, <2>1, <2>2, ContentIsBytes
  <2>4. WriteLast(WithRoom(cs), p) \in ChunkList
    BY <1>2, <1>4, <2>1, <2>3, GivesOK
  <2>5. ReadHead(ds, CopySize) \in ChunkList
    BY <1>2, <1>4, <2>1, <2>2, ReadHeadIsList
  <2>6. CallOK'
    BY <2>1, <2>3, MovedOK DEF MarshalInv
  <2>7. chunk_' \in [Marshals -> ChunkList]
    BY <1>1, <1>2, <2>1, <2>4, <2>5, TwoLists
  <2> QED BY <1>1, <2>6, <2>7 DEF MarshalInv
<1>7. CASE ReadFromMarshalEnd /\ UNCHANGED chunk_
  BY <1>1, <1>7, ReturnsOK DEF ReadFromMarshalEnd, MarshalInv
<1>8. CASE /\ ReadFromMarshalEnd /\ ds # <<>>
           /\ chunk_' = [chunk_ EXCEPT ![call.m] = WithRoom(@), ![call.from] = ReadHead(@, 0)]
  <2>1. chunk_' = [chunk_ EXCEPT ![call.m] = WithRoom(cs), ![call.from] = ReadHead(ds, 0)]
    BY <1>1, <1>8
  <2>2. ReadHead(ds, 0) \in ChunkList
    BY <1>2, <1>3, <1>8, ReadHeadIsList
  <2>3. chunk_' \in [Marshals -> ChunkList]
    BY <1>1, <1>2, <1>4, <2>1, <2>2, TwoLists
  <2> QED BY <1>1, <1>8, <2>3, ReturnsOK DEF ReadFromMarshalEnd, MarshalInv
<1> QED BY <1>5, <1>6, <1>7, <1>8 DEF ReadFromMarshalEnd

\* Marshal::set_bookmark keeps MarshalInv.
LEMMA SetBookmarkOK ==
    ASSUME MarshalInv, SetBookmarkLoop \/ SetBookmarkEnd
    PROVE  MarshalInv'
<1> DEFINE cs == WithRoom(chunk_[call.m])
<1>1. call.op = "set_bookmark" /\ UNCHANGED supplied
  BY DEF SetBookmarkLoop, SetBookmarkEnd, Running
<1>2. call.m \in Marshals /\ chunk_[call.m] \in ChunkList
  BY <1>1, CallFacts
<1>3. CASE SetBookmarkLoop
  <2>1. <<Hole>> \in Seq(Byte) /\ Len(<<Hole>>) = 1
    BY DEF Hole, Byte
  <2>2. WriteLast(cs, <<Hole>>) \in ChunkList
    <3>1. Len(<<Hole>>) <= writable(Last(cs))
      BY <1>2, <2>1, WithRoomIsList
    <3> QED BY <1>2, <2>1, <3>1, GivesOK
  <2>3. /\ chunk_' = [chunk_ EXCEPT ![call.m] = WriteLast(cs, <<Hole>>)]
        /\ Moved(<<Hole>>)
        /\ bmark'.ptr = Append(bmark.ptr, <<Len(cs), Len(Last(cs).data) + 1>>)
    BY <1>3 DEF SetBookmarkLoop
  <2>4. Len(cs) \in Nat /\ Len(Last(cs).data) + 1 \in Nat
    BY <1>2, WithRoomIsList, ListFacts, ChunkFacts
  <2> HIDE DEF cs
  <2>5. bmark'.ptr \in Seq(Nat \X Nat)
    BY <2>3, <2>4 DEF MarshalInv
  <2>6. chunk_' \in [Marshals -> ChunkList]
    BY <1>2, <2>2, <2>3, OneList
  <2>7. CallOK'
    BY <2>1, <2>3, MovedOK DEF MarshalInv
  <2> QED BY <1>1, <2>5, <2>6, <2>7 DEF MarshalInv
<1>4. CASE SetBookmarkEnd
  BY <1>1, <1>4, ReturnsOK DEF SetBookmarkEnd, MarshalInv
<1> QED BY <1>3, <1>4

\* A byte written through a bookmark is a byte.
LEMMA PatchedByte ==
    ASSUME MarshalInv, NEW c, NEW b, NEW old \in Byte
    PROVE  Patched(c, b, old) \in Byte
<1>1. bmark.ptr \in Seq(Nat \X Nat) /\ supplied \in Nat
  BY DEF MarshalInv
<1>2. DOMAIN bmark.ptr \subseteq Nat
  BY <1>1
<1>3. CASE \E k \in DOMAIN bmark.ptr : bmark.ptr[k] = <<c, b>>
  <2>1. (CHOOSE k \in DOMAIN bmark.ptr : bmark.ptr[k] = <<c, b>>) \in DOMAIN bmark.ptr
    BY <1>3
  <2> QED BY <1>1, <1>2, <1>3, <2>1 DEF Patched, Byte
<1>4. CASE ~\E k \in DOMAIN bmark.ptr : bmark.ptr[k] = <<c, b>>
  BY <1>4 DEF Patched
<1> QED BY <1>3, <1>4

\* write_bookmark() changes bytes, not the shape of a chunk.
LEMMA PatchChunkIsChunk ==
    ASSUME MarshalInv, NEW ch \in Chunk, NEW c
    PROVE  /\ PatchChunk(ch, c) \in Chunk
           /\ PatchChunk(ch, c).read_idx = ch.read_idx
           /\ PatchChunk(ch, c).data \in Seq(Byte)
           /\ Len(PatchChunk(ch, c).data) = Len(ch.data)
           /\ \A b \in 1 .. Len(ch.data) : PatchChunk(ch, c).data[b] = Patched(c, b, ch.data[b])
           /\ fully_written(PatchChunk(ch, c)) <=> fully_written(ch)
<1> DEFINE d == [b \in DOMAIN ch.data |-> Patched(c, b, ch.data[b])]
<1>1. /\ ch \in [size : Nat, data : Seq(Byte), read_idx : Nat] /\ Len(ch.data) \in Nat
      /\ DOMAIN ch.data = 1 .. Len(ch.data) /\ \A b \in DOMAIN ch.data : ch.data[b] \in Byte
  BY ChunkFacts
<1>2. d = [b \in 1 .. Len(ch.data) |-> Patched(c, b, ch.data[b])]
  BY <1>1
<1>3. \A b \in 1 .. Len(ch.data) : Patched(c, b, ch.data[b]) \in Byte
  BY <1>1, PatchedByte
<1>4. d \in Seq(Byte) /\ Len(d) = Len(ch.data)
  BY <1>1, <1>2, <1>3, IsASeq
<1>5. PatchChunk(ch, c) = [ch EXCEPT !.data = d]
  BY DEF PatchChunk
<1>6. \A b \in 1 .. Len(ch.data) : d[b] = Patched(c, b, ch.data[b])
  BY <1>1
<1> HIDE DEF d
<1> QED BY <1>1, <1>4, <1>5, <1>6, ChunkFacts DEF Chunk, ChunkOK, fully_read, fully_written

\* Marshal::write_bookmark keeps MarshalInv.
LEMMA WriteBookmarkOK ==
    ASSUME MarshalInv, NEW m \in Marshals, WriteBookmark(m)
    PROVE  MarshalInv'
<1> DEFINE P(c) == PatchChunk(chunk_[m][c], c)
           cs == [c \in 1 .. Len(chunk_[m]) |-> P(c)]
<1>1. /\ chunk_[m] \in ChunkList /\ supplied \in Nat /\ Len(bmark.ptr) \in Nat
      /\ Len(chunk_[m]) \in Nat /\ DOMAIN chunk_[m] = 1 .. Len(chunk_[m])
      /\ \A c \in 1 .. Len(chunk_[m]) - 1 : fully_written(chunk_[m][c])
      /\ \A c \in 1 .. Len(chunk_[m]) : chunk_[m][c] \in Chunk
  BY ListFacts DEF MarshalInv
<1>2. \A c \in 1 .. Len(chunk_[m]) :
          P(c) \in Chunk /\ (fully_written(P(c)) <=> fully_written(chunk_[m][c]))
  BY <1>1, PatchChunkIsChunk
<1> HIDE DEF P
<1>3. cs \in Seq(Chunk) /\ Len(cs) = Len(chunk_[m]) /\ \A c \in 1 .. Len(chunk_[m]) : cs[c] = P(c)
  BY <1>1, <1>2, IsASeq
<1>4. /\ chunk_' = [chunk_ EXCEPT ![m] = cs]
      /\ supplied' = supplied + Len(bmark.ptr) /\ bmark' = NoBookmark /\ UNCHANGED call
  BY <1>1 DEF WriteBookmark, P
<1> HIDE DEF cs
<1>5. Packed(cs)
  BY <1>1, <1>2, <1>3 DEF Packed
<1>6. chunk_' \in [Marshals -> ChunkList]
  BY <1>3, <1>4, <1>5, OneList DEF ChunkList
<1>7. supplied' \in Nat /\ bmark'.ptr \in Seq(Nat \X Nat) /\ CallOK'
  BY <1>1, <1>4 DEF MarshalInv, CallOK, NoBookmark
<1> QED BY <1>6, <1>7 DEF MarshalInv

\* MarshalInv is inductive.
LEMMA MarshalStep == MarshalInv /\ [Next]_vars => MarshalInv'
<1> SUFFICES ASSUME MarshalInv, [Next]_vars PROVE MarshalInv'
  OBVIOUS
<1>1. CASE Step
  BY <1>1, ReadOK, PeekOK, WriteToFdOK, ReadFromFdOK, ReadFromMarshalOK, SetBookmarkOK DEF Step
<1>2. ASSUME NEW m \in Marshals, Call(m) PROVE MarshalInv'
  <2>1. \A n \in 0 .. MaxArg : n \in Nat
    OBVIOUS
  <2>2. CASE \E n \in 0 .. MaxArg : Write(m, n)
    BY <2>1, <2>2, WriteOK
  <2>3. CASE ResetCounter(m)
    BY <2>3 DEF ResetCounter, MarshalInv, CallOK
  <2>4. CASE WriteBookmark(m)
    BY <2>4, WriteBookmarkOK
  <2>5. CASE \/ \E n \in 0 .. MaxArg : StartRead(m, n) \/ StartPeek(m, n)
             \/ \E n \in 0 .. MaxArg, o \in Marshals : StartReadFromMarshal(m, o, n)
             \/ \E n \in 1 .. MaxArg : StartSetBookmark(m, n)
             \/ StartWriteToFd(m) \/ StartReadFromFd(m)
    <3>1. PICK n \in Nat, o \in Marshals :
              \/ StartRead(m, n) \/ StartPeek(m, n) \/ StartWriteToFd(m) \/ StartReadFromFd(m)
              \/ StartReadFromMarshal(m, o, n) \/ StartSetBookmark(m, n)
      BY <2>5
    <3> QED BY <3>1, StartsOK
  <2> QED BY <1>2, <2>2, <2>3, <2>4, <2>5 DEF Call
<1>3. CASE UNCHANGED vars
  BY <1>3 DEF vars, MarshalInv, CallOK
<1> QED BY <1>1, <1>2, <1>3 DEF Next

\* The chunks of every Marshal are well formed, only the last has room, and the
\* locals of the call in progress fit them, whatever calls are made.
THEOREM MarshalInvariant == Spec => []MarshalInv
BY InitOK, MarshalStep, PTL DEF Spec

\* No assert of Chunk or of Marshal about indexes fails, whatever the size of a
\* chunk, the Marshals and the arguments of their calls.
THEOREM MarshalAsserts == Spec => []AssertsHold
<1>1. MarshalInv => AssertsHold
  <2> SUFFICES ASSUME MarshalInv, NEW m \in Marshals
               PROVE  /\ \A k \in DOMAIN chunk_[m] : ChunkOK(chunk_[m][k])
                      /\ chunk_[m] # <<>> => ~fully_read(Head(chunk_[m]))
    BY DEF AssertsHold
  <2>1. chunk_[m] \in ChunkList /\ DOMAIN chunk_[m] = 1 .. Len(chunk_[m])
    BY DEF MarshalInv, ChunkList
  <2> QED BY <2>1, ListFacts DEF Chunk
<1> QED BY <1>1, MarshalInvariant, PTL

\* Only the last chunk of a Marshal has room or is without content: a loop that
\* stops at the first chunk that gives nothing has seen all there is.
THEOREM MarshalPacked == Spec => []OnlyLastHasRoom
<1>1. MarshalInv => OnlyLastHasRoom
  <2> SUFFICES ASSUME MarshalInv, NEW m \in Marshals, NEW k \in 1 .. Len(chunk_[m]) - 1
               PROVE  fully_written(chunk_[m][k]) /\ content_size(chunk_[m][k]) > 0
    BY DEF OnlyLastHasRoom
  <2>1. chunk_[m] \in ChunkList
    BY DEF MarshalInv
  <2>2. fully_written(chunk_[m][k]) /\ chunk_[m][k] \in Chunk
    BY <2>1, ListFacts
  <2> QED BY <2>2, ChunkFacts DEF fully_written, content_size
<1> QED BY <1>1, MarshalInvariant, PTL

-------------------------------------------------------------------------------
(* Bookmarks.  A list grows when a call writes to it, without moving what  *)
(* is there; only a read moves chunks, and no call reads the Marshal whose *)
(* bookmark has not been written.                                          *)

HoleFree(p) == \A b \in DOMAIN p : p[b] # Hole

NoHole(cs) == \A c \in DOMAIN cs : HoleFree(cs[c].data)

\* ds is cs and more, with reserved bytes at the places H only among the new.
Grown(cs, ds, H) ==
    /\ \A c \in DOMAIN cs :
          /\ c \in DOMAIN ds
          /\ ds[c].read_idx = cs[c].read_idx
          /\ \A b \in DOMAIN cs[c].data :
                b \in DOMAIN ds[c].data /\ ds[c].data[b] = cs[c].data[b]
    /\ \A c \in DOMAIN ds : \A b \in DOMAIN ds[c].data :
          ds[c].data[b] = Hole =>
              <<c, b>> \in H \/ (c \in DOMAIN cs /\ b \in DOMAIN cs[c].data)

\* Nothing written.
LEMMA GrownStays == \A cs : Grown(cs, cs, {})
BY DEF Grown

\* First what reserves nothing, then more.
LEMMA GrownTwice ==
    ASSUME NEW cs, NEW ds, NEW es, NEW H, Grown(cs, ds, {}), Grown(ds, es, H)
    PROVE  Grown(cs, es, H)
BY DEF Grown

\* Growth without a reservation leaves no hole.
LEMMA GrownNoHole ==
    ASSUME NEW cs, NEW ds, Grown(cs, ds, {}), NoHole(cs)
    PROVE  NoHole(ds)
BY DEF Grown, NoHole, HoleFree

\* push_back() of a chunk that is written.
LEMMA AppendGrows ==
    ASSUME NEW cs \in ChunkList, NEW c \in Chunk, HoleFree(c.data)
    PROVE  Grown(cs, Append(cs, c), {})
<1>1. /\ cs \in Seq(Chunk) /\ Len(cs) \in Nat /\ DOMAIN cs = 1 .. Len(cs)
      /\ DOMAIN Append(cs, c) = 1 .. Len(cs) + 1
      /\ Append(cs, c)[Len(cs) + 1] = c
      /\ \A k \in 1 .. Len(cs) : Append(cs, c)[k] = cs[k]
  BY ListFacts, AppendProperties
<1>2. \A k \in 1 .. Len(cs) + 1 : k \in 1 .. Len(cs) \/ k = Len(cs) + 1
  BY <1>1
<1>3. \A k \in 1 .. Len(cs) : k \in 1 .. Len(cs) + 1
  BY <1>1
<1> QED BY <1>1, <1>2, <1>3 DEF Grown, HoleFree

\* push_back() of a new chunk where there was no room.
LEMMA WithRoomGrows ==
    ASSUME NEW cs \in ChunkList
    PROVE  Grown(cs, WithRoom(cs), {})
<1>1. <<>> \in Seq(Byte) /\ HoleFree(NewChunk(<<>>).data)
  BY DEF HoleFree, NewChunk
<1>2. NewChunk(<<>>) \in Chunk
  BY <1>1, NewChunkIsChunk
<1> QED BY <1>1, <1>2, AppendGrows, GrownStays DEF WithRoom

\* The place of byte k of what is written to the last chunk.
LEMMA WriteLastGrows ==
    ASSUME NEW cs \in ChunkList, cs # <<>>, NEW p \in Seq(Byte), Len(p) <= writable(Last(cs))
    PROVE  /\ Grown(cs, WriteLast(cs, p), {<<Len(cs), Len(Last(cs).data) + k>> : k \in DOMAIN p})
           /\ Len(cs) \in DOMAIN WriteLast(cs, p)
           /\ \A k \in DOMAIN p :
                 /\ Len(Last(cs).data) + k \in DOMAIN WriteLast(cs, p)[Len(cs)].data
                 /\ WriteLast(cs, p)[Len(cs)].data[Len(Last(cs).data) + k] = p[k]
           /\ HoleFree(p) => Grown(cs, WriteLast(cs, p), {})
<1> DEFINE n == Len(cs)
           c == cs[n]
           d == c.data \o p
           ds == WriteLast(cs, p)
<1>1. /\ cs \in Seq(Chunk) /\ n \in Nat /\ n > 0 /\ Last(cs) = c /\ c \in Chunk
      /\ \A k \in 1 .. n : cs[k] \in Chunk
  BY ListFacts DEF Last
<1>2. /\ c.data \in Seq(Byte) /\ Len(c.data) \in Nat /\ Len(p) \in Nat
      /\ DOMAIN c.data = 1 .. Len(c.data) /\ DOMAIN p = 1 .. Len(p)
      /\ DOMAIN d = 1 .. Len(c.data) + Len(p)
      /\ \A b \in 1 .. Len(c.data) : d[b] = c.data[b]
      /\ \A k \in 1 .. Len(p) : d[Len(c.data) + k] = p[k]
  <2>1. c.data \in Seq(Byte)
    BY <1>1, ChunkFacts
  <2> HIDE DEF c
  <2> QED BY <2>1, ConcatProperties
<1>3. /\ DOMAIN ds = 1 .. n
      /\ \A k \in 1 .. n - 1 : ds[k] = cs[k]
      /\ ds[n] = WriteChunk(c, p)
  <2>1. ds \in ChunkList /\ Len(ds) = n /\ Last(ds) = WriteChunk(c, p)
    BY <1>1, WriteLastIsList
  <2>2. DOMAIN ds = 1 .. n /\ ds[n] = WriteChunk(c, p)
    BY <2>1, ListFacts DEF Last
  <2>3. \A k \in 1 .. n - 1 : ds[k] = cs[k]
    BY <1>1, WriteLastIsList
  <2> QED BY <2>2, <2>3
<1>4. ds[n].data = d /\ ds[n].read_idx = c.read_idx
  BY <1>1, <1>3, ChunkFacts DEF WriteChunk
<1> DEFINE H == {<<n, Len(c.data) + k>> : k \in DOMAIN p}
<1> HIDE DEF d, ds
<1>5. \A k \in DOMAIN cs :
          /\ k \in DOMAIN ds
          /\ ds[k].read_idx = cs[k].read_idx
          /\ \A b \in DOMAIN cs[k].data : b \in DOMAIN ds[k].data /\ ds[k].data[b] = cs[k].data[b]
  <2> SUFFICES ASSUME NEW k \in 1 .. n
               PROVE  /\ k \in DOMAIN ds
                      /\ ds[k].read_idx = cs[k].read_idx
                      /\ \A b \in DOMAIN cs[k].data :
                            b \in DOMAIN ds[k].data /\ ds[k].data[b] = cs[k].data[b]
    BY <1>1
  <2>1. CASE k # n
    <3>1. k \in 1 .. n - 1
      BY <1>1, <2>1
    <3> QED BY <1>3, <3>1
  <2>2. CASE k = n
    <3>1. \A b \in 1 .. Len(c.data) : b \in 1 .. Len(c.data) + Len(p)
      BY <1>2
    <3> QED BY <1>2, <1>3, <1>4, <2>2, <3>1
  <2> QED BY <2>1, <2>2
<1>6. ASSUME NEW k \in DOMAIN ds, NEW b \in DOMAIN ds[k].data, ds[k].data[b] = Hole
      PROVE  \/ k \in DOMAIN cs /\ b \in DOMAIN cs[k].data
             \/ <<k, b>> \in H /\ ~HoleFree(p)
  <2>1. CASE k # n
    <3>1. k \in 1 .. n - 1
      BY <1>1, <1>3, <2>1
    <3> QED BY <1>1, <1>3, <1>6, <3>1
  <2>2. CASE k = n
    <3>1. b \in 1 .. Len(c.data) + Len(p)
      BY <1>2, <1>4, <1>6, <2>2
    <3>2. CASE b \in 1 .. Len(c.data)
      BY <1>1, <1>2, <2>2, <3>2
    <3>3. CASE b \notin 1 .. Len(c.data)
      <4>1. PICK x \in 1 .. Len(p) : b = Len(c.data) + x
        <5>1. b - Len(c.data) \in 1 .. Len(p)
          BY <1>2, <3>1, <3>3
        <5> QED BY <1>2, <3>1, <5>1
      <4>2. p[x] = Hole
        BY <1>2, <1>4, <1>6, <2>2, <4>1
      <4> QED BY <1>2, <2>2, <4>1, <4>2 DEF HoleFree
    <3> QED BY <3>2, <3>3
  <2> QED BY <2>1, <2>2
<1>7. /\ Grown(cs, ds, H)
      /\ HoleFree(p) => Grown(cs, ds, {})
  BY <1>5, <1>6 DEF Grown
<1>8. /\ n \in DOMAIN ds
      /\ \A k \in DOMAIN p :
            /\ Len(c.data) + k \in DOMAIN ds[n].data
            /\ ds[n].data[Len(c.data) + k] = p[k]
  <2>1. \A k \in 1 .. Len(p) : Len(c.data) + k \in 1 .. Len(c.data) + Len(p)
    BY <1>2
  <2> QED BY <1>1, <1>2, <1>3, <1>4, <2>1
<1> QED BY <1>1, <1>7, <1>8 DEF ds

\* pop_front() leaves no hole where there was none.
LEMMA TailNoHole ==
    ASSUME NEW cs \in ChunkList, cs # <<>>, NoHole(cs)
    PROVE  NoHole(Tail(cs)) /\ HoleFree(Head(cs).data)
<1>1. /\ cs \in Seq(Chunk) /\ Len(cs) \in Nat /\ Len(cs) > 0 /\ Head(cs) = cs[1]
      /\ DOMAIN cs = 1 .. Len(cs) /\ DOMAIN Tail(cs) = 1 .. Len(cs) - 1
      /\ \A k \in 1 .. Len(cs) - 1 : Tail(cs)[k] = cs[k + 1]
  BY ListFacts, TailIsList
<1>2. \A k \in 1 .. Len(cs) - 1 : k + 1 \in 1 .. Len(cs)
  BY <1>1
<1>3. 1 \in 1 .. Len(cs)
  BY <1>1
<1> QED BY <1>1, <1>2, <1>3 DEF NoHole

\* A read leaves no hole where there was none.
LEMMA ReadHeadNoHole ==
    ASSUME NEW cs \in ChunkList, cs # <<>>, NEW r \in Nat, NoHole(cs)
    PROVE  NoHole(ReadHead(cs, r))
<1> DEFINE c == ReadChunk(Head(cs), r)
           ds == <<c>> \o Tail(cs)
<1>1. CASE fully_read(c)
  BY <1>1, TailNoHole DEF ReadHead
<1>2. CASE ~fully_read(c)
  <2>1. HoleFree(c.data)
    BY TailNoHole, ListFacts, ChunkFacts DEF ReadChunk
  <2>2. /\ Tail(cs) \in Seq(Chunk) /\ Len(Tail(cs)) = Len(cs) - 1 /\ Len(cs) \in Nat
        /\ DOMAIN cs = 1 .. Len(cs)
        /\ \A k \in 1 .. Len(cs) - 1 : Tail(cs)[k] = cs[k + 1]
    BY ListFacts, TailIsList DEF ChunkList
  <2> HIDE DEF c
  <2>3. DOMAIN ds = 1 .. Len(cs) /\ ds[1] = c /\ \A k \in 2 .. Len(cs) : ds[k] = cs[k]
    <3>1. Len(cs) > 0
      BY ListFacts
    <3> QED BY <2>2, <3>1
  <2> HIDE DEF ds
  <2>4. \A k \in 1 .. Len(cs) : k = 1 \/ k \in 2 .. Len(cs)
    BY <2>2
  <2>5. NoHole(ds)
    BY <2>1, <2>2, <2>3, <2>4 DEF NoHole
  <2> QED BY <1>2, <2>5 DEF ReadHead, ds, c
<1> QED BY <1>1, <1>2

\* Nor does what is read have one.
LEMMA ContentHoleFree ==
    ASSUME NEW c \in Chunk, NEW n \in Nat, n <= content_size(c), HoleFree(c.data)
    PROVE  HoleFree(Content(c, n))
<1>1. /\ c.data \in Seq(Byte) /\ Len(c.data) \in Nat /\ c.read_idx \in Nat
      /\ c.read_idx + n <= Len(c.data) /\ DOMAIN c.data = 1 .. Len(c.data)
  BY ChunkFacts DEF content_size
<1>2. \A k \in DOMAIN Content(c, n) : k \in 1 .. n /\ Content(c, n)[k] = c.data[c.read_idx + k]
  BY <1>1 DEF Content
<1>3. \A k \in 1 .. n : c.read_idx + k \in DOMAIN c.data
  BY <1>1
<1> QED BY <1>2, <1>3 DEF HoleFree

\* What a caller supplies is written.
LEMMA FreshHoleFree ==
    ASSUME supplied \in Nat, NEW n \in Nat
    PROVE  HoleFree(Fresh(n))
BY DEF HoleFree, Fresh, Hole

\* No call reads the Marshal of the bookmark, and set_bookmark builds its own.
Marks ==
    /\ bmark.ptr # <<>> => bmark.m \in Marshals
    /\ call.op \in {"read", "write_to_fd", "read_from_marshal"} => call.from # bmark.m
    /\ call.op = "set_bookmark" => bmark.ptr = <<>> \/ bmark.m = call.m

BookInv == MarshalInv /\ BookmarkPoints /\ Marks

\* No reserved byte is in a Marshal without a bookmark.
LEMMA Unmarked ==
    ASSUME BookInv, NEW m \in Marshals, m # bmark.m
    PROVE  NoHole(chunk_[m])
BY DEF BookInv, BookmarkPoints, NoHole, HoleFree, Reserved

\* A bookmark stays good when lists grow, or when one that it is not in is read.
LEMMA BookmarkKept ==
    ASSUME BookInv,
           \A m \in Marshals : \/ Grown(chunk_[m], chunk_'[m], {})
                               \/ m # bmark.m /\ NoHole(chunk_'[m]),
           UNCHANGED bmark
    PROVE  BookmarkPoints'
<1>1. ASSUME NEW k \in DOMAIN bmark.ptr
      PROVE  LET c == bmark.ptr[k][1]
                 b == bmark.ptr[k][2] IN
             /\ c \in DOMAIN chunk_'[bmark.m] /\ b \in DOMAIN chunk_'[bmark.m][c].data
             /\ chunk_'[bmark.m][c].data[b] = Hole /\ chunk_'[bmark.m][c].read_idx < b
  <2> DEFINE c == bmark.ptr[k][1]
             b == bmark.ptr[k][2]
  <2>1. bmark.m \in Marshals
    BY <1>1 DEF BookInv, Marks
  <2>2. /\ c \in DOMAIN chunk_[bmark.m] /\ b \in DOMAIN chunk_[bmark.m][c].data
        /\ chunk_[bmark.m][c].data[b] = Hole /\ chunk_[bmark.m][c].read_idx < b
    BY <1>1 DEF BookInv, BookmarkPoints, Reserved
  <2>3. Grown(chunk_[bmark.m], chunk_'[bmark.m], {})
    BY <2>1
  <2> QED BY <2>2, <2>3 DEF Grown
<1>2. ASSUME NEW m \in Marshals, NEW c \in DOMAIN chunk_'[m], NEW b \in DOMAIN chunk_'[m][c].data,
             chunk_'[m][c].data[b] = Hole
      PROVE  m = bmark.m /\ \E k \in DOMAIN bmark.ptr : bmark.ptr[k] = <<c, b>>
  <2>1. Grown(chunk_[m], chunk_'[m], {})
    BY <1>2 DEF NoHole, HoleFree
  <2>2. c \in DOMAIN chunk_[m] /\ b \in DOMAIN chunk_[m][c].data /\ chunk_[m][c].data[b] = Hole
    BY <1>2, <2>1 DEF Grown
  <2>3. BookmarkPoints
    BY DEF BookInv
  <2> QED BY ONLY <2>2, <2>3, m \in Marshals DEF BookmarkPoints, Reserved
<1> QED BY ONLY <1>1, <1>2, UNCHANGED bmark DEF BookmarkPoints, Reserved

\* A call of m writes to m and reads o; bmark stays.
LEMMA ListsKept ==
    ASSUME BookInv, NEW m \in Marshals, NEW o \in Marshals, NEW cs, NEW ds,
           Grown(chunk_[m], cs, {}),
           \/ chunk_' = [chunk_ EXCEPT ![m] = cs]
           \/ chunk_' = [chunk_ EXCEPT ![m] = cs, ![o] = ds] /\ m # o /\ o # bmark.m /\ NoHole(ds),
           UNCHANGED bmark
    PROVE  BookmarkPoints'
<1>1. \A x \in Marshals : \/ Grown(chunk_[x], chunk_'[x], {})
                          \/ x # bmark.m /\ NoHole(chunk_'[x])
  <2>1. DOMAIN chunk_ = Marshals
    BY DEF BookInv, MarshalInv
  <2>2. TAKE x \in Marshals
  <2>3. CASE chunk_'[x] = chunk_[x]
    BY <2>3, GrownStays
  <2>4. CASE x = m /\ chunk_'[x] = cs
    BY <2>4
  <2>5. CASE x = o /\ chunk_'[x] = ds /\ o # bmark.m /\ NoHole(ds)
    BY <2>5
  <2> QED BY <2>1, <2>3, <2>4, <2>5
<1> QED BY <1>1, BookmarkKept

\* ... and a call that only reads.
LEMMA ReadKept ==
    ASSUME BookInv, NEW o \in Marshals, NEW ds, o # bmark.m, NoHole(ds),
           chunk_' = [chunk_ EXCEPT ![o] = ds], UNCHANGED bmark
    PROVE  BookmarkPoints'
<1>1. \A x \in Marshals : \/ Grown(chunk_[x], chunk_'[x], {})
                          \/ x # bmark.m /\ NoHole(chunk_'[x])
  <2>1. DOMAIN chunk_ = Marshals
    BY DEF BookInv, MarshalInv
  <2>2. TAKE x \in Marshals
  <2>3. CASE x # o
    BY <2>1, <2>3, GrownStays
  <2>4. CASE x = o
    BY <2>1, <2>4
  <2> QED BY <2>3, <2>4
<1> QED BY <1>1, BookmarkKept

\* A step that changes no chunk and no bookmark.
LEMMA SameLists ==
    ASSUME BookInv, UNCHANGED <<chunk_, bmark>>
    PROVE  BookmarkPoints'
BY DEF BookInv, BookmarkPoints, Reserved

\* A step that leaves the bookmarks alone keeps those of the call.
LEMMA MarksKept ==
    ASSUME BookInv, UNCHANGED bmark,
           \/ UNCHANGED call
           \/ Returns
           \/ \E p : Moved(p)
    PROVE  Marks'
<1>1. CASE UNCHANGED call
  BY <1>1 DEF BookInv, Marks
<1>2. CASE Returns
  BY <1>2 DEF BookInv, Marks, Returns, Idle
<1>3. CASE \E p : Moved(p)
  <2>1. /\ call'.op = call.op /\ call'.m = call.m /\ call'.from = call.from
    BY <1>3 DEF Moved, BookInv, MarshalInv, CallOK
  <2> QED BY <2>1 DEF BookInv, Marks
<1> QED BY <1>1, <1>2, <1>3

\* What is read from a Marshal has been written.
LEMMA TakesKept ==
    ASSUME BookInv, call.op \in {"read", "write_to_fd"}, chunk_[call.m] # <<>>, NEW r \in Nat,
           chunk_' = [chunk_ EXCEPT ![call.m] = ReadHead(@, r)], UNCHANGED bmark
    PROVE  BookmarkPoints'
<1>1. /\ call.m \in Marshals /\ chunk_[call.m] \in ChunkList /\ call.m # bmark.m
  BY CallFacts DEF BookInv, Marks, MarshalInv, CallOK
<1>2. NoHole(ReadHead(chunk_[call.m], r))
  BY <1>1, Unmarked, ReadHeadNoHole
<1> QED BY <1>1, <1>2, ReadKept

\* read and write_to_fd keep the bookmarks.
LEMMA ReadsBook ==
    ASSUME BookInv, ReadLoop \/ ReadEnd \/ WriteToFdLoop \/ WriteToFdEnd
    PROVE  BookmarkPoints' /\ Marks'
<1>1. call.op \in {"read", "write_to_fd"} /\ UNCHANGED bmark
  BY DEF ReadLoop, ReadEnd, WriteToFdLoop, WriteToFdEnd, Running
<1>2. Marks'
  BY <1>1, MarksKept DEF ReadLoop, ReadEnd, WriteToFdLoop, WriteToFdEnd
<1>3. MarshalInv /\ call.from = call.m
  BY <1>1 DEF BookInv, MarshalInv, CallOK
<1>4. CASE ReadLoop
  <2>1. chunk_[call.m] # <<>> /\ ReadSize > 0 /\ chunk_' = [chunk_ EXCEPT ![call.m] = ReadHead(@, ReadSize)]
    BY <1>4 DEF ReadLoop
  <2>2. ReadSize \in Nat
    BY <1>1, <1>3, <2>1, ReadSizeFacts
  <2> QED BY <1>1, <1>2, <2>1, <2>2, TakesKept
<1>5. CASE WriteToFdLoop
  <2>1. PICK r \in 1 .. content_size(Head(chunk_[call.m])) :
            chunk_[call.m] # <<>> /\ chunk_' = [chunk_ EXCEPT ![call.m] = ReadHead(@, r)]
    BY <1>5 DEF WriteToFdLoop
  <2>2. r \in Nat
    BY <1>1, <1>3, <2>1, ReadSizeFacts
  <2> QED BY <1>1, <1>2, <2>1, <2>2, TakesKept
<1>6. CASE chunk_[call.m] # <<>> /\ chunk_' = [chunk_ EXCEPT ![call.m] = ReadHead(@, 0)]
  BY <1>1, <1>2, <1>6, TakesKept
<1>7. CASE UNCHANGED chunk_
  BY <1>1, <1>2, <1>7, SameLists
<1>8. CASE WriteToFdEnd /\ chunk_[call.m] = <<>>
  <2>1. UNCHANGED chunk_
    BY <1>8 DEF WriteToFdEnd, BookInv, MarshalInv
  <2> QED BY <2>1, <1>7
<1> QED BY <1>4, <1>5, <1>6, <1>7, <1>8 DEF ReadEnd, WriteToFdEnd

\* write keeps the bookmarks.
LEMMA WriteBook ==
    ASSUME BookInv, NEW m \in Marshals, NEW n \in Nat, Write(m, n)
    PROVE  BookmarkPoints' /\ Marks'
<1> DEFINE cs == chunk_[m]
           room == Least(n, writable(Last(cs)))
           p == Fresh(n)
<1>1. cs \in ChunkList /\ supplied \in Nat
  BY DEF BookInv, MarshalInv
<1>2. p \in Seq(Byte) /\ Len(p) = n /\ HoleFree(p)
  BY <1>1, FreshBytes, FreshHoleFree
<1>3. Marks'
  BY MarksKept DEF Write
<1>4. UNCHANGED bmark
  BY DEF Write
<1> HIDE DEF cs, p
<1>5. ASSUME NEW q \in Seq(Byte), HoleFree(q) PROVE NewChunk(q) \in Chunk /\ HoleFree(NewChunk(q).data)
  BY <1>5, NewChunkIsChunk DEF NewChunk
<1>6. CASE NeedsChunk(cs)
  <2>1. Grown(cs, Append(cs, NewChunk(p)), {})
    BY <1>1, <1>2, <1>5, AppendGrows
  <2>2. chunk_' = [chunk_ EXCEPT ![m] = Append(cs, NewChunk(p))]
    BY <1>6 DEF Write, cs, p
  <2> QED BY <1>3, <1>4, <2>1, <2>2, ListsKept DEF cs
<1>7. CASE ~NeedsChunk(cs)
  <2>1. cs # <<>> /\ Last(cs) \in Chunk /\ writable(Last(cs)) \in Nat
    BY <1>1, <1>7, ListFacts, ChunkFacts DEF NeedsChunk
  <2>2. room \in Nat /\ room <= n /\ room <= writable(Last(cs))
    BY <2>1 DEF Least
  <2> HIDE DEF room
  <2>3. CASE room < n
    <3> DEFINE p1 == SubSeq(p, 1, room)
               p2 == SubSeq(p, room + 1, n)
    <3>1. /\ p1 \in Seq(Byte) /\ Len(p1) = room /\ DOMAIN p1 = 1 .. room
          /\ \A k \in 1 .. room : p1[k] = p[k] /\ k \in 1 .. n
      BY <1>2, <2>2
    <3>2. /\ p2 \in Seq(Byte) /\ DOMAIN p2 = 1 .. n - room
          /\ \A k \in 1 .. n - room : p2[k] = p[room + k] /\ room + k \in 1 .. n
      <4>1. \A k \in room + 1 .. n : p[k] \in Byte
        BY <1>2, <2>2
      <4>2. /\ p2 \in Seq(Byte) /\ Len(p2) = IF room + 1 <= n THEN n - (room + 1) + 1 ELSE 0
            /\ \A k \in 1 .. n - (room + 1) + 1 : p2[k] = p[room + 1 + k - 1]
        BY <2>2, <4>1, SubSeqProperties
      <4> HIDE DEF p2
      <4>3. Len(p2) = n - room /\ \A k \in 1 .. n - room : p2[k] = p[room + k]
        BY <2>2, <2>3, <4>2
      <4> QED BY <2>2, <4>2, <4>3
    <3>3. HoleFree(p1) /\ HoleFree(p2)
      BY <1>2, <3>1, <3>2 DEF HoleFree
    <3> HIDE DEF p1, p2
    <3> DEFINE ds == WriteLast(cs, p1)
    <3>4. Grown(cs, ds, {}) /\ ds \in ChunkList
      BY <1>1, <2>1, <2>2, <3>1, <3>3, WriteLastGrows, WriteLastIsList
    <3> HIDE DEF ds
    <3>5. Grown(ds, Append(ds, NewChunk(p2)), {})
      BY <1>5, <3>2, <3>3, <3>4, AppendGrows
    <3>6. Grown(cs, Append(ds, NewChunk(p2)), {})
      BY <3>4, <3>5, GrownTwice
    <3>7. chunk_' = [chunk_ EXCEPT ![m] = Append(ds, NewChunk(p2))]
      BY <1>7, <2>3 DEF Write, cs, room, p, p1, p2, ds
    <3> QED BY <1>3, <1>4, <3>6, <3>7, ListsKept DEF cs
  <2>4. CASE ~(room < n)
    <3>1. chunk_' = [chunk_ EXCEPT ![m] = WriteLast(cs, p)]
      BY <1>7, <2>4, WriteFits DEF cs, room, p
    <3>2. Grown(cs, WriteLast(cs, p), {})
      <4>1. Len(p) <= writable(Last(cs))
        BY <1>2, <2>1, <2>2, <2>4
      <4> QED BY <1>1, <1>2, <2>1, <4>1, WriteLastGrows
    <3> QED BY <1>3, <1>4, <3>1, <3>2, ListsKept DEF cs
  <2> QED BY <2>3, <2>4
<1> QED BY <1>6, <1>7

\* Room, and bytes without a reserved one.
LEMMA GivesGrown ==
    ASSUME NEW cs \in ChunkList, NEW p \in Seq(Byte), Len(p) <= writable(Last(WithRoom(cs))),
           HoleFree(p)
    PROVE  Grown(cs, WriteLast(WithRoom(cs), p), {})
<1>1. WithRoom(cs) \in ChunkList /\ WithRoom(cs) # <<>> /\ Grown(cs, WithRoom(cs), {})
  BY WithRoomIsList, WithRoomGrows
<1>2. Grown(WithRoom(cs), WriteLast(WithRoom(cs), p), {})
  BY <1>1, WriteLastGrows
<1> QED BY <1>1, <1>2, GrownTwice

\* read_from_fd keeps the bookmarks.
LEMMA ReadFromFdBook ==
    ASSUME BookInv, ReadFromFdLoop \/ ReadFromFdEnd
    PROVE  BookmarkPoints' /\ Marks'
<1> DEFINE cs == WithRoom(chunk_[call.m])
<1>1. call.op = "read_from_fd" /\ UNCHANGED bmark /\ MarshalInv
  BY DEF ReadFromFdLoop, ReadFromFdEnd, Running, BookInv
<1>2. call.m \in Marshals /\ chunk_[call.m] \in ChunkList
  BY <1>1, CallFacts
<1>3. Marks'
  BY <1>1, MarksKept DEF ReadFromFdLoop, ReadFromFdEnd
<1>4. CASE ReadFromFdLoop
  <2>1. PICK r \in 1 .. Least(writable(Last(cs)), MaxBytes - supplied) :
            chunk_' = [chunk_ EXCEPT ![call.m] = WriteLast(cs, Fresh(r))]
    BY <1>4 DEF ReadFromFdLoop
  <2>2. r \in Nat /\ r <= writable(Last(cs))
    <3>1. writable(Last(cs)) \in Int /\ MaxBytes - supplied \in Int
      BY <1>1, <1>2, WithRoomIsList, MarshalAssumption DEF MarshalInv
    <3> QED BY ONLY <2>1, <3>1, LeastRange
  <2>3. Fresh(r) \in Seq(Byte) /\ Len(Fresh(r)) = r /\ HoleFree(Fresh(r))
    BY <1>1, <2>2, FreshBytes, FreshHoleFree DEF MarshalInv
  <2>4. Grown(chunk_[call.m], WriteLast(cs, Fresh(r)), {})
    BY <1>2, <2>2, <2>3, GivesGrown
  <2> HIDE DEF cs
  <2> QED BY <1>1, <1>2, <1>3, <2>1, <2>4, ListsKept
<1>5. CASE ReadFromFdEnd
  <2>1. chunk_' = [chunk_ EXCEPT ![call.m] = cs]
    BY <1>5 DEF ReadFromFdEnd
  <2>2. Grown(chunk_[call.m], cs, {})
    BY <1>2, WithRoomGrows
  <2> HIDE DEF cs
  <2> QED BY <1>1, <1>2, <1>3, <2>1, <2>2, ListsKept
<1> QED BY <1>4, <1>5

\* read_from_marshal keeps the bookmarks of both Marshals.
LEMMA ReadFromMarshalBook ==
    ASSUME BookInv, TransferChunk \/ CopyChunk \/ ReadFromMarshalEnd
    PROVE  BookmarkPoints' /\ Marks'
<1> DEFINE cs == chunk_[call.m]
           ds == chunk_[call.from]
<1>1. /\ call.op = "read_from_marshal" /\ UNCHANGED bmark /\ MarshalInv
      /\ call.m # call.from /\ call.from # bmark.m
  BY DEF TransferChunk, CopyChunk, ReadFromMarshalEnd, Running, BookInv, Marks, MarshalInv, CallOK
<1>2. call.m \in Marshals /\ call.from \in Marshals /\ cs \in ChunkList /\ ds \in ChunkList
  BY <1>1, CallFacts
<1>3. NoHole(ds)
  BY <1>1, <1>2, Unmarked
<1>4. Marks'
  BY <1>1, MarksKept DEF TransferChunk, CopyChunk, ReadFromMarshalEnd
<1>5. CASE TransferChunk
  <2>1. /\ ds # <<>>
        /\ chunk_' = [chunk_ EXCEPT ![call.m] = Append(cs, Head(ds)), ![call.from] = Tail(ds)]
    BY <1>1, <1>5 DEF TransferChunk, MarshalInv
  <2>2. Head(ds) \in Chunk /\ HoleFree(Head(ds).data) /\ NoHole(Tail(ds))
    BY <1>2, <1>3, <2>1, ListFacts, TailNoHole
  <2>3. Grown(cs, Append(cs, Head(ds)), {})
    BY <1>2, <2>2, AppendGrows
  <2> QED BY <1>1, <1>2, <1>4, <2>1, <2>2, <2>3, ListsKept
<1>6. CASE CopyChunk
  <2> DEFINE p == Content(Head(ds), CopySize)
             gs == WriteLast(WithRoom(cs), p)
  <2>1. /\ ds # <<>> /\ CopySize > 0
        /\ chunk_' = [chunk_ EXCEPT ![call.m] = gs, ![call.from] = ReadHead(ds, CopySize)]
    BY <1>1, <1>6 DEF CopyChunk
  <2>2. /\ Head(ds) \in Chunk /\ HoleFree(Head(ds).data)
    BY <1>2, <1>3, <2>1, ListFacts, TailNoHole
  <2>3. CopySize \in Nat /\ CopySize <= content_size(Head(ds))
        /\ CopySize <= writable(Last(WithRoom(cs)))
    BY <1>1, <2>1, CopySizeFacts
  <2>4. p \in Seq(Byte) /\ Len(p) = CopySize /\ HoleFree(p)
    BY <2>2, <2>3, ContentIsBytes, ContentHoleFree
  <2>5. Grown(cs, gs, {})
    BY <1>2, <2>3, <2>4, GivesGrown
  <2>6. NoHole(ReadHead(ds, CopySize))
    BY <1>2, <1>3, <2>1, <2>3, ReadHeadNoHole
  <2> HIDE DEF gs
  <2> QED BY <1>1, <1>2, <1>4, <2>1, <2>5, <2>6, ListsKept
<1>7. CASE ReadFromMarshalEnd /\ UNCHANGED chunk_
  BY <1>1, <1>4, <1>7, SameLists
<1>8. CASE /\ ds # <<>>
           /\ chunk_' = [chunk_ EXCEPT ![call.m] = WithRoom(@), ![call.from] = ReadHead(@, 0)]
  <2>1. chunk_' = [chunk_ EXCEPT ![call.m] = WithRoom(cs), ![call.from] = ReadHead(ds, 0)]
    BY <1>1, <1>8
  <2>2. NoHole(ReadHead(ds, 0)) /\ Grown(cs, WithRoom(cs), {})
    BY <1>2, <1>3, <1>8, ReadHeadNoHole, WithRoomGrows
  <2> QED BY <1>1, <1>2, <1>4, <2>1, <2>2, ListsKept
<1> QED BY <1>5, <1>6, <1>7, <1>8 DEF ReadFromMarshalEnd

\* One more reserved byte, and one more pointer.
LEMMA SetBookmarkBook ==
    ASSUME BookInv, SetBookmarkLoop
    PROVE  BookmarkPoints' /\ Marks'
<1> DEFINE cs == chunk_[call.m]
           gs == WithRoom(cs)
           ds == WriteLast(gs, <<Hole>>)
           n == Len(gs)
           a == Len(Last(gs).data) + 1
<1>1. /\ call.op = "set_bookmark" /\ MarshalInv
      /\ bmark.ptr = <<>> \/ bmark.m = call.m
      /\ bmark.ptr \in Seq(Nat \X Nat)
  BY DEF SetBookmarkLoop, Running, BookInv, Marks, MarshalInv
<1>2. call.m \in Marshals /\ cs \in ChunkList
  BY <1>1, CallFacts
<1>3. /\ chunk_' = [chunk_ EXCEPT ![call.m] = ds]
      /\ bmark' = [m |-> call.m, ptr |-> Append(bmark.ptr, <<n, a>>)]
      /\ Moved(<<Hole>>)
  BY DEF SetBookmarkLoop
<1>4. Marks'
  <2>1. call'.op = call.op /\ call'.m = call.m
    BY <1>3 DEF Moved, MarshalInv, CallOK, BookInv
  <2> QED BY <1>1, <1>2, <1>3, <2>1 DEF Marks
<1>5. /\ gs \in ChunkList /\ gs # <<>> /\ Last(gs) \in Chunk /\ 1 <= writable(Last(gs))
      /\ n \in DOMAIN gs /\ gs[n] = Last(gs)
  <2>1. gs \in ChunkList /\ gs # <<>> /\ Last(gs) \in Chunk /\ writable(Last(gs)) \in Nat \ {0}
    BY <1>2, WithRoomIsList
  <2> HIDE DEF gs
  <2>2. n \in Nat /\ n > 0 /\ DOMAIN gs = 1 .. n
    BY <2>1, ListFacts
  <2> QED BY <2>1, <2>2 DEF Last
<1>6. Grown(cs, gs, {})
  BY <1>2, WithRoomGrows
<1> HIDE DEF gs
<1>7. <<Hole>> \in Seq(Byte) /\ Len(<<Hole>>) = 1 /\ DOMAIN <<Hole>> = {1} /\ <<Hole>>[1] = Hole
  BY DEF Hole, Byte
<1>8. /\ Grown(gs, ds, {<<n, Len(Last(gs).data) + k>> : k \in {1}})
      /\ n \in DOMAIN ds /\ a \in DOMAIN ds[n].data /\ ds[n].data[a] = Hole
  BY <1>5, <1>7, WriteLastGrows
<1>9. Grown(gs, ds, {<<n, a>>}) /\ ds[n].read_idx < a
  <2>1. {<<n, Len(Last(gs).data) + k>> : k \in {1}} = {<<n, a>>}
    OBVIOUS
  <2>2. ds[n].read_idx = Last(gs).read_idx
    BY <1>5, <1>8 DEF Grown
  <2>3. Last(gs).read_idx < a
    BY <1>5, ChunkFacts
  <2> QED BY <1>8, <2>1, <2>2, <2>3
<1>10. Grown(cs, ds, {<<n, a>>})
  BY <1>6, <1>9, GrownTwice
<1> HIDE DEF ds, cs, n, a
<1>11. /\ \A k \in DOMAIN bmark.ptr : k \in DOMAIN bmark'.ptr /\ bmark'.ptr[k] = bmark.ptr[k]
       /\ \A k \in DOMAIN bmark'.ptr : k \in DOMAIN bmark.ptr \/ bmark'.ptr[k] = <<n, a>>
       /\ \E k \in DOMAIN bmark'.ptr : bmark'.ptr[k] = <<n, a>>
  <2>1. bmark'.ptr = Append(bmark.ptr, <<n, a>>)
    BY <1>3
  <2>2. <<n, a>> \in Nat \X Nat
    <3>1. n \in Nat /\ Last(gs).data \in Seq(Byte)
      BY <1>5, ListFacts, ChunkFacts DEF n
    <3>2. a \in Nat
      BY <3>1 DEF a
    <3> QED BY <3>1, <3>2
  <2>3. PICK s \in Seq(Nat \X Nat), e \in Nat \X Nat :
            s = bmark.ptr /\ e = <<n, a>>
    BY <1>1, <2>2
  <2>0. PICK t : t = bmark'.ptr
    OBVIOUS
  <2>4. t = Append(s, e)
    BY <2>0, <2>1, <2>3
  <2>5. /\ \A k \in DOMAIN s : k \in DOMAIN t /\ t[k] = s[k]
        /\ \A k \in DOMAIN t : k \in DOMAIN s \/ t[k] = e
        /\ \E k \in DOMAIN t : t[k] = e
    <3>1. /\ Len(s) \in Nat /\ DOMAIN s = 1 .. Len(s) /\ DOMAIN t = 1 .. Len(s) + 1
          /\ t[Len(s) + 1] = e /\ \A k \in 1 .. Len(s) : t[k] = s[k]
      BY <2>4, AppendProperties
    <3>2. \A k \in 1 .. Len(s) + 1 : k \in 1 .. Len(s) \/ k = Len(s) + 1
      BY <3>1
    <3>3. \A k \in 1 .. Len(s) : k \in 1 .. Len(s) + 1
      BY <3>1
    <3>4. Len(s) + 1 \in 1 .. Len(s) + 1
      BY <3>1
    <3> QED BY ONLY <3>1, <3>2, <3>3, <3>4
  <2> QED BY <2>0, <2>3, <2>5
<1>12. /\ bmark'.m = call.m
       /\ chunk_'[call.m] = ds
       /\ \A x \in Marshals \ {call.m} : chunk_'[x] = chunk_[x]
  BY <1>2, <1>3 DEF BookInv, MarshalInv
<1>13. ASSUME NEW k \in DOMAIN bmark'.ptr
       PROVE  LET c == bmark'.ptr[k][1]
                  b == bmark'.ptr[k][2] IN
              /\ c \in DOMAIN ds /\ b \in DOMAIN ds[c].data
              /\ ds[c].data[b] = Hole /\ ds[c].read_idx < b
  <2>1. CASE bmark'.ptr[k] = <<n, a>>
    BY <1>8, <1>9, <2>1
  <2>2. CASE k \in DOMAIN bmark.ptr
    <3> DEFINE c == bmark.ptr[k][1]
               b == bmark.ptr[k][2]
    <3>1. bmark'.ptr[k] = bmark.ptr[k] /\ bmark.m = call.m
      BY <1>1, <1>11, <2>2
    <3>2. c \in DOMAIN cs /\ b \in DOMAIN cs[c].data /\ cs[c].data[b] = Hole /\ cs[c].read_idx < b
      BY <2>2, <3>1 DEF BookInv, BookmarkPoints, Reserved, cs
    <3> HIDE DEF c, b
    <3>3. c \in DOMAIN ds /\ b \in DOMAIN ds[c].data /\ ds[c].data[b] = Hole /\ ds[c].read_idx < b
      BY <1>10, <3>2 DEF Grown
    <3> QED BY <3>1, <3>3 DEF c, b
  <2> QED BY <1>11, <2>1, <2>2
<1>14. ASSUME NEW x \in Marshals, NEW c \in DOMAIN chunk_'[x], NEW b \in DOMAIN chunk_'[x][c].data,
              chunk_'[x][c].data[b] = Hole
       PROVE  x = call.m /\ \E k \in DOMAIN bmark'.ptr : bmark'.ptr[k] = <<c, b>>
  <2>1. ASSUME c \in DOMAIN chunk_[x], b \in DOMAIN chunk_[x][c].data, chunk_[x][c].data[b] = Hole
        PROVE  x = call.m /\ \E k \in DOMAIN bmark'.ptr : bmark'.ptr[k] = <<c, b>>
    <3>1. x = bmark.m /\ \E k \in DOMAIN bmark.ptr : bmark.ptr[k] = <<c, b>>
      BY <2>1 DEF BookInv, BookmarkPoints, Reserved
    <3>2. bmark.ptr # <<>>
      BY <3>1
    <3> QED BY <1>1, <1>11, <3>1, <3>2
  <2>2. CASE x # call.m
    BY <1>12, <1>14, <2>1, <2>2
  <2>3. CASE x = call.m
    <3>1. <<c, b>> = <<n, a>> \/ (c \in DOMAIN cs /\ b \in DOMAIN cs[c].data)
      BY <1>10, <1>12, <1>14, <2>3 DEF Grown
    <3>2. CASE <<c, b>> = <<n, a>>
      BY <1>11, <2>3, <3>2
    <3>3. CASE c \in DOMAIN cs /\ b \in DOMAIN cs[c].data
      <4>1. cs[c].data[b] = Hole
        BY <1>10, <1>12, <1>14, <2>3, <3>3 DEF Grown
      <4> QED BY <2>1, <2>3, <3>3, <4>1 DEF cs
    <3> QED BY <3>1, <3>2, <3>3
  <2> QED BY <2>2, <2>3
<1>15. BookmarkPoints'
  <2>1. ASSUME NEW k \in DOMAIN bmark'.ptr
        PROVE  LET c == bmark'.ptr[k][1]
                   b == bmark'.ptr[k][2] IN
               /\ c \in DOMAIN chunk_'[bmark'.m] /\ b \in DOMAIN chunk_'[bmark'.m][c].data
               /\ chunk_'[bmark'.m][c].data[b] = Hole /\ chunk_'[bmark'.m][c].read_idx < b
    BY <1>12, <1>13
  <2>2. ASSUME NEW x \in Marshals, NEW c \in DOMAIN chunk_'[x], NEW b \in DOMAIN chunk_'[x][c].data,
               chunk_'[x][c].data[b] = Hole
        PROVE  x = bmark'.m /\ \E k \in DOMAIN bmark'.ptr : bmark'.ptr[k] = <<c, b>>
    BY <1>12, <1>14, <2>2
  <2> QED BY ONLY <2>1, <2>2 DEF BookmarkPoints, Reserved
<1> QED BY <1>4, <1>15

\* Every reserved byte is written.
LEMMA WriteBookmarkBook ==
    ASSUME BookInv, NEW m \in Marshals, WriteBookmark(m)
    PROVE  BookmarkPoints' /\ Marks'
<1>1. /\ call = Idle /\ bmark.m = m /\ bmark' = NoBookmark /\ UNCHANGED call
      /\ chunk_' = [chunk_ EXCEPT ![m] = [c \in DOMAIN @ |-> PatchChunk(@[c], c)]]
  BY DEF WriteBookmark
<1>2. /\ MarshalInv /\ supplied \in Nat /\ bmark.ptr \in Seq(Nat \X Nat)
      /\ chunk_[m] \in ChunkList /\ DOMAIN chunk_[m] = 1 .. Len(chunk_[m])
      /\ \A c \in DOMAIN chunk_[m] : chunk_[m][c] \in Chunk
  BY ListFacts DEF BookInv, MarshalInv
<1>3. /\ chunk_'[m] = [c \in DOMAIN chunk_[m] |-> PatchChunk(chunk_[m][c], c)]
      /\ \A x \in Marshals \ {m} : chunk_'[x] = chunk_[x]
  BY <1>1 DEF BookInv, MarshalInv
<1>4. NoHole(chunk_'[m])
  <2> SUFFICES ASSUME NEW c \in DOMAIN chunk_[m],
                      NEW b \in DOMAIN PatchChunk(chunk_[m][c], c).data
               PROVE  PatchChunk(chunk_[m][c], c).data[b] # Hole
    BY <1>3 DEF NoHole, HoleFree
  <2> DEFINE old == chunk_[m][c].data[b]
  <2>1. chunk_[m][c] \in Chunk
    BY <1>2
  <2>2. /\ b \in 1 .. Len(chunk_[m][c].data) /\ old \in Byte
        /\ DOMAIN chunk_[m][c].data = 1 .. Len(chunk_[m][c].data)
        /\ PatchChunk(chunk_[m][c], c).data[b] = Patched(c, b, old)
    <3>1. /\ PatchChunk(chunk_[m][c], c).data \in Seq(Byte)
          /\ Len(PatchChunk(chunk_[m][c], c).data) = Len(chunk_[m][c].data)
          /\ \A k \in 1 .. Len(chunk_[m][c].data) :
                PatchChunk(chunk_[m][c], c).data[k] = Patched(c, k, chunk_[m][c].data[k])
          /\ chunk_[m][c].data \in Seq(Byte)
      BY <1>2, <2>1, PatchChunkIsChunk, ChunkFacts
    <3> QED BY <3>1
  <2>3. CASE \E k \in DOMAIN bmark.ptr : bmark.ptr[k] = <<c, b>>
    <3>1. (CHOOSE k \in DOMAIN bmark.ptr : bmark.ptr[k] = <<c, b>>) \in DOMAIN bmark.ptr
      BY <2>3
    <3>2. DOMAIN bmark.ptr \subseteq Nat \ {0}
      BY <1>2
    <3>3. Patched(c, b, old) = supplied + (CHOOSE k \in DOMAIN bmark.ptr : bmark.ptr[k] = <<c, b>>)
      BY <2>3 DEF Patched
    <3> QED BY <1>2, <2>2, <3>1, <3>2, <3>3 DEF Hole
  <2>4. CASE ~\E k \in DOMAIN bmark.ptr : bmark.ptr[k] = <<c, b>>
    <3>1. Patched(c, b, old) = old
      BY <2>4 DEF Patched
    <3>2. old # Hole
      BY <2>2, <2>4 DEF BookInv, BookmarkPoints, Reserved
    <3> QED BY <2>2, <3>1, <3>2
  <2> QED BY <2>3, <2>4
<1>5. \A x \in Marshals : NoHole(chunk_'[x])
  BY <1>1, <1>3, <1>4, Unmarked
<1>6. DOMAIN bmark'.ptr = {} /\ bmark'.ptr = <<>>
  BY <1>1 DEF NoBookmark
<1>7. BookmarkPoints'
  BY <1>5, <1>6 DEF BookmarkPoints, Reserved, NoHole, HoleFree
<1>8. Marks'
  BY <1>1, <1>6 DEF Marks, Idle
<1> QED BY <1>7, <1>8

\* A call that starts keeps the bookmarks.
LEMMA StartBook ==
    ASSUME BookInv, NEW m \in Marshals, NEW n \in Nat, NEW o \in Marshals,
           \/ StartRead(m, n) \/ StartPeek(m, n) \/ StartWriteToFd(m) \/ StartReadFromFd(m)
           \/ StartReadFromMarshal(m, o, n) \/ StartSetBookmark(m, n)
    PROVE  BookmarkPoints' /\ Marks'
<1>1. UNCHANGED <<chunk_, bmark>>
  BY DEF StartRead, StartPeek, StartWriteToFd, StartReadFromFd, StartReadFromMarshal,
         StartSetBookmark, Start
<1>2. /\ call'.op \in {"read", "write_to_fd", "read_from_marshal"} => call'.from # bmark.m
      /\ call'.op = "set_bookmark" => bmark = NoBookmark
  BY DEF StartRead, StartPeek, StartWriteToFd, StartReadFromFd, StartReadFromMarshal,
         StartSetBookmark, Start, Readable, Idle
<1>3. Marks'
  BY <1>1, <1>2 DEF BookInv, Marks, NoBookmark
<1> QED BY <1>1, <1>3, SameLists

\* BookInv is inductive.
LEMMA BookStep == BookInv /\ [Next]_vars => BookInv'
<1> SUFFICES ASSUME BookInv, [Next]_vars PROVE BookInv'
  OBVIOUS
<1>1. MarshalInv'
  BY MarshalStep DEF BookInv
<1>2. ASSUME UNCHANGED <<chunk_, bmark>>, UNCHANGED call \/ Returns \/ \E p : Moved(p)
      PROVE  BookmarkPoints' /\ Marks'
  BY <1>2, SameLists, MarksKept
<1>3. CASE Step
  <2>1. CASE PeekLoop \/ PeekEnd \/ SetBookmarkEnd
    <3>1. UNCHANGED <<chunk_, bmark>> /\ (Returns \/ \E p : Moved(p))
      BY <2>1 DEF PeekLoop, PeekEnd, SetBookmarkEnd
    <3> QED BY <1>1, <1>2, <3>1 DEF BookInv
  <2> QED BY <1>1, <1>3, <2>1, ReadsBook, ReadFromFdBook, ReadFromMarshalBook, SetBookmarkBook
             DEF Step, BookInv
<1>4. ASSUME NEW m \in Marshals, Call(m) PROVE BookInv'
  <2>1. \A n \in 0 .. MaxArg : n \in Nat
    OBVIOUS
  <2>2. CASE \E n \in 0 .. MaxArg : Write(m, n)
    BY <1>1, <2>1, <2>2, WriteBook DEF BookInv
  <2>3. CASE ResetCounter(m)
    BY <1>1, <1>2, <2>3 DEF ResetCounter, BookInv
  <2>4. CASE WriteBookmark(m)
    BY <1>1, <2>4, WriteBookmarkBook DEF BookInv
  <2>5. CASE \/ \E n \in 0 .. MaxArg : StartRead(m, n) \/ StartPeek(m, n)
             \/ \E n \in 0 .. MaxArg, o \in Marshals : StartReadFromMarshal(m, o, n)
             \/ \E n \in 1 .. MaxArg : StartSetBookmark(m, n)
             \/ StartWriteToFd(m) \/ StartReadFromFd(m)
    <3>1. PICK n \in Nat, o \in Marshals :
              \/ StartRead(m, n) \/ StartPeek(m, n) \/ StartWriteToFd(m) \/ StartReadFromFd(m)
              \/ StartReadFromMarshal(m, o, n) \/ StartSetBookmark(m, n)
      BY <2>5
    <3> QED BY <1>1, <3>1, StartBook DEF BookInv
  <2> QED BY <1>4, <2>2, <2>3, <2>4, <2>5 DEF Call
<1>5. CASE UNCHANGED vars
  BY <1>1, <1>2, <1>5 DEF vars, BookInv
<1> QED BY <1>3, <1>4, <1>5 DEF Next

\* A bookmark stays good until it is written, and no byte that set_bookmark
\* reserved is left unwritten, whatever is written to its Marshal meanwhile.
THEOREM MarshalBookmarks == Spec => []BookmarkPoints
<1>1. Init => BookInv
  <2>1. Init => BookmarkPoints
    BY DEF Init, NoBookmark, BookmarkPoints, Reserved
  <2>2. Init => Marks
    BY DEF Init, NoBookmark, Idle, Marks
  <2> QED BY <2>1, <2>2, InitOK DEF BookInv
<1>2. BookInv => BookmarkPoints
  BY DEF BookInv
<1> QED BY <1>1, <1>2, BookStep, PTL DEF Spec


==============================================================================
