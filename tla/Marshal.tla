------------------------------- MODULE Marshal -------------------------------
(***************************************************************************)
(* Chunk and Marshal of marshal.h and marshal.cc: a byte buffer kept as a  *)
(* list of fixed-size chunks.  A Marshal is not thread safe, so one call   *)
(* runs at a time; a call with a loop is a start, a step per iteration and *)
(* a return, and `call` is its local state.                                *)
(*                                                                         *)
(* Chunk: data holds the bytes written so far (write_idx_ is its length),  *)
(* the first read_idx of them have been read.  Bytes are numbered in the   *)
(* order they are supplied; Hole is a byte reserved by set_bookmark.       *)
(***************************************************************************)
EXTENDS Naturals, Sequences, SequencesExt

CONSTANTS
    Marshals,    \* the Marshal objects
    MinSize,     \* Chunk::min_size
    MaxBytes,    \* bytes supplied in a run
    MaxArg,      \* largest n of a call
    Feeds,       \* <<m, o>>: m.read_from_marshal(o, n) is called
    Bookmarked   \* the Marshals set_bookmark is called on

ASSUME MarshalAssumption ==
    /\ MinSize \in Nat \ {0}
    /\ MaxBytes \in Nat
    /\ MaxArg \in Nat
    /\ Feeds \subseteq {p \in Marshals \X Marshals : p[1] # p[2]}
    /\ Bookmarked \subseteq Marshals

Hole == 0
Byte == Nat

VARIABLES
    chunk_,          \* chunk_[m]: the list of chunks
    write_counter_,  \* write_counter_[m]
    supplied,        \* how many bytes have been supplied
    call,            \* the running call
    bmark            \* the bookmark not written yet: its pointers ptr_

vars == <<chunk_, write_counter_, supplied, call, bmark>>

Idle == [op |-> "none", m |-> {}, from |-> {}, n |-> 0, at |-> 0, bytes |-> <<>>]
NoBookmark == [m |-> {}, ptr |-> <<>>]

Init ==
    /\ chunk_ = [m \in Marshals |-> <<>>]
    /\ write_counter_ = [m \in Marshals |-> 0]
    /\ supplied = 0
    /\ call = Idle
    /\ bmark = NoBookmark

-------------------------------------------------------------------------------
(* Chunk.                                                                  *)

Least(a, b) == IF a <= b THEN a ELSE b

\* Chunk(p, n), which has room for MinSize bytes at least; Chunk() has no bytes.
NewChunk(p) ==
    [size |-> IF Len(p) > MinSize THEN Len(p) ELSE MinSize, data |-> p, read_idx |-> 0]

content_size(c) == Len(c.data) - c.read_idx
writable(c) == c.size - Len(c.data)
fully_written(c) == Len(c.data) = c.size
fully_read(c) == c.read_idx = c.size

\* The first n bytes of the content of c.
Content(c, n) == SubSeq(c.data, c.read_idx + 1, c.read_idx + n)

WriteChunk(c, p) == [c EXCEPT !.data = @ \o p]
ReadChunk(c, n) == [c EXCEPT !.read_idx = @ + n]

\* (mutant) A head fully read stays.
ReadHeadKeeps(cs, r) == <<ReadChunk(Head(cs), r)>> \o Tail(cs)

\* Chunks after r bytes of the head were read; a head fully read is deleted.
ReadHead(cs, r) ==
    IF fully_read(ReadChunk(Head(cs), r)) THEN Tail(cs)
    ELSE <<ReadChunk(Head(cs), r)>> \o Tail(cs)

\* Chunks with p written to the last one.
WriteLast(cs, p) == Front(cs) \o <<WriteChunk(Last(cs), p)>>

\* (mutant) A new chunk for every write.
NeedsChunkAlways(cs) == TRUE

NeedsChunk(cs) == cs # <<>> => fully_written(Last(cs))

\* ... after a new chunk was pushed if there is no room.
WithRoom(cs) == IF NeedsChunk(cs) THEN Append(cs, NewChunk(<<>>)) ELSE cs

-------------------------------------------------------------------------------
Fresh(n) == [i \in 1 .. n |-> supplied + i]

Start(op, m, from, n) ==
    /\ call = Idle
    /\ call' = [Idle EXCEPT !.op = op, !.m = m, !.from = from, !.n = n]
    /\ UNCHANGED <<chunk_, write_counter_, supplied, bmark>>

Running(op) == call.op = op

Moved(p) == call' = [call EXCEPT !.bytes = @ \o p, !.at = @ + 1]

Returns == call' = Idle

\* A bookmark is written before its Marshal is read.
Readable(m) == bmark.m # m

\* (mutant) The second chunk starts at p again, not at p + n_write.
WriteRestarts(m, n) ==
    LET cs == chunk_[m]
        room == Least(n, writable(Last(cs)))
        p == Fresh(n) IN
    /\ call = Idle
    /\ n > 0 /\ supplied + n <= MaxBytes
    /\ chunk_' = [chunk_ EXCEPT ![m] =
          IF NeedsChunk(cs) THEN Append(cs, NewChunk(p))
          ELSE Append(WriteLast(cs, SubSeq(p, 1, room)), NewChunk(SubSeq(p, 1, n - room)))]
    /\ write_counter_' = [write_counter_ EXCEPT ![m] = @ + n]
    /\ supplied' = supplied + n
    /\ UNCHANGED <<call, bmark>>

\* write(p, n), n > 0
Write(m, n) ==
    LET cs == chunk_[m]
        room == Least(n, writable(Last(cs)))
        p == Fresh(n) IN
    /\ call = Idle
    /\ n > 0 /\ supplied + n <= MaxBytes
    /\ chunk_' = [chunk_ EXCEPT ![m] =
          IF NeedsChunk(cs) THEN Append(cs, NewChunk(p))
          ELSE IF room < n
               THEN Append(WriteLast(cs, SubSeq(p, 1, room)), NewChunk(SubSeq(p, room + 1, n)))
               ELSE WriteLast(cs, p)]
    /\ write_counter_' = [write_counter_ EXCEPT ![m] = @ + n]
    /\ supplied' = supplied + n
    /\ UNCHANGED <<call, bmark>>

\* get_write_counter_and_reset()
ResetCounter(m) ==
    /\ call = Idle
    /\ write_counter_' = [write_counter_ EXCEPT ![m] = 0]
    /\ UNCHANGED <<chunk_, supplied, call, bmark>>

\* read(p, n)
StartRead(m, n) == Readable(m) /\ Start("read", m, m, n)

\* What is left to read of n.
Wanted == call.n - Len(call.bytes)

ReadSize == Least(Wanted, content_size(Head(chunk_[call.from])))

ReadLoop ==
    /\ Running("read")
    /\ chunk_[call.m] # <<>>
    /\ Wanted > 0
    /\ ReadSize > 0
    /\ chunk_' = [chunk_ EXCEPT ![call.m] = ReadHead(@, ReadSize)]
    /\ Moved(Content(Head(chunk_[call.m]), ReadSize))
    /\ UNCHANGED <<write_counter_, supplied, bmark>>

ReadEnd ==
    /\ Running("read")
    /\ \/ (chunk_[call.m] = <<>> \/ Wanted = 0) /\ UNCHANGED chunk_
       \/ /\ chunk_[call.m] # <<>> /\ Wanted > 0
          /\ ReadSize = 0
          /\ chunk_' = [chunk_ EXCEPT ![call.m] = ReadHead(@, 0)]
    /\ Returns
    /\ UNCHANGED <<write_counter_, supplied, bmark>>

\* peek(p, n): call.at chunks have been visited.
StartPeek(m, n) == Readable(m) /\ Start("peek", m, m, n)

PeekSize == Least(Wanted, content_size(chunk_[call.m][call.at + 1]))

PeekLoop ==
    /\ Running("peek")
    /\ call.at < Len(chunk_[call.m])
    /\ PeekSize > 0
    /\ Moved(Content(chunk_[call.m][call.at + 1], PeekSize))
    /\ UNCHANGED <<chunk_, write_counter_, supplied, bmark>>

PeekEnd ==
    /\ Running("peek")
    /\ call.at < Len(chunk_[call.m]) => PeekSize = 0
    /\ Returns
    /\ UNCHANGED <<chunk_, write_counter_, supplied, bmark>>

\* write_to_fd(fd): write() takes r bytes of the head; r <= 0 ends the loop.
StartWriteToFd(m) == Readable(m) /\ Start("write_to_fd", m, m, 0)

WriteToFdLoop ==
    /\ Running("write_to_fd")
    /\ chunk_[call.m] # <<>>
    /\ \E r \in 1 .. content_size(Head(chunk_[call.m])) :
          /\ chunk_' = [chunk_ EXCEPT ![call.m] = ReadHead(@, r)]
          /\ Moved(Content(Head(chunk_[call.m]), r))
    /\ UNCHANGED <<write_counter_, supplied, bmark>>

WriteToFdEnd ==
    /\ Running("write_to_fd")
    /\ chunk_' = [chunk_ EXCEPT ![call.m] = IF @ = <<>> THEN @ ELSE ReadHead(@, 0)]
    /\ Returns
    /\ UNCHANGED <<write_counter_, supplied, bmark>>

\* read_from_fd(fd): read() fills r bytes of the last chunk; r <= 0 ends the
\* loop, and leaves the chunk that was made for it.
StartReadFromFd(m) == Start("read_from_fd", m, m, 0)

ReadFromFdLoop ==
    LET cs == WithRoom(chunk_[call.m]) IN
    /\ Running("read_from_fd")
    /\ \E r \in 1 .. Least(writable(Last(cs)), MaxBytes - supplied) :
          /\ chunk_' = [chunk_ EXCEPT ![call.m] = WriteLast(cs, Fresh(r))]
          /\ Moved(Fresh(r))
          /\ supplied' = supplied + r
    /\ UNCHANGED <<write_counter_, bmark>>

ReadFromFdEnd ==
    /\ Running("read_from_fd")
    /\ chunk_' = [chunk_ EXCEPT ![call.m] = WithRoom(@)]
    /\ Returns
    /\ UNCHANGED <<write_counter_, supplied, bmark>>

\* m.read_from_marshal(o, n)
StartReadFromMarshal(m, o, n) ==
    /\ <<m, o>> \in Feeds
    /\ Readable(o)
    /\ Start("read_from_marshal", m, o, n)

\* The whole head of o changes hands when m has no room and n asks for more.
Transfers ==
    /\ NeedsChunk(chunk_[call.m])
    /\ content_size(Head(chunk_[call.from])) < Wanted

TransferChunk ==
    /\ Running("read_from_marshal")
    /\ Wanted > 0
    /\ chunk_[call.from] # <<>>
    /\ Transfers
    /\ LET c == Head(chunk_[call.from]) IN
       /\ chunk_' = [chunk_ EXCEPT ![call.m] = Append(@, c), ![call.from] = Tail(@)]
       /\ Moved(Content(c, content_size(c)))
    /\ UNCHANGED <<write_counter_, supplied, bmark>>

CopySize == Least(writable(Last(WithRoom(chunk_[call.m]))), ReadSize)

CopyChunk ==
    LET cs == WithRoom(chunk_[call.m])
        p == Content(Head(chunk_[call.from]), CopySize) IN
    /\ Running("read_from_marshal")
    /\ Wanted > 0
    /\ chunk_[call.from] # <<>>
    /\ ~Transfers
    /\ CopySize > 0
    /\ chunk_' = [chunk_ EXCEPT ![call.m] = WriteLast(cs, p),
                                ![call.from] = ReadHead(@, CopySize)]
    /\ Moved(p)
    /\ UNCHANGED <<write_counter_, supplied, bmark>>

ReadFromMarshalEnd ==
    /\ Running("read_from_marshal")
    /\ \/ (Wanted = 0 \/ chunk_[call.from] = <<>>) /\ UNCHANGED chunk_
       \/ /\ Wanted > 0 /\ chunk_[call.from] # <<>>
          /\ ~Transfers
          /\ CopySize = 0
          /\ chunk_' = [chunk_ EXCEPT ![call.m] = WithRoom(@), ![call.from] = ReadHead(@, 0)]
    /\ Returns
    /\ UNCHANGED <<write_counter_, supplied, bmark>>

\* set_bookmark(n): one reserved byte and one pointer to it per iteration.
\* verify(write_counter_ == 0) is the caller's duty.
StartSetBookmark(m, n) ==
    /\ m \in Bookmarked
    /\ bmark = NoBookmark
    /\ write_counter_[m] = 0
    /\ Start("set_bookmark", m, m, n)

\* (mutant) Chunk::set_bookmark takes the address after write_idx_++.
SetBookmarkAfter ==
    LET cs == WithRoom(chunk_[call.m]) IN
    /\ Running("set_bookmark")
    /\ Wanted > 0
    /\ chunk_' = [chunk_ EXCEPT ![call.m] = WriteLast(cs, <<Hole>>)]
    /\ Moved(<<Hole>>)
    /\ bmark' = [m |-> call.m,
                 ptr |-> Append(bmark.ptr, <<Len(cs), Len(Last(cs).data) + 2>>)]
    /\ UNCHANGED <<write_counter_, supplied>>

SetBookmarkLoop ==
    LET cs == WithRoom(chunk_[call.m]) IN
    /\ Running("set_bookmark")
    /\ Wanted > 0
    /\ chunk_' = [chunk_ EXCEPT ![call.m] = WriteLast(cs, <<Hole>>)]
    /\ Moved(<<Hole>>)
    /\ bmark' = [m |-> call.m,
                 ptr |-> Append(bmark.ptr, <<Len(cs), Len(Last(cs).data) + 1>>)]
    /\ UNCHANGED <<write_counter_, supplied>>

SetBookmarkEnd ==
    /\ Running("set_bookmark")
    /\ Wanted = 0
    /\ Returns
    /\ UNCHANGED <<chunk_, write_counter_, supplied, bmark>>

\* write_bookmark(bmark, p): *(ptr_[i]) = p[i].  Byte b of chunk c afterwards.
Patched(c, b, old) ==
    IF \E i \in DOMAIN bmark.ptr : bmark.ptr[i] = <<c, b>>
    THEN supplied + (CHOOSE i \in DOMAIN bmark.ptr : bmark.ptr[i] = <<c, b>>)
    ELSE old

PatchChunk(ch, c) == [ch EXCEPT !.data = [b \in DOMAIN @ |-> Patched(c, b, @[b])]]

WriteBookmark(m) ==
    /\ call = Idle
    /\ bmark.m = m
    /\ supplied + Len(bmark.ptr) <= MaxBytes
    /\ chunk_' = [chunk_ EXCEPT ![m] = [c \in DOMAIN @ |-> PatchChunk(@[c], c)]]
    /\ supplied' = supplied + Len(bmark.ptr)
    /\ bmark' = NoBookmark
    /\ UNCHANGED <<write_counter_, call>>

-------------------------------------------------------------------------------
Call(m) ==
    \/ \E n \in 0 .. MaxArg : Write(m, n) \/ StartRead(m, n) \/ StartPeek(m, n)
    \/ \E n \in 0 .. MaxArg, o \in Marshals : StartReadFromMarshal(m, o, n)
    \/ \E n \in 1 .. MaxArg : StartSetBookmark(m, n)
    \/ StartWriteToFd(m) \/ StartReadFromFd(m) \/ ResetCounter(m) \/ WriteBookmark(m)

Step ==
    \/ ReadLoop \/ ReadEnd \/ PeekLoop \/ PeekEnd
    \/ WriteToFdLoop \/ WriteToFdEnd \/ ReadFromFdLoop \/ ReadFromFdEnd
    \/ TransferChunk \/ CopyChunk \/ ReadFromMarshalEnd
    \/ SetBookmarkLoop \/ SetBookmarkEnd

Next == Step \/ \E m \in Marshals : Call(m)

Spec == Init /\ [][Next]_vars

-------------------------------------------------------------------------------
\* The asserts around every Chunk operation: read_idx_ <= write_idx_ <= size_.
ChunkOK(c) == c.read_idx <= Len(c.data) /\ Len(c.data) <= c.size

\* The asserts of Chunk, and "invariant: head of chunk list is not fully read"
\* at the start and at the end of every call of Marshal.
AssertsHold ==
    \A m \in Marshals :
        /\ \A i \in DOMAIN chunk_[m] : ChunkOK(chunk_[m][i])
        /\ chunk_[m] # <<>> => ~fully_read(Head(chunk_[m]))

\* Only the last chunk can have room, and only it can be without content: the
\* loops that stop at the first chunk that gives nothing have seen everything.
OnlyLastHasRoom ==
    \A m \in Marshals : \A i \in 1 .. Len(chunk_[m]) - 1 :
        fully_written(chunk_[m][i]) /\ content_size(chunk_[m][i]) > 0

Reserved(m, c, b) ==
    c \in DOMAIN chunk_[m] /\ b \in DOMAIN chunk_[m][c].data /\ chunk_[m][c].data[b] = Hole

\* A bookmark stays good until it is written: its pointers are at bytes that
\* set_bookmark reserved in its Marshal and that nobody has read; and no reserved
\* byte is without a pointer, so that none is read before it was written.
BookmarkPoints ==
    /\ \A i \in DOMAIN bmark.ptr :
          LET c == bmark.ptr[i][1]
              b == bmark.ptr[i][2] IN
          Reserved(bmark.m, c, b) /\ chunk_[bmark.m][c].read_idx < b
    /\ \A m \in Marshals : \A c \in DOMAIN chunk_[m] : \A b \in DOMAIN chunk_[m][c].data :
          Reserved(m, c, b) => m = bmark.m /\ \E i \in DOMAIN bmark.ptr : bmark.ptr[i] = <<c, b>>

\* The bytes in Marshal m.
Bytes(m) ==
    FlattenSeq([i \in DOMAIN chunk_[m] |-> Content(chunk_[m][i], content_size(chunk_[m][i]))])

\* A running call takes effect when it returns: what it has moved so far is
\* still at the front of the Marshal it reads, not yet at the end of the other.
Queue(m) ==
    CASE call.op \in {"read", "write_to_fd", "read_from_marshal"} /\ call.from = m ->
             call.bytes \o Bytes(m)
      [] call.op \in {"read_from_marshal", "read_from_fd", "set_bookmark"} /\ call.m = m ->
             SubSeq(Bytes(m), 1, Len(Bytes(m)) - Len(call.bytes))
      [] OTHER -> Bytes(m)

BQ == INSTANCE ByteQueue WITH
          q <- [m \in Marshals |-> Queue(m)],
          cur <- [op |-> call.op, m |-> call.m, from |-> call.from, n |-> call.n],
          out <- call.bytes

\* Every call of Marshal does to the chunks what the same call does to a queue
\* of bytes, and moves the same bytes in the same order.
IsByteQueue == BQ!Spec

==============================================================================
