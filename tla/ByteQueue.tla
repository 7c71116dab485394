------------------------------ MODULE ByteQueue ------------------------------
(***************************************************************************)
(* What a Marshal promises (marshal.h): a first-in first-out queue of      *)
(* bytes.  A call may move its bytes one piece at a time (`out` so far);   *)
(* the queue changes when the call returns.  Bytes are numbered in the     *)
(* order they are supplied.                                                *)
(***************************************************************************)
EXTENDS Naturals, Sequences, FiniteSetsExt

CONSTANTS Marshals, Hole

VARIABLES
    q,         \* q[m]: the bytes in m
    supplied,  \* how many bytes have been supplied
    cur,       \* the running call: its name, the Marshals and the length
    out        \* the bytes it has moved

NoCall == [op |-> "none", m |-> {}, from |-> {}, n |-> 0]

Init ==
    /\ q = [m \in Marshals |-> <<>>]
    /\ supplied = 0
    /\ cur = NoCall
    /\ out = <<>>

Fresh(n) == [i \in 1 .. n |-> supplied + i]
First(m, n) == SubSeq(q[m], 1, Min({n, Len(q[m])}))
After(m, n) == SubSeq(q[m], n + 1, Len(q[m]))

\* A call begins; what it moves then grows.
Begin ==
    /\ cur = NoCall /\ cur' # NoCall
    /\ out' = <<>>
    /\ UNCHANGED <<q, supplied>>

Progress ==
    /\ cur # NoCall
    /\ Len(out) <= Len(out') /\ SubSeq(out', 1, Len(out)) = out
    /\ IF cur.op = "read_from_fd"
       THEN supplied' = supplied + Len(out') - Len(out) /\ out' = out \o Fresh(supplied' - supplied)
       ELSE UNCHANGED supplied
    /\ UNCHANGED <<q, cur>>

\* The running call op returns.
Return(op) ==
    /\ cur.op = op
    /\ cur' = NoCall /\ out' = <<>>
    /\ UNCHANGED supplied

\* read returns as much as was asked for and is there ...
Read ==
    /\ Return("read")
    /\ out = First(cur.m, cur.n)
    /\ q' = [q EXCEPT ![cur.m] = After(cur.m, Len(out))]

\* ... and so does peek, which takes nothing.
Peek == Return("peek") /\ out = First(cur.m, cur.n) /\ UNCHANGED q

\* write_to_fd hands over as much as the descriptor takes.
WriteToFd ==
    /\ Return("write_to_fd")
    /\ out = First(cur.m, Len(out))
    /\ q' = [q EXCEPT ![cur.m] = After(cur.m, Len(out))]

ReadFromFd == Return("read_from_fd") /\ q' = [q EXCEPT ![cur.m] = @ \o out]

\* set_bookmark reserves the bytes asked for.
SetBookmark ==
    /\ Return("set_bookmark")
    /\ out = [i \in 1 .. cur.n |-> Hole]
    /\ q' = [q EXCEPT ![cur.m] = @ \o out]

ReadFromMarshal ==
    /\ Return("read_from_marshal")
    /\ out = First(cur.from, cur.n)
    /\ q' = [q EXCEPT ![cur.m] = @ \o out, ![cur.from] = After(cur.from, Len(out))]

Supply(n) ==
    /\ cur = NoCall
    /\ supplied' = supplied + n
    /\ UNCHANGED <<cur, out>>

Write(m) ==
    \E n \in 1 .. supplied' - supplied :
        Supply(n) /\ q' = [q EXCEPT ![m] = @ \o Fresh(n)]

\* write_bookmark fills the reserved bytes, in order, where they are.
WriteBookmark(m) ==
    LET holes == {i \in DOMAIN q[m] : q[m][i] = Hole} IN
    /\ Supply(Cardinality(holes))
    /\ q' = [q EXCEPT ![m] =
          [i \in DOMAIN q[m] |->
              IF i \in holes THEN supplied + i - Min(holes) + 1 ELSE q[m][i]]]

Next ==
    \/ Begin \/ Progress
    \/ Read \/ Peek \/ WriteToFd \/ ReadFromFd \/ SetBookmark \/ ReadFromMarshal
    \/ \E m \in Marshals : Write(m) \/ WriteBookmark(m)

Spec == Init /\ [][Next]_<<q, supplied, cur, out>>

==============================================================================
