----------------------------- MODULE Marshalling -----------------------------
(***************************************************************************)
(* The operators << and >> of marshal.h: how values of the supported types *)
(* become bytes of a Marshal and values again.  A type is <<"i32">>,       *)
(* <<"i64">>, <<"double">>, <<"string">>, <<"vector", T>>, <<"list", T>>   *)
(* or <<"map", K, V>> (with numbers as keys).  An i64 or a double is its   *)
(* eight bytes, which are copied as they are.                              *)
(*                                                                         *)
(* A Marshal is a queue of bytes here (that is what Marshal implements).   *)
(* One is written, its bytes reach another a few at a time, and that one   *)
(* is read: a >> that finds too few bytes fails a verify() and aborts.     *)
(***************************************************************************)
EXTENDS Integers, Sequences, SequencesExt, TLC

CONSTANTS
    Cases,      \* the values that may be written: a sequence of <<type, value>>
    MaxWritten  \* values written in a run

ASSUME MarshallingAssumption ==
    /\ \A i \in DOMAIN Cases :
          Cases[i][1][1] \in {"i32", "i64", "double", "string", "vector", "list", "map"}
    /\ MaxWritten \in Nat

VARIABLES
    out,      \* the bytes in the Marshal that is written
    in,       \* the bytes in the Marshal that is read
    sent,     \* the values written and not read: type, value, size
    written,  \* how many values have been written
    last,     \* the value expected and the value returned by the last >>
    fate      \* "run" or "abort"

vars == <<out, in, sent, written, last, fate>>

-------------------------------------------------------------------------------
(* Writing.                                                                *)

\* The four bytes of an i32, least significant first.
I32(v) == [i \in 1 .. 4 |-> (v \div 256 ^ (i - 1)) % 256]

\* (mutant) The terminating zero of c_str() is written, and counted, too.
WriteStringTerminated(v) == I32(Len(v) + 1) \o v \o <<0>>

write_string(v) == I32(Len(v)) \o v

\* A map is visited in the order of its keys.
SortedKeys(f) == SetToSortSeq(DOMAIN f, LAMBDA a, b : a < b)

RECURSIVE Write(_, _)
Write(T, v) ==
    CASE T[1] = "i32" -> I32(v)
      [] T[1] \in {"i64", "double"} -> v
      [] T[1] = "string" -> write_string(v)
      [] T[1] \in {"vector", "list"} ->
            I32(Len(v)) \o FlattenSeq([i \in DOMAIN v |-> Write(T[2], v[i])])
      [] T[1] = "map" ->
            LET ks == SortedKeys(v) IN
            I32(Len(ks)) \o
            FlattenSeq([i \in DOMAIN ks |-> Write(T[2], ks[i]) \o Write(T[3], v[ks[i]])])

-------------------------------------------------------------------------------
(* Reading: whether every verify() held, the value and the bytes left.  A  *)
(* length is what was written as one, so it is not negative.               *)

Got(v, rest) == [ok |-> TRUE, val |-> v, rest |-> rest]
Aborted == [ok |-> FALSE, val |-> <<>>, rest |-> <<>>]

\* verify(m.read(p, n) == n)
ReadBytes(b, n) ==
    IF Len(b) < n THEN Aborted ELSE Got(SubSeq(b, 1, n), SubSeq(b, n + 1, Len(b)))

\* The i32 of four bytes, the last of which has the sign.
Number(p) ==
    p[1] + 256 * p[2] + 256 ^ 2 * p[3] + 256 ^ 3 * (IF p[4] < 128 THEN p[4] ELSE p[4] - 256)

ReadI32(b) ==
    LET r == ReadBytes(b, 4) IN IF r.ok THEN Got(Number(r.val), r.rest) ELSE Aborted

\* (mutant) for (i = 0; i <= len; i++)
RoundsInclusive(len) == [i \in 1 .. len + 1 |-> i]

\* for (i = 0; i < len; i++)
Rounds(len) == [i \in 1 .. len |-> i]

RECURSIVE Read(_, _)
Read(T, b) ==
    LET len == ReadI32(b)
        \* One more element, or one more entry: a key that is there gets a new value.
        Element(r) ==
            LET e == Read(T[2], r.rest) IN
            IF r.ok /\ e.ok THEN Got(Append(r.val, e.val), e.rest) ELSE Aborted
        Entry(r) ==
            LET k == Read(T[2], r.rest)
                v == Read(T[3], k.rest) IN
            IF r.ok /\ k.ok /\ v.ok THEN Got((k.val :> v.val) @@ r.val, v.rest) ELSE Aborted
    IN
    CASE T[1] = "i32" -> len
      [] T[1] \in {"i64", "double"} -> ReadBytes(b, 8)
      [] T[1] = "string" -> IF len.ok THEN ReadBytes(len.rest, len.val) ELSE Aborted
      [] T[1] \in {"vector", "list"} ->
            IF len.ok
            THEN FoldLeft(LAMBDA r, i : Element(r), Got(<<>>, len.rest), Rounds(len.val))
            ELSE Aborted
      [] T[1] = "map" ->
            IF len.ok
            THEN FoldLeft(LAMBDA r, i : Entry(r), Got(<<>>, len.rest), Rounds(len.val))
            ELSE Aborted

-------------------------------------------------------------------------------
Init ==
    /\ out = <<>>
    /\ in = <<>>
    /\ sent = <<>>
    /\ written = 0
    /\ last = <<>>
    /\ fate = "run"

\* out << v; its size is what get_write_counter_and_reset() returns then.
Put(T, v) ==
    /\ fate = "run"
    /\ written < MaxWritten
    /\ LET p == Write(T, v) IN
       /\ out' = out \o p
       /\ sent' = Append(sent, [type |-> T, val |-> v, size |-> Len(p)])
    /\ written' = written + 1
    /\ UNCHANGED <<in, last, fate>>

\* in.read_from_marshal(out, n)
Move(n) ==
    /\ fate = "run"
    /\ in' = in \o SubSeq(out, 1, n)
    /\ out' = SubSeq(out, n + 1, Len(out))
    /\ UNCHANGED <<sent, written, last, fate>>

\* A vector may be read as a list and a list as a vector.
ReadableAs(T) ==
    IF T[1] \in {"vector", "list"} THEN {<<"vector", T[2]>>, <<"list", T[2]>>} ELSE {T}

\* in >> v, of the type that was written.
Get ==
    /\ fate = "run"
    /\ sent # <<>>
    /\ \E T \in ReadableAs(Head(sent).type) :
          LET r == Read(T, in) IN
          IF r.ok
          THEN /\ in' = r.rest
               /\ last' = <<Head(sent).val, r.val>>
               /\ sent' = Tail(sent)
               /\ UNCHANGED fate
          ELSE /\ fate' = "abort"
               /\ UNCHANGED <<in, last, sent>>
    /\ UNCHANGED <<out, written>>

Next ==
    \/ \E i \in DOMAIN Cases : Put(Cases[i][1], Cases[i][2])
    \/ \E n \in 1 .. Len(out) : Move(n)
    \/ Get

Spec == Init /\ [][Next]_vars

-------------------------------------------------------------------------------
\* marshal.h, operator >>: whatever was written before and after it, and
\* however much of it has arrived, a value is read back as it was written.
ReadsWhatWasWritten == last # <<>> => last[1] = last[2]

\* verify(m.read(..) == ..) fails only while the value has not arrived: a caller
\* that has counted as many bytes as get_write_counter_and_reset() told can
\* read without an abort.
AbortsOnlyWhenShort == fate = "abort" => Len(in) < Head(sent).size
==============================================================================
