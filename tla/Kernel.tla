-------------------------------- MODULE Kernel --------------------------------
(***************************************************************************)
(* What vncproxy uses of the operating system: the file descriptor table,  *)
(* the TCP sockets behind it and one epoll instance.  None of this is code *)
(* of the repository; it is modelled from the calls of polling.cc and      *)
(* vncproxy.cc (accept, connect, close, read, write, epoll_ctl,            *)
(* epoll_wait with EPOLLET | EPOLLRDHUP).                                  *)
(*                                                                         *)
(* A session has two ends, the socket to the VNC client and the socket to  *)
(* the remote VNC server.  The same names are used for the two EndPoint    *)
(* objects the proxy makes for them.  The i-th byte the party outside      *)
(* sends on end e is the pair <<e, i>>: a byte carries where it came from. *)
(***************************************************************************)
EXTENDS Naturals, Sequences, FiniteSets

CONSTANTS
    Sessions,     \* client connections, each used at most once
    NFds,         \* descriptor numbers available, 1..NFds
    SendBuf,      \* bytes a socket accepts before write() answers EAGAIN
    MaxBytes,     \* MaxBytes[e]: how many bytes the party at e sends
    HangupEnds,   \* ends whose outside party may hang up
    MaxNev,       \* max_nev, the length of the array given to epoll_wait
    NoEnd         \* not an end

Sides == {"client", "remote"}
Ends == Sessions \X Sides
Fds == 1 .. NFds
NoFd == 0
Bytes == Ends \X Nat

ASSUME KernelAssumption ==
    /\ NFds \in Nat
    /\ SendBuf \in Nat \ {0}
    /\ MaxBytes \in [Ends -> Nat]
    /\ HangupEnds \subseteq Ends
    /\ MaxNev \in Nat \ {0}
    /\ NoEnd \notin Ends

\* Epoll interest: the proxy's Pollable::READ and Pollable::WRITE.
R == {"READ"}
RW == {"READ", "WRITE"}

Events == {"IN", "OUT", "HUP"}

VARIABLES
    file,    \* file[fd]: the socket descriptor fd refers to, NoEnd if closed
    hup,     \* ends whose outside party has hung up (or reset)
    sent,    \* sent[e]: bytes the outside party has sent on e
    rd,      \* rd[e]: how many of them the proxy has read
    wr,      \* wr[e]: the bytes the proxy has written to e
    taken,   \* taken[e]: how many of them the outside party has read
    eptr,    \* eptr[e]: epoll's data.ptr for socket e, NoEnd if not registered
    emask,   \* emask[e]: the interest registered for socket e
    rdy      \* sockets on epoll's ready list (edges not yet reported)

socketVars == <<hup, sent, rd, wr, taken>>
epollVars == <<eptr, emask, rdy>>
kernelVars == <<file, hup, sent, rd, wr, taken, eptr, emask, rdy>>

KernelTypeOK ==
    /\ file \in [Fds -> Ends \cup {NoEnd}]
    /\ hup \in SUBSET Ends
    /\ sent \in [Ends -> Nat]
    /\ rd \in [Ends -> Nat]
    /\ wr \in [Ends -> Seq(Bytes)]
    /\ taken \in [Ends -> Nat]
    /\ eptr \in [Ends -> Ends \cup {NoEnd}]
    /\ emask \in [Ends -> SUBSET RW]
    /\ rdy \in SUBSET Ends

KernelInit ==
    /\ file = [fd \in Fds |-> NoEnd]
    /\ hup = {}
    /\ sent = [e \in Ends |-> 0]
    /\ rd = [e \in Ends |-> 0]
    /\ wr = [e \in Ends |-> <<>>]
    /\ taken = [e \in Ends |-> 0]
    /\ eptr = [e \in Ends |-> NoEnd]
    /\ emask = [e \in Ends |-> {}]
    /\ rdy = {}

-------------------------------------------------------------------------------
IsOpen(e) == \E fd \in Fds : file[fd] = e

\* POSIX hands out the lowest descriptor number that is not in use.
LowestFree(fd) ==
    /\ file[fd] = NoEnd
    /\ \A g \in Fds : g < fd => file[g] # NoEnd

\* Bytes that a read() on socket x returns before it answers EAGAIN.
Unread(x) == [i \in 1 .. (sent[x] - rd[x]) |-> <<x, rd[x] + i>>]

Space(x) == SendBuf - (Len(wr[x]) - taken[x])

\* The events epoll reports for socket x when the interest is mask.  EPOLLERR
\* and EPOLLHUP need not be asked for; a hung-up socket is readable (it
\* answers 0) and writable (it answers an error).
ReadyEvents(x, mask) ==
    {ev \in Events :
        \/ ev = "IN"  /\ "READ" \in mask  /\ (sent[x] > rd[x] \/ x \in hup)
        \/ ev = "OUT" /\ "WRITE" \in mask /\ (Space(x) > 0 \/ x \in hup)
        \/ ev = "HUP" /\ x \in hup}

\* close() of the descriptors F: the sockets go, and with them their epoll
\* registrations.
CloseFds(F) ==
    LET gone == {file[fd] : fd \in F} IN
    /\ file' = [fd \in Fds |-> IF fd \in F THEN NoEnd ELSE file[fd]]
    /\ eptr' = [x \in Ends |-> IF x \in gone THEN NoEnd ELSE eptr[x]]
    /\ emask' = [x \in Ends |-> IF x \in gone THEN {} ELSE emask[x]]
    /\ rdy' = rdy \ gone

\* epoll_ctl(ADD) and epoll_ctl(MOD): both set the registration and put the
\* socket on the ready list when it is ready now.
EpollSet(fd, ptr, mask) ==
    /\ eptr' = [x \in Ends |-> IF x = file[fd] THEN ptr ELSE eptr[x]]
    /\ emask' = [x \in Ends |-> IF x = file[fd] THEN mask ELSE emask[x]]
    /\ rdy' = IF ReadyEvents(file[fd], mask) # {} THEN rdy \cup {file[fd]} ELSE rdy

\* ADD fails on a closed descriptor and on a socket that is registered already;
\* MOD fails on a closed descriptor and on a socket that is not registered.
EpollAddOK(fd) == file[fd] # NoEnd /\ eptr[file[fd]] = NoEnd
EpollModOK(fd) == file[fd] # NoEnd /\ eptr[file[fd]] # NoEnd

EpollDel(fd) ==
    /\ eptr' = [x \in Ends |-> IF x = file[fd] THEN NoEnd ELSE eptr[x]]
    /\ emask' = [x \in Ends |-> IF x = file[fd] THEN {} ELSE emask[x]]
    /\ rdy' = rdy \ {file[fd]}

\* The sets of ready sockets one epoll_wait may take off the ready list: all of
\* them, or as many as the array holds.
Takes ==
    IF Cardinality(rdy) <= MaxNev THEN {rdy}
    ELSE {B \in SUBSET rdy : Cardinality(B) = MaxNev}

Reported(B) ==
    {[sock |-> x, ptr |-> eptr[x], ev |-> ReadyEvents(x, emask[x])] :
        x \in {y \in B : eptr[y] # NoEnd /\ ReadyEvents(y, emask[y]) # {}}}

-------------------------------------------------------------------------------
(* The parties outside.                                                    *)

\* A new edge of kind m on socket x wakes epoll if x is registered for m.
Edge(x, m) ==
    rdy' = IF eptr[x] # NoEnd /\ m \in emask[x] THEN rdy \cup {x} ELSE rdy

\* The party at e sends its next byte.
Arrive(e) ==
    /\ IsOpen(e)
    /\ e \notin hup
    /\ sent[e] < MaxBytes[e]
    /\ sent' = [sent EXCEPT ![e] = @ + 1]
    /\ Edge(e, "READ")
    /\ UNCHANGED <<file, hup, rd, wr, taken, eptr, emask>>

\* The party at e reads a byte; a full socket becomes writable again.
Consume(e) ==
    /\ IsOpen(e)
    /\ e \notin hup
    /\ taken[e] < Len(wr[e])
    /\ taken' = [taken EXCEPT ![e] = @ + 1]
    /\ IF Space(e) = 0 THEN Edge(e, "WRITE") ELSE UNCHANGED rdy
    /\ UNCHANGED <<file, hup, sent, rd, wr, eptr, emask>>

\* The party at e closes its side of the connection, or resets it.
Hangup(e) ==
    /\ e \in HangupEnds
    /\ IsOpen(e)
    /\ e \notin hup
    /\ hup' = hup \cup {e}
    /\ rdy' = IF eptr[e] # NoEnd THEN rdy \cup {e} ELSE rdy
    /\ UNCHANGED <<file, sent, rd, wr, taken, eptr, emask>>

Outside(e) == Arrive(e) \/ Consume(e) \/ Hangup(e)

===============================================================================
