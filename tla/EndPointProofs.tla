---------------------------- MODULE EndPointProofs ----------------------------
(***************************************************************************)
(* Theorems about EndPoint, for any number of sessions and descriptors,    *)
(* any keys and any behaviour of the parties outside.  First its types and *)
(* what mode_ and poll_set_ say; then what the kernel and the registry     *)
(* know of an EndPoint: that epoll has the registration of every Pollable  *)
(* whose socket is open, and that all_tie_leaders holds no deleted         *)
(* EndPoint; and that bytes are forwarded in order where no descriptor is  *)
(* taken over by another session.                                          *)
(***************************************************************************)
EXTENDS EndPoint, SequenceTheorems, TLAPS

\* A handler has its event, a shutdown its session.
ControlInv ==
    /\ ppc \in {"read", "rmode", "write", "wmode", "error"} => cur \in EventRecords
    /\ \A t \in Shutters : sdpc[t] # "idle" => sds[t] \in Sessions

\* Who is registered or ready has a descriptor number.
FdInv ==
    /\ \A s \in Sessions : opc[s] # "idle" => fd_[leader(s)] \in Fds
    /\ \A s \in Sessions :
           opc[s] \notin {"idle", "auth", "connect", "done"} => fd_[follower(s)] \in Fds
    /\ \A e \in Ends : e \in poll_set_ \/ enabled_[e] => fd_[e] \in Fds

TypeInv == TypeOK /\ ControlInv /\ FdInv

\* The groups of variables of UNCHANGED and the sets of control states.
USE DEF kernelVars, socketVars, epollVars, registryVars, refVars, endVars, pollLocal, sdVars,
        cleanupLocal, dbVars, mainVars, Shutters, leader, follower, peer_

-------------------------------------------------------------------------------
\* The ends of a session, and who is none.
LEMMA EndFacts ==
    /\ \A s \in Sessions : leader(s) \in Ends /\ follower(s) \in Ends
    /\ \A e \in Ends : peer_(e) \in Ends /\ e[1] \in Sessions
    /\ \A e \in Ends : e = leader(e[1]) \/ e = follower(e[1])
    /\ \A s \in Sessions : leader(s)[1] = s /\ follower(s)[1] = s /\ leader(s) # follower(s)
    /\ NoEnd \notin Ends
    /\ NoFd \notin Fds
BY KernelAssumption DEF Ends, Sides, NoFd, Fds

\* TypeInv holds initially.
LEMMA TypeInit == Init => TypeInv
<1> SUFFICES ASSUME Init PROVE TypeInv
  OBVIOUS
<1> USE EndFacts DEF Init
<1>1. KernelTypeOK
  BY DEF KernelInit, KernelTypeOK, Bytes
<1>2. PollThreadTypeOK
  BY DEF PollThreadInit, PollThreadTypeOK, Absent
<1>3. OperatorTypeOK
  BY DEF OperatorTypeOK, OperatorSteps, Bytes
<1>4. PollTypeOK
  BY DEF PollTypeOK, PollSteps, ShutdownSteps
<1>5. MainTypeOK
  BY DEF MainTypeOK, CleanupSteps, MainSteps, Crashes
<1>6. ControlInv
  BY DEF ControlInv
<1>7. FdInv
  BY DEF FdInv, PollThreadInit
<1> QED BY <1>1, <1>2, <1>3, <1>4, <1>5, <1>6, <1>7 DEF TypeInv, TypeOK

-------------------------------------------------------------------------------
(* What the operators of the registry and the kernel keep.                 *)

\* accept() and connect() set one entry of the descriptor table and one fd_.
LEMMA OpenSocketType ==
    ASSUME KernelTypeOK, PollThreadTypeOK, NEW e \in Ends, OpenSocket(e)
    PROVE  /\ file' \in [Fds -> Ends \cup {NoEnd}]
           /\ fd_' \in [Ends -> Fds \cup {NoFd}]
           /\ fd_'[e] \in Fds
           /\ \A f \in Ends : f # e => fd_'[f] = fd_[f]
BY DEF OpenSocket, KernelTypeOK, PollThreadTypeOK

\* epoll_ctl(ADD) and epoll_ctl(MOD) on an open descriptor.
LEMMA EpollSetType ==
    ASSUME KernelTypeOK, NEW fd \in Fds, file[fd] # NoEnd, NEW e \in Ends,
           NEW m \in {R, RW}, EpollSet(fd, e, m)
    PROVE  /\ eptr' \in [Ends -> Ends \cup {NoEnd}]
           /\ emask' \in [Ends -> SUBSET RW]
           /\ rdy' \in SUBSET Ends
<1>1. file[fd] \in Ends /\ m \in SUBSET RW
  BY DEF KernelTypeOK, R, RW
<1>2. eptr' \in [Ends -> Ends \cup {NoEnd}]
  BY DEF EpollSet, KernelTypeOK
<1>3. emask' \in [Ends -> SUBSET RW]
  BY <1>1 DEF EpollSet, KernelTypeOK
<1>4. rdy' \in SUBSET Ends
  BY <1>1 DEF EpollSet, KernelTypeOK
<1> QED BY <1>2, <1>3, <1>4

\* update_mode(), whether or not it calls epoll_ctl.
LEMMA UpdateModeType ==
    ASSUME KernelTypeOK, PollThreadTypeOK, FdInv, NEW e \in Ends, NEW m \in {R, RW},
           UpdateModeVerify(e, m), UpdateMode(e, m)
    PROVE  /\ eptr' \in [Ends -> Ends \cup {NoEnd}]
           /\ emask' \in [Ends -> SUBSET RW]
           /\ rdy' \in SUBSET Ends
           /\ mode_' \in [Fds -> {Absent, R, RW}]
           /\ UNCHANGED <<poll_set_, pending_remove_>>
<1>1. CASE ChangesMode(e, m)
  <2>1. /\ fd_[e] \in Fds /\ file[fd_[e]] # NoEnd /\ EpollSet(fd_[e], e, m)
        /\ mode_' = [mode_ EXCEPT ![fd_[e]] = m]
    BY <1>1 DEF ChangesMode, UpdateModeVerify, UpdateMode, EpollModOK, FdInv
  <2>2. mode_' \in [Fds -> {Absent, R, RW}]
    BY <2>1 DEF PollThreadTypeOK
  <2> QED BY <2>1, <2>2, EpollSetType DEF UpdateMode
<1>2. CASE ~ChangesMode(e, m)
  BY <1>2 DEF UpdateMode, KernelTypeOK, PollThreadTypeOK
<1> QED BY <1>1, <1>2

\* remove() registers nobody.
LEMMA RemoveType ==
    ASSUME PollThreadTypeOK, NEW e \in Ends, Remove(e)
    PROVE  /\ poll_set_' \in SUBSET Ends
           /\ poll_set_' \subseteq poll_set_
           /\ mode_' \in [Fds -> {Absent, R, RW}]
           /\ pending_remove_' \in SUBSET Ends
<1>1. CASE e \in poll_set_
  BY <1>1 DEF Remove, PollThreadTypeOK
<1>2. CASE e \notin poll_set_
  BY <1>2 DEF Remove, PollThreadTypeOK
<1> QED BY <1>1, <1>2

\* release().
LEMMA ReleaseType ==
    ASSUME PollThreadTypeOK, NEW e \in Ends, Release(e)
    PROVE  refcnt_' \in [Ends -> Int] /\ freed' \in SUBSET Ends
BY DEF Release, PollThreadTypeOK

\* After a handler comes another one of the same event, or the next event.
LEMMA HandlerDoneType ==
    ASSUME cur \in EventRecords, NEW handled, HandlerDone(handled)
    PROVE  /\ ppc' \in {"read", "write", "error", "next"}
           /\ cur' \in EventRecords \cup {NoEvent}
           /\ ppc' # "next" => cur' \in EventRecords
<1>1. ppc' \in {"read", "write", "error", "next"}
  BY DEF HandlerDone, FirstHandler
<1>2. [cur EXCEPT !.ev = cur.ev \ {handled}] \in EventRecords
  BY DEF EventRecords
<1> QED BY <1>1, <1>2 DEF HandlerDone

\* A shutdown works on an end of its session.
LEMMA ShutEndType ==
    ASSUME ControlInv, NEW t \in Shutters, sdpc[t] # "idle"
    PROVE  ShutEnd(t) \in Ends
BY EndFacts DEF ControlInv, ShutEnd

-------------------------------------------------------------------------------
(* Every action keeps TypeInv.                                             *)

\* accept() gives the leader a descriptor.
LEMMA AcceptType ==
    ASSUME TypeInv, NEW s \in Sessions, Accept(s)
    PROVE  TypeInv'
<1> USE DEF TypeInv, TypeOK
<1>1. leader(s) \in Ends /\ OpenSocket(leader(s))
  BY EndFacts DEF Accept
<1>2. /\ file' \in [Fds -> Ends \cup {NoEnd}]
      /\ fd_' \in [Ends -> Fds \cup {NoFd}]
      /\ fd_'[leader(s)] \in Fds
      /\ \A f \in Ends : f # leader(s) => fd_'[f] = fd_[f]
  BY <1>1, OpenSocketType
<1>3. KernelTypeOK'
  BY <1>1, <1>2 DEF KernelTypeOK, Accept
<1>4. PollThreadTypeOK'
  BY <1>1, <1>2 DEF PollThreadTypeOK, Accept
<1>5. OperatorTypeOK'
  BY <1>1, <1>2 DEF OperatorTypeOK, Accept, GoTo, OperatorSteps
<1>6. PollTypeOK'
  BY <1>1, <1>2 DEF PollTypeOK, Accept
<1>7. MainTypeOK'
  BY <1>1, <1>2 DEF MainTypeOK, Accept
<1>8. ControlInv'
  BY <1>1, <1>2 DEF ControlInv, Accept
<1>9. FdInv'
  BY <1>1, <1>2, EndFacts DEF FdInv, Accept, GoTo, OperatorTypeOK
<1> QED BY <1>3, <1>4, <1>5, <1>6, <1>7, <1>8, <1>9

\* connect() gives the follower a descriptor.
LEMMA ConnectToType ==
    ASSUME TypeInv, NEW s \in Sessions, ConnectTo(s)
    PROVE  TypeInv'
<1> USE DEF TypeInv, TypeOK
<1>1. follower(s) \in Ends /\ OpenSocket(follower(s))
  BY EndFacts DEF ConnectTo
<1>2. /\ file' \in [Fds -> Ends \cup {NoEnd}]
      /\ fd_' \in [Ends -> Fds \cup {NoFd}]
      /\ fd_'[follower(s)] \in Fds
      /\ \A f \in Ends : f # follower(s) => fd_'[f] = fd_[f]
  BY <1>1, OpenSocketType
<1>3. KernelTypeOK'
  BY <1>1, <1>2 DEF KernelTypeOK, ConnectTo
<1>4. PollThreadTypeOK'
  BY <1>1, <1>2 DEF PollThreadTypeOK, ConnectTo
<1>5. OperatorTypeOK'
  BY <1>1, <1>2 DEF OperatorTypeOK, ConnectTo, GoTo, OperatorSteps
<1>6. PollTypeOK'
  BY <1>1, <1>2 DEF PollTypeOK, ConnectTo
<1>7. MainTypeOK'
  BY <1>1, <1>2 DEF MainTypeOK, ConnectTo
<1>8. ControlInv'
  BY <1>1, <1>2 DEF ControlInv, ConnectTo
<1>9. FdInv'
  BY <1>1, <1>2, EndFacts DEF FdInv, ConnectTo, GoTo, OperatorTypeOK
<1> QED BY <1>3, <1>4, <1>5, <1>6, <1>7, <1>8, <1>9

\* The rest of the handshake.
LEMMA HandshakeType ==
    ASSUME TypeInv, NEW s \in Sessions,
           Authenticate(s) \/ RemoteFails(s) \/ HandshakeFails(s) \/ Tie(s)
    PROVE  TypeInv'
<1> USE DEF TypeInv, TypeOK
<1>1. \E step \in OperatorSteps \ {"ctl1", "ctl2"} :
          /\ GoTo(s, step)
          /\ opc[s] # "idle"
          /\ step \notin {"auth", "connect", "done"} => opc[s] = "tie"
  BY DEF Authenticate, RemoteFails, HandshakeFails, Tie, GoTo, OperatorSteps
<1>2. opc' \in [Sessions -> OperatorSteps]
  BY <1>1 DEF GoTo, OperatorTypeOK
<1>3. KernelTypeOK'
  <2>1. CASE RemoteFails(s) \/ HandshakeFails(s)
    BY <2>1 DEF RemoteFails, HandshakeFails, CloseFds, KernelTypeOK
  <2>2. CASE Authenticate(s) \/ Tie(s)
    BY <2>2 DEF Authenticate, Tie, KernelTypeOK
  <2> QED BY <2>1, <2>2
<1>4. PollThreadTypeOK'
  BY DEF PollThreadTypeOK, Authenticate, RemoteFails, HandshakeFails, Tie
<1>5. OperatorTypeOK'
  BY <1>2 DEF OperatorTypeOK, Authenticate, RemoteFails, HandshakeFails, Tie
<1>6. PollTypeOK' /\ MainTypeOK' /\ ControlInv'
  BY DEF PollTypeOK, MainTypeOK, ControlInv, Authenticate, RemoteFails, HandshakeFails, Tie
<1>7. FdInv'
  <2>1. UNCHANGED <<fd_, poll_set_, enabled_>>
    BY DEF Authenticate, RemoteFails, HandshakeFails, Tie
  <2> QED BY <1>1, <2>1 DEF FdInv, GoTo, OperatorTypeOK
<1> QED BY <1>3, <1>4, <1>5, <1>6, <1>7

\* add(), epoll_ctl(ADD).
LEMMA AddEpollType ==
    ASSUME TypeInv, NEW s \in Sessions, NEW e \in Ends, AddEpoll(s, e)
    PROVE  TypeInv'
<1> USE DEF TypeInv, TypeOK
<1>1. fd_[e] \in Fds /\ file[fd_[e]] # NoEnd /\ EpollSet(fd_[e], e, RW)
  BY DEF AddEpoll, AddCtl, EpollAddOK, FdInv
<1>2. /\ eptr' \in [Ends -> Ends \cup {NoEnd}]
      /\ emask' \in [Ends -> SUBSET RW]
      /\ rdy' \in SUBSET Ends
  BY <1>1, EpollSetType
<1>3. KernelTypeOK'
  BY <1>1, <1>2 DEF KernelTypeOK, AddEpoll
<1>4. PollThreadTypeOK'
  BY <1>1, <1>2 DEF PollThreadTypeOK, AddEpoll
<1>5. OperatorTypeOK'
  BY <1>1, <1>2 DEF OperatorTypeOK, AddEpoll, GoTo, OperatorSteps
<1>6. PollTypeOK'
  BY <1>1, <1>2 DEF PollTypeOK, AddEpoll
<1>7. MainTypeOK'
  BY <1>1, <1>2 DEF MainTypeOK, AddEpoll
<1>8. ControlInv'
  BY <1>1, <1>2 DEF ControlInv, AddEpoll
<1>9. FdInv'
  BY <1>1, <1>2 DEF FdInv, AddEpoll, GoTo, OperatorTypeOK
<1> QED BY <1>3, <1>4, <1>5, <1>6, <1>7, <1>8, <1>9

\* The rest of tie_fd.
LEMMA TieType ==
    ASSUME TypeInv, NEW s \in Sessions, NEW e \in Ends,
           AddRef(s, e) \/ AddRegister(s, e) \/ Ready(s, e)
    PROVE  TypeInv'
<1> USE DEF TypeInv, TypeOK
<1>1. \E step \in OperatorSteps :
          /\ GoTo(s, step)
          /\ opc[s] \notin {"idle", "auth", "connect", "tie", "fail", "done"}
  BY DEF AddRef, AddRegister, Ready, GoTo, OperatorSteps
<1>2. opc' \in [Sessions -> OperatorSteps]
  BY <1>1 DEF GoTo, OperatorTypeOK
<1>3. KernelTypeOK'
  BY DEF KernelTypeOK, AddRef, AddRegister, Ready
<1>4. e \in {leader(s), follower(s)} /\ fd_[e] \in Fds
  BY <1>1 DEF FdInv, AddRef, AddRegister, Ready
<1>5. PollThreadTypeOK'
  <2>1. CASE AddRef(s, e)
    BY <2>1 DEF PollThreadTypeOK, AddRef, RefCopy
  <2>2. CASE AddRegister(s, e)
    BY <2>2 DEF PollThreadTypeOK, AddRegister, AddInsert, RW, R
  <2>3. CASE Ready(s, e)
    BY <2>3 DEF PollThreadTypeOK, Ready
  <2> QED BY <2>1, <2>2, <2>3
<1>6. OperatorTypeOK'
  BY <1>2 DEF OperatorTypeOK, AddRef, AddRegister, Ready
<1>7. PollTypeOK' /\ MainTypeOK' /\ ControlInv'
  BY DEF PollTypeOK, MainTypeOK, ControlInv, AddRef, AddRegister, Ready
<1>8. FdInv'
  <2>1. \A f \in Ends : (f \in poll_set_ \/ enabled_[f])' => f = e \/ f \in poll_set_ \/ enabled_[f]
    BY DEF AddRef, AddRegister, AddInsert, Ready, OperatorTypeOK
  <2>2. UNCHANGED fd_
    BY DEF AddRef, AddRegister, Ready
  <2> QED BY <1>1, <1>4, <2>1, <2>2 DEF FdInv, GoTo, OperatorTypeOK
<1> QED BY <1>3, <1>5, <1>6, <1>7, <1>8

\* shutdown() calls remove().
LEMMA ShutRemoveType ==
    ASSUME TypeInv, NEW t \in Shutters, ShutRemove(t)
    PROVE  TypeInv'
<1> USE DEF TypeInv, TypeOK
<1>1. ShutEnd(t) \in Ends
  BY ShutEndType DEF ShutRemove
<1>2. /\ poll_set_' \in SUBSET Ends /\ poll_set_' \subseteq poll_set_
      /\ mode_' \in [Fds -> {Absent, R, RW}] /\ pending_remove_' \in SUBSET Ends
  BY <1>1, RemoveType DEF ShutRemove
<1>3. KernelTypeOK'
  BY <1>1, <1>2 DEF KernelTypeOK, ShutRemove
<1>4. PollThreadTypeOK'
  BY <1>1, <1>2 DEF PollThreadTypeOK, ShutRemove
<1>5. OperatorTypeOK'
  BY <1>1, <1>2 DEF OperatorTypeOK, ShutRemove
<1>6. PollTypeOK'
  BY <1>1, <1>2 DEF PollTypeOK, ShutRemove, ShutdownSteps
<1>7. MainTypeOK'
  BY <1>1, <1>2 DEF MainTypeOK, ShutRemove
<1>8. ControlInv'
  BY <1>1, <1>2 DEF ControlInv, ShutRemove, PollTypeOK
<1>9. FdInv'
  BY <1>1, <1>2 DEF FdInv, ShutRemove
<1> QED BY <1>3, <1>4, <1>5, <1>6, <1>7, <1>8, <1>9

\* shutdown() calls release().
LEMMA ShutReleaseType ==
    ASSUME TypeInv, NEW t \in Shutters, ShutRelease(t)
    PROVE  TypeInv'
<1> USE DEF TypeInv, TypeOK
<1>1. ShutEnd(t) \in Ends
  BY ShutEndType DEF ShutRelease
<1>2. refcnt_' \in [Ends -> Int] /\ freed' \in SUBSET Ends
  BY <1>1, ReleaseType DEF ShutRelease
<1>3. KernelTypeOK'
  BY <1>1, <1>2 DEF KernelTypeOK, ShutRelease
<1>4. PollThreadTypeOK'
  BY <1>1, <1>2 DEF PollThreadTypeOK, ShutRelease
<1>5. OperatorTypeOK'
  BY <1>1, <1>2 DEF OperatorTypeOK, ShutRelease
<1>6. PollTypeOK'
  BY <1>1, <1>2 DEF PollTypeOK, ShutRelease, ShutdownSteps
<1>7. MainTypeOK'
  BY <1>1, <1>2 DEF MainTypeOK, ShutRelease
<1>8. ControlInv'
  BY <1>1, <1>2 DEF ControlInv, ShutRelease, PollTypeOK, ShutdownSteps
<1>9. FdInv'
  BY <1>1, <1>2 DEF FdInv, ShutRelease
<1> QED BY <1>3, <1>4, <1>5, <1>6, <1>7, <1>8, <1>9

\* The rest of shutdown().
LEMMA ShutType ==
    ASSUME TypeInv, NEW t \in Shutters,
           ShutClose(t) \/ ShutErase(t)
    PROVE  TypeInv'
<1> USE EndFacts DEF TypeInv, TypeOK, KernelTypeOK, PollThreadTypeOK, OperatorTypeOK,
                     PollTypeOK, MainTypeOK, ControlInv, FdInv
<1>1. CASE ShutClose(t)
  BY <1>1 DEF ShutClose, CloseFds, ShutdownSteps
<1>2. CASE ShutErase(t)
  BY <1>2 DEF ShutErase, ShutdownSteps
<1> QED BY <1>1, <1>2

\* The poll loop takes an entry of evlist.
LEMMA PollNextType ==
    ASSUME TypeInv, PollNext
    PROVE  TypeInv'
<1> USE DEF TypeInv, TypeOK
<1>1. /\ ppc' \in {"swap", "read", "write", "error", "next"}
      /\ batch' \in SUBSET EventRecords
      /\ cur' \in EventRecords \cup {NoEvent}
      /\ ppc' \in {"read", "write", "error"} => cur' \in EventRecords
  BY DEF PollNext, PollTypeOK, FirstHandler
<1>2. KernelTypeOK'
  BY <1>1 DEF KernelTypeOK, PollNext
<1>3. PollThreadTypeOK'
  BY <1>1 DEF PollThreadTypeOK, PollNext
<1>4. OperatorTypeOK'
  BY <1>1 DEF OperatorTypeOK, PollNext
<1>5. PollTypeOK'
  BY <1>1 DEF PollTypeOK, PollNext, PollSteps
<1>6. MainTypeOK'
  BY <1>1 DEF MainTypeOK, PollNext
<1>7. ControlInv'
  BY <1>1 DEF ControlInv, PollNext
<1>8. FdInv'
  BY <1>1 DEF FdInv, PollNext
<1> QED BY <1>2, <1>3, <1>4, <1>5, <1>6, <1>7, <1>8

\* handle_read up to its update_mode ...
LEMMA HandleReadType ==
    ASSUME TypeInv, HandleRead
    PROVE  TypeInv'
<1> USE DEF TypeInv, TypeOK
<1>1. /\ cur \in EventRecords /\ cur.ptr \in Ends /\ peer_(cur.ptr) \in Ends
      /\ fd_[cur.ptr] \in Fds
  BY EndFacts DEF HandleRead, ControlInv, EventRecords, FdInv
<1> DEFINE x == file[fd_[cur.ptr]]
<1>2. /\ ppc' \in {"read", "rmode", "write", "error", "next"}
      /\ cur' \in EventRecords \cup {NoEvent}
      /\ ppc' # "next" => cur' \in EventRecords
  <2>1. CASE HandlerDone("IN")
    BY <1>1, <2>1, HandlerDoneType
  <2>2. CASE ppc' = "rmode" /\ UNCHANGED cur
    BY <1>1, <2>2
  <2> QED BY <2>1, <2>2 DEF HandleRead
<1>3. rd' \in [Ends -> Nat] /\ buf_' \in [Ends -> Seq(Bytes)]
  <2>1. CASE x # NoEnd /\ sent[x] > rd[x]
    <3>1. x \in Ends /\ sent[x] \in Nat /\ rd[x] \in Nat
      BY <1>1, <2>1 DEF KernelTypeOK
    <3>2. Unread(x) \in Seq(Bytes)
      <4>1. sent[x] - rd[x] \in Nat
        BY <3>1, <2>1
      <4>2. \A i \in 1 .. (sent[x] - rd[x]) : <<x, rd[x] + i>> \in Bytes
        BY <3>1, <4>1 DEF Bytes
      <4>3. Unread(x) \in [1 .. (sent[x] - rd[x]) -> Bytes]
        BY <4>2 DEF Unread
      <4> QED BY <4>1, <4>3
    <3>3. \A e \in Ends : buf_[e] \o Unread(x) \in Seq(Bytes)
      BY <3>2 DEF OperatorTypeOK
    <3>4. /\ rd' = [rd EXCEPT ![x] = sent[x]]
          /\ buf_' = [buf_ EXCEPT ![peer_(cur.ptr)] = buf_[peer_(cur.ptr)] \o Unread(x)]
      BY <2>1 DEF HandleRead
    <3>5. rd' \in [Ends -> Nat]
      BY <3>1, <3>4 DEF KernelTypeOK
    <3>6. buf_' \in [Ends -> Seq(Bytes)]
      BY <1>1, <3>3, <3>4 DEF OperatorTypeOK
    <3> QED BY <3>5, <3>6
  <2>2. CASE ~(x # NoEnd /\ sent[x] > rd[x])
    BY <2>2 DEF HandleRead, KernelTypeOK, OperatorTypeOK
  <2> QED BY <2>1, <2>2
<1>4. KernelTypeOK'
  BY <1>1, <1>2, <1>3 DEF KernelTypeOK, HandleRead
<1>5. PollThreadTypeOK'
  BY <1>1, <1>2, <1>3 DEF PollThreadTypeOK, HandleRead
<1>6. OperatorTypeOK'
  BY <1>1, <1>2, <1>3 DEF OperatorTypeOK, HandleRead
<1>7. PollTypeOK'
  BY <1>1, <1>2, <1>3 DEF PollTypeOK, HandleRead, PollSteps
<1>8. MainTypeOK'
  BY <1>1, <1>2, <1>3 DEF MainTypeOK, HandleRead
<1>9. ControlInv'
  BY <1>1, <1>2, <1>3 DEF ControlInv, HandleRead
<1>10. FdInv'
  BY <1>1, <1>2, <1>3 DEF FdInv, HandleRead
<1> QED BY <1>4, <1>5, <1>6, <1>7, <1>8, <1>9, <1>10

\* ... and update_mode.
LEMMA HandleReadModeType ==
    ASSUME TypeInv, HandleReadMode
    PROVE  TypeInv'
<1> USE DEF TypeInv, TypeOK
<1>1. cur \in EventRecords /\ cur.ptr \in Ends /\ peer_(cur.ptr) \in Ends
  BY EndFacts DEF HandleReadMode, ControlInv, EventRecords
<1>2. /\ ppc' \in {"read", "write", "error", "next"}
      /\ cur' \in EventRecords \cup {NoEvent}
      /\ ppc' # "next" => cur' \in EventRecords
  BY <1>1, HandlerDoneType DEF HandleReadMode
<1>3. /\ eptr' \in [Ends -> Ends \cup {NoEnd}] /\ emask' \in [Ends -> SUBSET RW]
      /\ rdy' \in SUBSET Ends /\ mode_' \in [Fds -> {Absent, R, RW}]
      /\ UNCHANGED <<poll_set_, pending_remove_>>
  BY <1>1, UpdateModeType DEF HandleReadMode
<1>4. KernelTypeOK'
  BY <1>1, <1>2, <1>3 DEF KernelTypeOK, HandleReadMode
<1>5. PollThreadTypeOK'
  BY <1>1, <1>2, <1>3 DEF PollThreadTypeOK, HandleReadMode
<1>6. OperatorTypeOK'
  BY <1>1, <1>2, <1>3 DEF OperatorTypeOK, HandleReadMode
<1>7. PollTypeOK'
  BY <1>1, <1>2, <1>3 DEF PollTypeOK, HandleReadMode, PollSteps
<1>8. MainTypeOK'
  BY <1>1, <1>2, <1>3 DEF MainTypeOK, HandleReadMode
<1>9. ControlInv'
  BY <1>1, <1>2, <1>3 DEF ControlInv, HandleReadMode
<1>10. FdInv'
  BY <1>1, <1>2, <1>3 DEF FdInv, HandleReadMode
<1> QED BY <1>4, <1>5, <1>6, <1>7, <1>8, <1>9, <1>10

\* handle_write up to its update_mode ...
LEMMA HandleWriteType ==
    ASSUME TypeInv, HandleWrite
    PROVE  TypeInv'
<1> USE DEF TypeInv, TypeOK
<1>1. cur \in EventRecords /\ cur.ptr \in Ends /\ fd_[cur.ptr] \in Fds
  BY DEF HandleWrite, ControlInv, EventRecords, FdInv
<1> DEFINE b == buf_[cur.ptr]
           x == file[fd_[cur.ptr]]
<1>2. b \in Seq(Bytes)
  BY <1>1 DEF OperatorTypeOK
<1>3. \A n \in 0 .. Len(b) :
          SubSeq(b, 1, n) \in Seq(Bytes) /\ SubSeq(b, n + 1, Len(b)) \in Seq(Bytes)
  BY <1>2
<1>4. wr' \in [Ends -> Seq(Bytes)] /\ buf_' \in [Ends -> Seq(Bytes)]
  <2>1. CASE UNCHANGED <<wr, buf_>>
    BY <2>1 DEF KernelTypeOK, OperatorTypeOK
  <2>2. CASE x # NoEnd /\ ~UNCHANGED <<wr, buf_>>
    <3>1. x \in Ends /\ wr[x] \in Seq(Bytes)
      BY <1>1, <2>2 DEF KernelTypeOK
    <3>2. PICK n \in 0 .. Len(b) :
              /\ wr' = [wr EXCEPT ![x] = @ \o SubSeq(b, 1, n)]
              /\ buf_' = [buf_ EXCEPT ![cur.ptr] = SubSeq(@, n + 1, Len(@))]
      BY <2>2 DEF HandleWrite
    <3>3. wr[x] \o SubSeq(b, 1, n) \in Seq(Bytes)
      BY <3>1, <1>3
    <3>4. wr' \in [Ends -> Seq(Bytes)]
      BY <3>2, <3>3 DEF KernelTypeOK
    <3>5. buf_' \in [Ends -> Seq(Bytes)]
      BY <3>2, <1>1, <1>3 DEF OperatorTypeOK
    <3> QED BY <3>4, <3>5
  <2> QED BY <2>1, <2>2 DEF HandleWrite
<1>5. KernelTypeOK'
  BY <1>1, <1>2, <1>3, <1>4 DEF KernelTypeOK, HandleWrite
<1>6. PollThreadTypeOK'
  BY <1>1, <1>2, <1>3, <1>4 DEF PollThreadTypeOK, HandleWrite
<1>7. OperatorTypeOK'
  BY <1>1, <1>2, <1>3, <1>4 DEF OperatorTypeOK, HandleWrite
<1>8. PollTypeOK'
  BY <1>1, <1>2, <1>3, <1>4 DEF PollTypeOK, HandleWrite, PollSteps
<1>9. MainTypeOK'
  BY <1>1, <1>2, <1>3, <1>4 DEF MainTypeOK, HandleWrite
<1>10. ControlInv'
  BY <1>1, <1>2, <1>3, <1>4 DEF ControlInv, HandleWrite
<1>11. FdInv'
  BY <1>1, <1>2, <1>3, <1>4 DEF FdInv, HandleWrite
<1> QED BY <1>5, <1>6, <1>7, <1>8, <1>9, <1>10, <1>11

\* ... and update_mode.
LEMMA HandleWriteModeType ==
    ASSUME TypeInv, HandleWriteMode
    PROVE  TypeInv'
<1> USE DEF TypeInv, TypeOK
<1>1. cur \in EventRecords /\ cur.ptr \in Ends /\ ModeAfterWrite(cur.ptr) \in {R, RW}
  BY EndFacts DEF HandleWriteMode, ControlInv, EventRecords, ModeAfterWrite
<1>2. /\ ppc' \in {"read", "write", "error", "next"}
      /\ cur' \in EventRecords \cup {NoEvent}
      /\ ppc' # "next" => cur' \in EventRecords
  BY <1>1, HandlerDoneType DEF HandleWriteMode
<1>3. /\ eptr' \in [Ends -> Ends \cup {NoEnd}] /\ emask' \in [Ends -> SUBSET RW]
      /\ rdy' \in SUBSET Ends /\ mode_' \in [Fds -> {Absent, R, RW}]
      /\ UNCHANGED <<poll_set_, pending_remove_>>
  BY <1>1, UpdateModeType DEF HandleWriteMode
<1>4. KernelTypeOK'
  BY <1>1, <1>2, <1>3 DEF KernelTypeOK, HandleWriteMode
<1>5. PollThreadTypeOK'
  BY <1>1, <1>2, <1>3 DEF PollThreadTypeOK, HandleWriteMode
<1>6. OperatorTypeOK'
  BY <1>1, <1>2, <1>3 DEF OperatorTypeOK, HandleWriteMode
<1>7. PollTypeOK'
  BY <1>1, <1>2, <1>3 DEF PollTypeOK, HandleWriteMode, PollSteps
<1>8. MainTypeOK'
  BY <1>1, <1>2, <1>3 DEF MainTypeOK, HandleWriteMode
<1>9. ControlInv'
  BY <1>1, <1>2, <1>3 DEF ControlInv, HandleWriteMode
<1>10. FdInv'
  BY <1>1, <1>2, <1>3 DEF FdInv, HandleWriteMode
<1> QED BY <1>4, <1>5, <1>6, <1>7, <1>8, <1>9, <1>10

\* The poll loop releases a removed Pollable.
LEMMA DrainOneType ==
    ASSUME TypeInv, NEW e \in Ends, DrainOne(e)
    PROVE  TypeInv'
<1> USE DEF TypeInv, TypeOK
<1>1. refcnt_' \in [Ends -> Int] /\ freed' \in SUBSET Ends
  BY ReleaseType DEF DrainOne
<1>2. KernelTypeOK'
  <2>1. CASE EpollDel(fd_[e])
    BY <2>1 DEF KernelTypeOK, DrainOne, EpollDel
  <2>2. CASE UNCHANGED epollVars
    BY <2>2 DEF KernelTypeOK, DrainOne
  <2> QED BY <2>1, <2>2 DEF DrainOne, ForgetFd
<1>3. PollThreadTypeOK'
  BY <1>1 DEF PollThreadTypeOK, DrainOne
<1>4. OperatorTypeOK'
  BY <1>1 DEF OperatorTypeOK, DrainOne
<1>5. PollTypeOK'
  BY <1>1 DEF PollTypeOK, DrainOne
<1>6. MainTypeOK'
  BY <1>1 DEF MainTypeOK, DrainOne
<1>7. ControlInv'
  BY <1>1 DEF ControlInv, DrainOne
<1>8. FdInv'
  BY <1>1 DEF FdInv, DrainOne
<1> QED BY <1>2, <1>3, <1>4, <1>5, <1>6, <1>7, <1>8

\* epoll_wait reports events of registered sockets.
LEMMA PollWaitType ==
    ASSUME TypeInv, PollWait
    PROVE  TypeInv'
<1> USE DEF TypeInv, TypeOK
<1>1. batch' \in SUBSET EventRecords /\ rdy' \in SUBSET Ends
  <2>1. \A B \in SUBSET Ends : Reported(B) \in SUBSET EventRecords
    BY DEF Reported, ReadyEvents, EventRecords, KernelTypeOK
  <2>2. PICK B \in Takes : batch' = Reported(B) /\ rdy' = rdy \ B
    BY DEF PollWait
  <2> QED BY <2>1, <2>2 DEF Takes, KernelTypeOK
<1>2. KernelTypeOK'
  BY <1>1 DEF KernelTypeOK, PollWait
<1>3. PollThreadTypeOK' /\ OperatorTypeOK' /\ MainTypeOK'
  BY DEF PollThreadTypeOK, OperatorTypeOK, MainTypeOK, PollWait
<1>4. PollTypeOK'
  BY <1>1 DEF PollTypeOK, PollWait, PollSteps
<1>5. ControlInv' /\ FdInv'
  BY DEF ControlInv, FdInv, PollWait
<1> QED BY <1>2, <1>3, <1>4, <1>5

\* The rest of the poll loop.
LEMMA PollType ==
    ASSUME TypeInv,
           HandlerNotEnabled \/ HandleError \/ SwapPending \/ DrainDone \/
           PollExit
    PROVE  TypeInv'
<1> USE EndFacts DEF TypeInv, TypeOK, KernelTypeOK, PollThreadTypeOK, OperatorTypeOK,
                     PollTypeOK, MainTypeOK, ControlInv, FdInv
<1>1. CASE HandlerNotEnabled
  <2>1. cur \in EventRecords
    BY <1>1 DEF HandlerNotEnabled
  <2>2. /\ ppc' \in {"read", "write", "error", "next"}
        /\ cur' \in EventRecords \cup {NoEvent}
        /\ ppc' # "next" => cur' \in EventRecords
    BY <1>1, <2>1, HandlerDoneType DEF HandlerNotEnabled
  <2>3. OperatorTypeOK'
    BY <1>1, <2>1 DEF HandlerNotEnabled, EventRecords
  <2>4. PollTypeOK' /\ ControlInv'
    BY <1>1, <2>2 DEF HandlerNotEnabled, PollSteps
  <2>5. KernelTypeOK' /\ PollThreadTypeOK' /\ MainTypeOK' /\ FdInv'
    BY <1>1 DEF HandlerNotEnabled
  <2> QED BY <2>3, <2>4, <2>5
<1>2. CASE HandleError
  <2>1. cur \in EventRecords /\ cur.ptr[1] \in Sessions
    BY <1>2 DEF HandleError, EventRecords
  <2>2. /\ ppc' \in {"read", "write", "error", "next"}
        /\ cur' \in EventRecords \cup {NoEvent}
        /\ ppc' # "next" => cur' \in EventRecords
    BY <1>2, <2>1, HandlerDoneType DEF HandleError
  <2>3. /\ sdpc' \in [Shutters -> ShutdownSteps] /\ sds' \in [Shutters -> Sessions \cup {NoEnd}]
        /\ \A t \in Shutters : sdpc'[t] # "idle" => sds'[t] \in Sessions
    BY <1>2, <2>1 DEF HandleError, StartShutdown, ShutdownSteps
  <2>4. PollTypeOK' /\ ControlInv'
    BY <1>2, <2>2, <2>3 DEF HandleError, PollSteps
  <2>5. KernelTypeOK' /\ PollThreadTypeOK' /\ OperatorTypeOK' /\ MainTypeOK' /\ FdInv'
    BY <1>2 DEF HandleError
  <2> QED BY <2>4, <2>5
<1>3. CASE SwapPending
  BY <1>3 DEF SwapPending, PollSteps
<1>4. CASE DrainDone
  BY <1>4 DEF DrainDone, PollSteps
<1>5. CASE PollExit
  <2>1. refcnt_' \in [Ends -> Int] /\ freed' \in SUBSET Ends
    BY <1>5 DEF PollExit
  <2> QED BY <1>5, <2>1 DEF PollExit, PollSteps
<1> QED BY <1>1, <1>2, <1>3, <1>4, <1>5

\* The cleanup thread starts a shutdown.
LEMMA CleanupShutdownType ==
    ASSUME TypeInv, NEW s \in Sessions, CleanupShutdown(s)
    PROVE  TypeInv'
BY EndFacts
   DEF TypeInv, TypeOK, KernelTypeOK, PollThreadTypeOK, OperatorTypeOK, PollTypeOK, MainTypeOK,
       ControlInv, FdInv, CleanupShutdown, StartShutdown, ShutdownSteps

\* The rest of the cleanup thread.
LEMMA CleanupType ==
    ASSUME TypeInv,
           CleanupQuery \/ CleanupQueryFails \/ CleanupScan \/ CleanupSleep \/ CleanupExit
    PROVE  TypeInv'
<1> USE EndFacts DEF TypeInv, TypeOK, KernelTypeOK, PollThreadTypeOK, OperatorTypeOK,
                     PollTypeOK, MainTypeOK, ControlInv, FdInv
<1>1. CASE CleanupQuery
  BY <1>1 DEF CleanupQuery, CleanupSteps
<1>2. CASE CleanupQueryFails
  BY <1>2 DEF CleanupQueryFails, CleanupSteps
<1>3. CASE CleanupScan
  BY <1>3 DEF CleanupScan, CleanupSteps
<1>4. CASE CleanupSleep
  BY <1>4 DEF CleanupSleep, CleanupSteps
<1>5. CASE CleanupExit
  BY <1>5 DEF CleanupExit, CleanupSteps
<1> QED BY <1>1, <1>2, <1>3, <1>4, <1>5

\* ~PollThread calls remove().
LEMMA DtorRemoveType ==
    ASSUME TypeInv, NEW e \in Ends, DtorRemove(e)
    PROVE  TypeInv'
<1> USE DEF TypeInv, TypeOK
<1>1. /\ poll_set_' \in SUBSET Ends /\ poll_set_' \subseteq poll_set_
      /\ mode_' \in [Fds -> {Absent, R, RW}] /\ pending_remove_' \in SUBSET Ends
  BY RemoveType DEF DtorRemove
<1>2. KernelTypeOK'
  BY <1>1 DEF KernelTypeOK, DtorRemove
<1>3. PollThreadTypeOK'
  BY <1>1 DEF PollThreadTypeOK, DtorRemove
<1>4. OperatorTypeOK'
  BY <1>1 DEF OperatorTypeOK, DtorRemove
<1>5. PollTypeOK'
  BY <1>1 DEF PollTypeOK, DtorRemove
<1>6. MainTypeOK'
  BY <1>1 DEF MainTypeOK, DtorRemove
<1>7. ControlInv'
  BY <1>1 DEF ControlInv, DtorRemove
<1>8. FdInv'
  BY <1>1 DEF FdInv, DtorRemove
<1> QED BY <1>2, <1>3, <1>4, <1>5, <1>6, <1>7, <1>8

\* The rest of the main thread, and SIGINT.
LEMMA MainType ==
    ASSUME TypeInv,
           MainJoins \/ DtorCopy \/ DtorStop \/ MainDone \/ Signal
    PROVE  TypeInv'
<1> USE EndFacts DEF TypeInv, TypeOK, KernelTypeOK, PollThreadTypeOK, OperatorTypeOK,
                     PollTypeOK, MainTypeOK, ControlInv, FdInv
<1>1. CASE MainJoins
  BY <1>1 DEF MainJoins, MainSteps
<1>2. CASE DtorCopy
  BY <1>2 DEF DtorCopy, MainSteps
<1>3. CASE DtorStop
  BY <1>3 DEF DtorStop, MainSteps
<1>4. CASE MainDone
  BY <1>4 DEF MainDone, MainSteps
<1>5. CASE Signal
  BY <1>5 DEF Signal
<1> QED BY <1>1, <1>2, <1>3, <1>4, <1>5

\* The administrator edits the database.
LEMMA EditRouteType ==
    ASSUME TypeInv, NEW k \in Keys, EditRoute(k)
    PROVE  TypeInv'
BY EndFacts
   DEF TypeInv, TypeOK, KernelTypeOK, PollThreadTypeOK, OperatorTypeOK, PollTypeOK, MainTypeOK,
       ControlInv, FdInv, EditRoute

\* The parties outside change only what the kernel knows.
LEMMA OutsideType ==
    ASSUME TypeInv, NEW e \in Ends, Outside(e),
           UNCHANGED <<registryVars, refVars, fd_, endVars, opc, pollLocal, sdVars,
                       cleanupLocal, dbVars, mainVars, missed, crash>>
    PROVE  TypeInv'
<1> USE DEF TypeInv, TypeOK
<1>1. KernelTypeOK'
  <2>1. CASE Arrive(e)
    BY <2>1 DEF KernelTypeOK, Arrive, Edge
  <2>2. CASE Consume(e)
    BY <2>2 DEF KernelTypeOK, Consume, Edge
  <2>3. CASE Hangup(e)
    <3>1. hup' \in SUBSET Ends /\ rdy' \in SUBSET Ends
      BY <2>3 DEF KernelTypeOK, Hangup
    <3>2. UNCHANGED <<file, sent, rd, wr, taken, eptr, emask>>
      BY <2>3 DEF Hangup
    <3> QED BY <3>1, <3>2 DEF KernelTypeOK
  <2> QED BY <2>1, <2>2, <2>3 DEF Outside
<1>2. PollThreadTypeOK' /\ OperatorTypeOK' /\ PollTypeOK' /\ MainTypeOK' /\ ControlInv' /\ FdInv'
  BY DEF PollThreadTypeOK, OperatorTypeOK, PollTypeOK, MainTypeOK, ControlInv, FdInv
<1> QED BY <1>1, <1>2

\* A process that aborts or has ended changes nothing else.
LEMMA StopType ==
    ASSUME TypeInv, Failure \/ UNCHANGED vars
    PROVE  TypeInv'
<1>1. UNCHANGED allButCrash /\ crash' \in Crashes
  <2>1. CASE UNCHANGED vars
    BY <2>1 DEF vars, allButCrash, TypeInv, TypeOK, MainTypeOK
  <2>2. CASE Failure
    BY <2>2 DEF Failure, UseAfterFree, UpdateModeFails, AddVerifyFails, AddEpollFails,
                RemoveFails, Abort, Crashes
  <2> QED BY <2>1, <2>2
<1> QED BY <1>1 DEF allButCrash, TypeInv, TypeOK, KernelTypeOK, PollThreadTypeOK,
                    OperatorTypeOK, PollTypeOK, MainTypeOK, ControlInv, FdInv

\* TypeInv is inductive.
LEMMA TypeNext == TypeInv /\ [Next]_vars => TypeInv'
<1> SUFFICES ASSUME TypeInv, [Next]_vars PROVE TypeInv'
  OBVIOUS
<1>1. CASE \E s \in Sessions : Accept(s) \/ Handshake(s)
  BY <1>1, AcceptType, ConnectToType, HandshakeType DEF Handshake
<1>2. CASE \E s \in Sessions : TieSteps(s)
  BY <1>2, AddEpollType, TieType DEF TieSteps
<1>3. CASE PollStep
  BY <1>3, PollNextType, HandleReadType, HandleReadModeType, HandleWriteType,
     HandleWriteModeType, DrainOneType, PollWaitType, PollType DEF PollStep
<1>4. CASE CleanupStep
  BY <1>4, CleanupShutdownType, CleanupType DEF CleanupStep
<1>5. CASE \E t \in Shutters : ShutdownStep(t)
  BY <1>5, ShutRemoveType, ShutReleaseType, ShutType DEF ShutdownStep
<1>6. CASE MainStep
  BY <1>6, DtorRemoveType, MainType DEF MainStep
<1>7. CASE Environment
  BY <1>7, OutsideType, EditRouteType, MainType DEF Environment
<1>8. CASE Failure \/ UNCHANGED vars
  BY <1>8, StopType
<1> QED BY <1>1, <1>2, <1>3, <1>4, <1>5, <1>6, <1>7, <1>8 DEF Next, Running

\* Every variable keeps its type; a handler that runs has its event, a shutdown
\* its session, and whoever is registered or ready has a descriptor number.
THEOREM TypeInvariant == Spec => []TypeInv
BY TypeInit, TypeNext, PTL DEF Spec

\* TypeOK is an invariant.
THEOREM TypeCorrect == Spec => []TypeOK
<1>1. TypeInv => TypeOK
  BY DEF TypeInv
<1> QED BY <1>1, TypeInvariant, PTL

-------------------------------------------------------------------------------
(* The registry: mode_ and poll_set_ always agree.                         *)

\* Sessions whose EndPoints do not exist yet: no one can have registered them,
\* so the descriptor a step of theirs obtains is not that of a registered one.
Early == {"idle", "auth", "connect", "tie", "fail"}
RegisteredLate == \A e \in poll_set_ : opc[e[1]] \notin Early

RegistryInv == TypeInv /\ ModeMatchesPollSet /\ RegisteredLate

\* RegistryInv holds initially.
LEMMA RegistryInit == Init => RegistryInv
BY TypeInit DEF Init, PollThreadInit, RegistryInv, ModeMatchesPollSet, RegisteredLate, Absent

\* A step that leaves the registry and the descriptors alone.
Elsewhere ==
    /\ UNCHANGED <<poll_set_, mode_, fd_>>
    /\ \A s \in Sessions : opc[s] \notin Early => opc'[s] \notin Early

\* ... keeps RegistryInv.
LEMMA ElsewhereKeeps ==
    ASSUME RegistryInv, TypeInv', Elsewhere
    PROVE  RegistryInv'
BY EndFacts DEF RegistryInv, ModeMatchesPollSet, RegisteredLate, Elsewhere,
                TypeInv, TypeOK, PollThreadTypeOK

\* accept() and connect() give a descriptor to an end that is not registered.
LEMMA OpenKeeps ==
    ASSUME RegistryInv, TypeInv', NEW s \in Sessions, Accept(s) \/ ConnectTo(s)
    PROVE  RegistryInv'
<1> USE DEF RegistryInv
<1>1. /\ opc[s] \in Early
      /\ UNCHANGED <<poll_set_, mode_>>
      /\ \A r \in Sessions : opc[r] \notin Early => opc'[r] \notin Early
  BY DEF Accept, ConnectTo, Early, GoTo, TypeInv, TypeOK, OperatorTypeOK
<1>2. PICK e \in {leader(s), follower(s)} : OpenSocket(e)
  BY DEF Accept, ConnectTo
<1>3. \A f \in Ends : f # e => fd_'[f] = fd_[f]
  <2>1. e \in Ends
    BY <1>2, EndFacts
  <2>2. KernelTypeOK /\ PollThreadTypeOK
    BY DEF TypeInv, TypeOK
  <2> QED BY <1>2, <2>1, <2>2, OpenSocketType
<1>4. e \in Ends /\ e \notin poll_set_
  BY <1>1, <1>2, EndFacts DEF RegisteredLate
<1>5. \A f \in poll_set_ : f \in Ends /\ fd_'[f] = fd_[f]
  BY <1>3, <1>4 DEF TypeInv, TypeOK, PollThreadTypeOK
<1>6. ModeMatchesPollSet'
  BY <1>1, <1>5 DEF ModeMatchesPollSet
<1>7. RegisteredLate'
  BY <1>1, <1>5, EndFacts DEF RegisteredLate
<1> QED BY <1>6, <1>7

\* add(): its verify() is what keeps two Pollables off one descriptor.
LEMMA RegisterKeeps ==
    ASSUME RegistryInv, TypeInv', NEW s \in Sessions, NEW e \in Ends, AddRegister(s, e)
    PROVE  RegistryInv'
<1> USE DEF RegistryInv, TypeInv, TypeOK
<1>1. /\ fd_[e] \in Fds /\ opc[s] \in {"ins1", "ins2"} /\ e[1] = s
      /\ e \notin poll_set_ /\ mode_[fd_[e]] = Absent
      /\ poll_set_' = poll_set_ \cup {e}
      /\ mode_' = [mode_ EXCEPT ![fd_[e]] = RW]
      /\ UNCHANGED fd_
  BY EndFacts DEF AddRegister, AddVerify, AddInsert, FdInv
<1>2. \A f \in poll_set_ : f \in Ends /\ fd_[f] \in Fds /\ fd_[f] # fd_[e]
  BY <1>1 DEF ModeMatchesPollSet, FdInv, PollThreadTypeOK
<1>3. ModeMatchesPollSet'
  BY <1>1, <1>2 DEF ModeMatchesPollSet, PollThreadTypeOK, RW, Absent
<1>4. RegisteredLate'
  BY <1>1, EndFacts DEF RegisteredLate, AddRegister, GoTo, Early, OperatorTypeOK, PollThreadTypeOK
<1> QED BY <1>3, <1>4

\* remove(): the entry of mode_ that goes is that of no other Pollable.
LEMMA RemoveKeeps ==
    ASSUME RegistryInv, TypeInv', NEW e \in Ends, Remove(e), UNCHANGED <<fd_, opc>>
    PROVE  RegistryInv'
<1> USE DEF RegistryInv, TypeInv, TypeOK
<1>1. CASE e \notin poll_set_
  BY <1>1, ElsewhereKeeps DEF Remove, Elsewhere
<1>2. CASE e \in poll_set_
  <2>1. /\ poll_set_' = poll_set_ \ {e}
        /\ mode_' = [mode_ EXCEPT ![fd_[e]] = Absent]
        /\ fd_[e] \in Fds
    BY <1>2 DEF Remove, FdInv
  <2>2. \A f \in poll_set_' : fd_[f] \in Fds /\ fd_[f] # fd_[e]
    BY <1>2, <2>1 DEF ModeMatchesPollSet, FdInv, PollThreadTypeOK
  <2>3. ModeMatchesPollSet'
    BY <1>2, <2>1, <2>2 DEF ModeMatchesPollSet, PollThreadTypeOK
  <2>4. RegisteredLate'
    BY <2>1 DEF RegisteredLate
  <2> QED BY <2>3, <2>4
<1> QED BY <1>1, <1>2

\* update_mode() changes the entry of a registered Pollable only.
LEMMA UpdateModeKeeps ==
    ASSUME RegistryInv, TypeInv', NEW e \in Ends, NEW m \in {R, RW}, UpdateMode(e, m),
           UNCHANGED <<fd_, opc>>
    PROVE  RegistryInv'
<1> USE DEF RegistryInv, TypeInv, TypeOK
<1>1. CASE ~ChangesMode(e, m)
  BY <1>1, ElsewhereKeeps DEF UpdateMode, Elsewhere
<1>2. CASE ChangesMode(e, m)
  <2>1. /\ e \in poll_set_ /\ fd_[e] \in Fds /\ UNCHANGED poll_set_
        /\ mode_' = [mode_ EXCEPT ![fd_[e]] = m]
        /\ m # Absent
    BY <1>2 DEF UpdateMode, ChangesMode, FdInv, R, RW, Absent
  <2>2. ModeMatchesPollSet'
    BY <2>1 DEF ModeMatchesPollSet, PollThreadTypeOK
  <2>3. RegisteredLate'
    BY <2>1 DEF RegisteredLate
  <2> QED BY <2>2, <2>3
<1> QED BY <1>1, <1>2

\* RegistryInv is inductive.
LEMMA RegistryNext == RegistryInv /\ [Next]_vars => RegistryInv'
<1> SUFFICES ASSUME RegistryInv, [Next]_vars PROVE RegistryInv'
  OBVIOUS
<1>0. TypeInv /\ TypeInv'
  BY TypeNext DEF RegistryInv
<1>1. CASE \E s \in Sessions : Accept(s) \/ ConnectTo(s)
  BY <1>0, <1>1, OpenKeeps
<1>2. CASE \E s \in Sessions : Authenticate(s) \/ RemoteFails(s) \/ HandshakeFails(s) \/ Tie(s)
  <2>1. Elsewhere
    BY <1>0, <1>2 DEF Elsewhere, Early, Authenticate, RemoteFails, HandshakeFails, Tie, GoTo,
                      TypeInv, TypeOK, OperatorTypeOK
  <2> QED BY <1>0, <2>1, ElsewhereKeeps
<1>3. CASE \E s \in Sessions, e \in Ends : AddRegister(s, e)
  BY <1>0, <1>3, RegisterKeeps
<1>4. CASE \E s \in Sessions, e \in Ends : AddRef(s, e) \/ AddEpoll(s, e) \/ Ready(s, e)
  <2>1. Elsewhere
    BY <1>0, <1>4 DEF Elsewhere, Early, AddRef, AddEpoll, Ready, GoTo,
                      TypeInv, TypeOK, OperatorTypeOK
  <2> QED BY <1>0, <2>1, ElsewhereKeeps
<1>5. CASE HandleReadMode
  <2>1. peer_(cur.ptr) \in Ends
    BY <1>0, <1>5, EndFacts DEF HandleReadMode, TypeInv, ControlInv, EventRecords
  <2> QED BY <1>0, <1>5, <2>1, UpdateModeKeeps DEF HandleReadMode
<1>6. CASE HandleWriteMode
  <2>1. cur.ptr \in Ends /\ ModeAfterWrite(cur.ptr) \in {R, RW}
    BY <1>0, <1>6 DEF HandleWriteMode, TypeInv, ControlInv, EventRecords, ModeAfterWrite
  <2> QED BY <1>0, <1>6, <2>1, UpdateModeKeeps DEF HandleWriteMode
<1>7. CASE \/ PollWait \/ PollNext \/ HandlerNotEnabled \/ HandleRead \/ HandleWrite
           \/ HandleError \/ SwapPending \/ DrainDone \/ PollExit
           \/ \E e \in Ends : DrainOne(e)
  <2>1. Elsewhere
    BY <1>7 DEF Elsewhere, PollWait, PollNext, HandlerNotEnabled, HandleRead, HandleWrite,
                HandleError, SwapPending, DrainDone, PollExit, DrainOne
  <2> QED BY <1>0, <2>1, ElsewhereKeeps
<1>8. CASE CleanupStep
  <2>1. Elsewhere
    BY <1>8 DEF Elsewhere, CleanupStep, CleanupQuery, CleanupQueryFails, CleanupScan,
                CleanupShutdown, CleanupSleep, CleanupExit
  <2> QED BY <1>0, <2>1, ElsewhereKeeps
<1>9. CASE \E t \in Shutters : ShutRemove(t)
  BY <1>0, <1>9, ShutEndType, RemoveKeeps DEF ShutRemove, TypeInv
<1>10. CASE \E t \in Shutters : ShutClose(t) \/ ShutErase(t) \/ ShutRelease(t)
  <2>1. Elsewhere
    BY <1>10 DEF Elsewhere, ShutClose, ShutErase, ShutRelease
  <2> QED BY <1>0, <2>1, ElsewhereKeeps
<1>11. CASE \E e \in Ends : DtorRemove(e)
  BY <1>0, <1>11, RemoveKeeps DEF DtorRemove
<1>12. CASE MainJoins \/ DtorCopy \/ DtorStop \/ MainDone \/ Environment
  <2>1. Elsewhere
    BY <1>12 DEF Elsewhere, MainJoins, DtorCopy, DtorStop, MainDone, Environment, EditRoute, Signal
  <2> QED BY <1>0, <2>1, ElsewhereKeeps
<1>13. CASE Failure \/ UNCHANGED vars
  <2>1. Elsewhere
    BY <1>13 DEF Elsewhere, vars, Failure, UseAfterFree, UpdateModeFails, AddVerifyFails,
                 AddEpollFails, RemoveFails, Abort, allButCrash
  <2> QED BY <1>0, <2>1, ElsewhereKeeps
<1> QED BY <1>1, <1>2, <1>3, <1>4, <1>5, <1>6, <1>7, <1>8, <1>9, <1>10, <1>11, <1>12, <1>13
    DEF Next, Running, Handshake, TieSteps, PollStep, ShutdownStep, MainStep

\* mode_ has an entry for exactly the descriptors of the registered Pollables,
\* one each, however adds, removes, closes and reuses of descriptors interleave.
THEOREM ModeMatches == Spec => []ModeMatchesPollSet
<1>1. RegistryInv => ModeMatchesPollSet
  BY DEF RegistryInv
<1> QED BY <1>1, RegistryInit, RegistryNext, PTL DEF Spec

-------------------------------------------------------------------------------
(* Who changes what.                                                       *)

\* An operator changes neither what the other threads hold nor the database.
LEMMA OperatorFrame ==
    ASSUME NEW s \in Sessions, Accept(s) \/ Handshake(s) \/ TieSteps(s)
    PROVE  UNCHANGED <<socketVars, pending_remove_, freed, buf_, pollLocal, sdVars,
                       cleanupLocal, dbVars, mainVars, missed, crash>>
<1>1. CASE Accept(s) \/ Handshake(s)
  BY <1>1 DEF Accept, Handshake, Authenticate, ConnectTo, RemoteFails, HandshakeFails, Tie
<1>2. CASE TieSteps(s)
  BY <1>2 DEF TieSteps, AddRef, AddRegister, AddEpoll, Ready, AddInsert, AddCtl, RefCopy
<1> QED BY <1>1, <1>2

\* The poll thread opens, closes and enables nothing.
LEMMA PollFrame ==
    ASSUME PollStep
    PROVE  UNCHANGED <<file, hup, sent, taken, poll_set_, fd_, enabled_, all_tie_leaders, opc,
                       cleanupLocal, dbVars, mainVars, crash>>
<1>1. CASE PollWait \/ PollNext \/ HandlerNotEnabled \/ HandleRead \/ HandleWrite \/ HandleError
  BY <1>1 DEF PollWait, PollNext, HandlerNotEnabled, HandleRead, HandleWrite, HandleError
<1>2. CASE HandleReadMode \/ HandleWriteMode
  BY <1>2 DEF HandleReadMode, HandleWriteMode, UpdateMode
<1>3. CASE SwapPending \/ (\E e \in Ends : DrainOne(e)) \/ DrainDone \/ PollExit
  BY <1>3 DEF SwapPending, DrainOne, DrainDone, PollExit
<1> QED BY <1>1, <1>2, <1>3 DEF PollStep

\* The cleanup thread outside shutdown().
LEMMA CleanupFrame ==
    ASSUME CleanupStep
    PROVE  UNCHANGED <<kernelVars, registryVars, refVars, fd_, endVars, opc, pollLocal,
                       dbVars, mainVars, missed, crash>>
BY DEF CleanupStep, CleanupQuery, CleanupQueryFails, CleanupScan, CleanupShutdown,
       CleanupSleep, CleanupExit

\* A thread inside shutdown().
LEMMA ShutFrame ==
    ASSUME NEW t \in Shutters, ShutdownStep(t)
    PROVE  UNCHANGED <<socketVars, fd_, enabled_, buf_, opc, pollLocal, cleanupLocal, dbVars,
                       mainVars, missed, crash>>
BY DEF ShutdownStep, ShutClose, ShutRemove, ShutErase, ShutRelease

\* The main thread.
LEMMA MainFrame ==
    ASSUME MainStep
    PROVE  UNCHANGED <<kernelVars, refVars, fd_, endVars, opc, pollLocal, sdVars,
                       cleanupLocal, dbVars, stop, missed, crash>>
BY DEF MainStep, MainJoins, DtorCopy, DtorRemove, DtorStop, MainDone

\* The parties outside, the administrator and the signal.
LEMMA EnvironmentFrame ==
    ASSUME Environment
    PROVE  UNCHANGED <<file, rd, wr, eptr, emask, registryVars, refVars, fd_, endVars, opc,
                       pollLocal, sdVars, cleanupLocal, mpc, dtor, stop_flag_, missed, crash>>
<1>1. CASE \E e \in Ends : Outside(e) /\ UNCHANGED <<registryVars, refVars, fd_, endVars, opc,
               pollLocal, sdVars, cleanupLocal, dbVars, mainVars, missed, crash>>
  BY <1>1 DEF Outside, Arrive, Consume, Hangup
<1>2. CASE (\E k \in Keys : EditRoute(k)) \/ Signal
  BY <1>2 DEF EditRoute, Signal
<1> QED BY <1>1, <1>2 DEF Environment

\* A process that aborts or has ended.
LEMMA StopFrame ==
    ASSUME Failure \/ UNCHANGED vars
    PROVE  UNCHANGED allButCrash
BY DEF vars, Failure, UseAfterFree, UpdateModeFails, AddVerifyFails,
       AddEpollFails, RemoveFails, Abort, allButCrash

\* The steps of the whole program.
LEMMA Cases ==
    ASSUME [Next]_vars
    PROVE  \/ \E s \in Sessions : Accept(s) \/ Handshake(s) \/ TieSteps(s)
           \/ PollStep
           \/ CleanupStep
           \/ \E t \in Shutters : ShutdownStep(t)
           \/ MainStep
           \/ Environment
           \/ Failure \/ UNCHANGED vars
BY DEF Next, Running

\* Only an operator moves in the handshake and in tie_fd.
LEMMA OperatorOnly ==
    ASSUME [Next]_vars, ~\E s \in Sessions : Accept(s) \/ Handshake(s) \/ TieSteps(s)
    PROVE  UNCHANGED <<opc, fd_, enabled_>>
BY Cases, PollFrame, CleanupFrame, ShutFrame, MainFrame, EnvironmentFrame, StopFrame
   DEF allButCrash
-------------------------------------------------------------------------------
(* A descriptor and the EndPoint whose fd() it is.                         *)

\* The socket of end e may have been opened.
Opened(e) ==
    opc[e[1]] \notin (IF e[2] = "client" THEN {"idle"} ELSE {"idle", "auth", "connect", "fail"})

\* Whatever is open is known by the number it has, so no socket has two.
FilesOwned == \A fd \in Fds : file[fd] # NoEnd => fd_[file[fd]] = fd /\ Opened(file[fd])

\* FilesOwned holds initially.
LEMMA FilesInit == Init => FilesOwned
BY DEF Init, KernelInit, FilesOwned

\* A step that opens nothing keeps it.
LEMMA FilesKeep ==
    ASSUME TypeInv, FilesOwned, UNCHANGED fd_,
           \A fd \in Fds : file'[fd] = NoEnd \/ (file'[fd] = file[fd] /\ Opened(file[fd])')
    PROVE  FilesOwned'
BY DEF FilesOwned

\* accept() and connect() open a socket that was not open.
LEMMA FilesOpen ==
    ASSUME TypeInv, FilesOwned, NEW s \in Sessions, Accept(s) \/ ConnectTo(s)
    PROVE  FilesOwned'
<1> USE DEF TypeInv, TypeOK
<1>1. PICK e \in Ends :
          /\ OpenSocket(e)
          /\ ~Opened(e) /\ Opened(e)'
          /\ e[1] = s
  BY EndFacts DEF Accept, ConnectTo, Opened, GoTo, OperatorTypeOK
<1>2. PICK fd \in Fds : /\ file[fd] = NoEnd
                        /\ file' = [file EXCEPT ![fd] = e]
                        /\ fd_' = [fd_ EXCEPT ![e] = fd]
  BY <1>1 DEF OpenSocket, LowestFree
<1>3. \A f \in Ends : Opened(f) => Opened(f)'
  BY EndFacts DEF Accept, ConnectTo, Opened, GoTo, OperatorTypeOK
<1>4. ASSUME NEW g \in Fds, file'[g] # NoEnd
      PROVE  fd_'[file'[g]] = g /\ Opened(file[g])'
  <2>1. CASE g = fd
    BY <1>1, <1>2, <2>1 DEF KernelTypeOK, PollThreadTypeOK
  <2>2. CASE g # fd
    <3>1. file'[g] = file[g] /\ file[g] \in Ends
      BY <1>2, <1>4, <2>2 DEF KernelTypeOK
    <3>2. fd_[file[g]] = g /\ Opened(file[g]) /\ file[g] # e
      BY <1>1, <1>4, <3>1 DEF FilesOwned
    <3> QED BY <1>2, <1>3, <3>1, <3>2 DEF PollThreadTypeOK, Opened
  <2> QED BY <2>1, <2>2
<1> QED BY <1>4 DEF FilesOwned

\* RemoteFails closes the only descriptor of the remote end before it is opened
\* again.
LEMMA FilesClose ==
    ASSUME TypeInv, FilesOwned, NEW s \in Sessions, RemoteFails(s) \/ HandshakeFails(s)
    PROVE  FilesOwned'
<1> USE DEF TypeInv, TypeOK
<1>1. UNCHANGED fd_ /\ \A fd \in Fds : file'[fd] = NoEnd \/ file'[fd] = file[fd]
  BY DEF RemoteFails, HandshakeFails, CloseFds
<1>2. ASSUME NEW fd \in Fds, file'[fd] # NoEnd
      PROVE  Opened(file[fd])'
  <2> DEFINE e == file[fd]
  <2>1. e \in Ends /\ Opened(e) /\ fd_[e] = fd /\ file'[fd] = e
    BY <1>1, <1>2 DEF FilesOwned, KernelTypeOK
  <2> HIDE DEF e
  <2>4. PICK p : opc' = [opc EXCEPT ![s] = p] /\ p # "idle"
    BY DEF RemoteFails, HandshakeFails, GoTo
  <2>2. CASE e[1] # s \/ e[2] = "client"
    <3>1. e[1] # s => opc'[e[1]] = opc[e[1]]
      BY <2>1, <2>4, EndFacts DEF OperatorTypeOK
    <3>2. e[1] = s => opc'[e[1]] # "idle"
      BY <2>4 DEF OperatorTypeOK
    <3> QED BY <2>1, <2>2, <3>1, <3>2 DEF Opened, e
  <2>3. CASE e = follower(s)
    <3>1. ~RemoteFails(s)
      BY <2>1, <2>3, <1>2 DEF RemoteFails, CloseFds
    <3> QED BY <2>1, <2>3, <3>1, EndFacts DEF HandshakeFails, Opened
  <2> QED BY <2>1, <2>2, <2>3, EndFacts DEF e
<1>3. \A fd \in Fds : file'[fd] = NoEnd \/ (file'[fd] = file[fd] /\ Opened(file[fd])')
  BY <1>1, <1>2
<1> QED BY <1>1, <1>3, FilesKeep

\* FilesOwned is inductive.
LEMMA FilesNext ==
    ASSUME TypeInv, FilesOwned, [Next]_vars
    PROVE  FilesOwned'
<1> USE DEF TypeInv, TypeOK
<1>1. CASE \E s \in Sessions : Accept(s) \/ ConnectTo(s)
  BY <1>1, FilesOpen
<1>2. CASE \E s \in Sessions : RemoteFails(s) \/ HandshakeFails(s)
  BY <1>2, FilesClose
<1>3. CASE \E s \in Sessions : Authenticate(s) \/ Tie(s) \/ TieSteps(s)
  <2>1. PICK s \in Sessions : Authenticate(s) \/ Tie(s) \/ TieSteps(s)
    BY <1>3
  <2>2. UNCHANGED <<file, fd_>>
    BY <2>1 DEF Authenticate, Tie, TieSteps, AddRef, AddRegister, AddEpoll, Ready
  <2>4. \A e \in Ends : Opened(e) => Opened(e)'
    <3>1. CASE Authenticate(s)
      BY <3>1, EndFacts DEF Authenticate, GoTo, Opened, OperatorTypeOK
    <3>2. CASE Tie(s) \/ TieSteps(s)
      <4>1. opc'[s] \notin Early /\ \A r \in Sessions : r # s => opc'[r] = opc[r]
        BY <3>2 DEF Tie, TieSteps, AddRef, AddRegister, AddEpoll, Ready, GoTo, Early,
                    OperatorTypeOK
      <4> QED BY <4>1, EndFacts DEF Opened, Early
    <3> QED BY <2>1, <3>1, <3>2
  <2> QED BY <2>2, <2>4, FilesKeep DEF FilesOwned, KernelTypeOK
<1>4. CASE \E t \in Shutters : ShutdownStep(t)
  <2>1. UNCHANGED <<fd_, opc>>
    BY <1>4, ShutFrame
  <2>2. \A fd \in Fds : file'[fd] = NoEnd \/ file'[fd] = file[fd]
    BY <1>4 DEF ShutdownStep, ShutClose, ShutRemove, ShutErase, ShutRelease, CloseFds
  <2> QED BY <2>1, <2>2, FilesKeep DEF FilesOwned, Opened
<1>5. CASE PollStep \/ CleanupStep \/ MainStep \/ Environment \/ Failure \/ UNCHANGED vars
  <2>1. UNCHANGED <<file, fd_, opc>>
    BY <1>5, PollFrame, CleanupFrame, MainFrame, EnvironmentFrame, StopFrame DEF allButCrash
  <2> QED BY <2>1 DEF FilesOwned, Opened
<1> QED BY Cases, <1>1, <1>2, <1>3, <1>4, <1>5 DEF Handshake
-------------------------------------------------------------------------------
(* Nobody is enabled before both ends of the session are registered.       *)

ReadyLate == \A e \in Ends : enabled_[e] => opc[e[1]] \in {"ready2", "done"}

\* The two steps of a handler that call update_mode() come after its test.
HandlerReady == ppc \in {"rmode", "wmode"} => enabled_[cur.ptr]

\* No handler of an event begins with update_mode().
LEMMA FirstHandlerIs == \A ev : FirstHandler(ev) \in {"read", "write", "error", "next"}
BY DEF FirstHandler

\* Both hold initially.
LEMMA ReadyInit == Init => ReadyLate /\ HandlerReady
BY DEF Init, ReadyLate, HandlerReady

\* Both are kept.
LEMMA ReadyNext ==
    ASSUME TypeInv, ReadyLate, HandlerReady, [Next]_vars
    PROVE  ReadyLate' /\ HandlerReady'
<1> USE DEF TypeInv, TypeOK
<1>1. CASE \E s \in Sessions : Accept(s) \/ Handshake(s) \/ TieSteps(s)
  <2>1. PICK s \in Sessions : Accept(s) \/ Handshake(s) \/ TieSteps(s)
    BY <1>1
  <2>2. \A r \in Sessions : opc[r] \in {"ready2", "done"} => opc'[r] \in {"ready2", "done"}
    <3>1. CASE Accept(s) \/ Handshake(s)
      BY <3>1 DEF Accept, Handshake, Authenticate, ConnectTo, RemoteFails, HandshakeFails, Tie,
                  GoTo, OperatorTypeOK
    <3>2. CASE TieSteps(s)
      BY <3>2 DEF TieSteps, AddRef, AddRegister, AddEpoll, Ready, GoTo, OperatorTypeOK
    <3> QED BY <2>1, <3>1, <3>2
  <2>3. \A e \in Ends : enabled_[e] => enabled_'[e]
    <3>1. CASE Accept(s) \/ Handshake(s)
      BY <3>1 DEF Accept, Handshake, Authenticate, ConnectTo, RemoteFails, HandshakeFails, Tie
    <3>2. CASE TieSteps(s)
      BY <3>2 DEF TieSteps, AddRef, AddRegister, AddEpoll, Ready, OperatorTypeOK
    <3> QED BY <2>1, <3>1, <3>2
  <2>4. ASSUME NEW e \in Ends, enabled_'[e], ~enabled_[e]
        PROVE  opc'[e[1]] \in {"ready2", "done"}
    <3>1. ~(Accept(s) \/ Handshake(s))
      BY <2>4 DEF Accept, Handshake, Authenticate, ConnectTo, RemoteFails, HandshakeFails, Tie
    <3>3. PICK f \in Ends : AddRef(s, f) \/ AddRegister(s, f) \/ AddEpoll(s, f) \/ Ready(s, f)
      BY <2>1, <3>1 DEF TieSteps
    <3>4. Ready(s, f)
      BY <2>4, <3>3 DEF AddRef, AddRegister, AddEpoll
    <3>5. f = e /\ f \in {leader(s), follower(s)}
      BY <2>4, <3>4 DEF Ready, OperatorTypeOK
    <3>2. Ready(s, e) /\ e[1] = s
      BY <3>4, <3>5, EndFacts
    <3> QED BY <3>2 DEF Ready, GoTo, OperatorTypeOK
  <2>5. ReadyLate'
    BY <2>2, <2>4, EndFacts DEF ReadyLate
  <2>6. UNCHANGED <<ppc, cur>>
    BY <2>1, OperatorFrame
  <2>7. HandlerReady'
    BY <2>3, <2>6 DEF HandlerReady, ControlInv, EventRecords
  <2> QED BY <2>5, <2>7
<1>2. CASE PollStep
  <2>1. UNCHANGED <<opc, enabled_>>
    BY <1>2, PollFrame
  <2> DEFINE Goal == ppc' \in {"rmode", "wmode"} => cur' = cur /\ enabled_[cur.ptr]
  <2>2. HandleRead => Goal
    BY FirstHandlerIs DEF HandleRead, HandlerDone
  <2>3. HandleWrite => Goal
    BY DEF HandleWrite
  <2>4. HandlerNotEnabled \/ HandleReadMode \/ HandleWriteMode \/ HandleError => Goal
    BY FirstHandlerIs DEF HandlerNotEnabled, HandleReadMode, HandleWriteMode, HandleError,
                                HandlerDone
  <2>5. PollNext => Goal
    BY FirstHandlerIs DEF PollNext
  <2>6. PollWait \/ SwapPending \/ (\E e \in Ends : DrainOne(e)) \/ DrainDone \/ PollExit => Goal
    BY DEF PollWait, SwapPending, DrainOne, DrainDone, PollExit
  <2>7. Goal
    BY <1>2, <2>2, <2>3, <2>4, <2>5, <2>6 DEF PollStep
  <2> QED BY <2>1, <2>7 DEF ReadyLate, HandlerReady
<1>3. CASE CleanupStep \/ MainStep \/ Environment \/ Failure \/ UNCHANGED vars
           \/ \E t \in Shutters : ShutdownStep(t)
  <2>1. UNCHANGED <<opc, enabled_, ppc, cur>>
    BY <1>3, CleanupFrame, MainFrame, EnvironmentFrame, StopFrame, ShutFrame DEF allButCrash
  <2> QED BY <2>1 DEF ReadyLate, HandlerReady
<1> QED BY Cases, <1>1, <1>2, <1>3
-------------------------------------------------------------------------------
(* Who can be shut down has been tied.                                     *)

\* The handshake of session s is over and both ends have their descriptors.
Settled(s) ==
    /\ opc[s] \notin Early
    /\ fd_[leader(s)] \in Fds
    /\ fd_[follower(s)] \in Fds

TiedInv ==
    /\ \A s \in all_tie_leaders \cup outlier : Settled(s)
    /\ \A t \in Shutters : sdpc[t] # "idle" => Settled(sds[t])
    /\ \A e \in Ends : enabled_[e] => Settled(e[1])

\* TiedInv holds initially.
LEMMA TiedInit == Init => TiedInv
BY DEF Init, TiedInv

\* A descriptor number is for good once the handshake is over.
LEMMA SettledStays ==
    ASSUME TypeInv, [Next]_vars, NEW s \in Sessions, Settled(s)
    PROVE  Settled(s)'
<1> USE DEF TypeInv, TypeOK
<1>1. CASE \E r \in Sessions : Accept(r) \/ Handshake(r) \/ TieSteps(r)
  <2>1. PICK r \in Sessions : Accept(r) \/ Handshake(r) \/ TieSteps(r)
    BY <1>1
  <2>2. CASE Accept(r) \/ ConnectTo(r)
    <3>1. PICK e \in Ends : OpenSocket(e) /\ e[1] = r
      BY <2>2, EndFacts DEF Accept, ConnectTo
    <3>2. \A f \in Ends : f # e => fd_'[f] = fd_[f]
      BY <3>1, OpenSocketType
    <3>3. r # s /\ opc'[s] = opc[s]
      BY <2>2 DEF Settled, Early, Accept, ConnectTo, GoTo, OperatorTypeOK
    <3> QED BY <3>1, <3>2, <3>3, EndFacts DEF Settled
  <2>3. CASE Authenticate(r) \/ RemoteFails(r) \/ HandshakeFails(r) \/ Tie(r)
    <3>1. UNCHANGED fd_ /\ opc'[s] \notin Early
      BY <2>3 DEF Authenticate, RemoteFails, HandshakeFails, Tie, GoTo, Settled, Early,
                  OperatorTypeOK
    <3> QED BY <3>1 DEF Settled
  <2>4. CASE TieSteps(r)
    <3>1. UNCHANGED fd_ /\ opc'[s] \notin Early
      BY <2>4 DEF TieSteps, AddRef, AddRegister, AddEpoll, Ready, GoTo, Settled, Early,
                  OperatorTypeOK
    <3> QED BY <3>1 DEF Settled
  <2> QED BY <2>1, <2>2, <2>3, <2>4 DEF Handshake
<1>2. CASE ~\E r \in Sessions : Accept(r) \/ Handshake(r) \/ TieSteps(r)
  BY <1>2, OperatorOnly DEF Settled
<1> QED BY <1>1, <1>2

\* TiedInv is inductive.
LEMMA TiedNext ==
    ASSUME TypeInv, TiedInv, [Next]_vars
    PROVE  TiedInv'
<1> USE DEF TypeInv, TypeOK
<1>0. \A s \in Sessions : Settled(s) => Settled(s)'
  BY SettledStays
<1>1. CASE \E s \in Sessions : Accept(s) \/ Handshake(s) \/ TieSteps(s)
  <2>1. PICK s \in Sessions : Accept(s) \/ Handshake(s) \/ TieSteps(s)
    BY <1>1
  <2>2. UNCHANGED <<outlier, sdpc, sds>>
    BY <2>1, OperatorFrame
  <2>3. CASE Accept(s) \/ Authenticate(s) \/ ConnectTo(s) \/ RemoteFails(s) \/ HandshakeFails(s)
             \/ \E e \in Ends : AddRef(s, e) \/ AddRegister(s, e) \/ AddEpoll(s, e)
    <3>1. UNCHANGED <<enabled_, all_tie_leaders>>
      BY <2>3 DEF Accept, Authenticate, ConnectTo, RemoteFails, HandshakeFails, AddRef,
                  AddRegister, AddEpoll
    <3> QED BY <1>0, <2>2, <3>1, EndFacts DEF TiedInv, ControlInv, OperatorTypeOK, MainTypeOK
  <2>4. CASE Tie(s)
    <3>1. UNCHANGED <<enabled_, fd_>> /\ all_tie_leaders' = all_tie_leaders \cup {s}
      BY <2>4 DEF Tie
    <3>2. Settled(s)'
      BY <2>4, <3>1 DEF Tie, GoTo, Settled, Early, FdInv, OperatorTypeOK
    <3> QED BY <1>0, <2>2, <3>1, <3>2, EndFacts DEF TiedInv, ControlInv, OperatorTypeOK, MainTypeOK
  <2>5. ASSUME NEW e \in Ends, Ready(s, e)
        PROVE  TiedInv'
    <3>1. /\ UNCHANGED <<all_tie_leaders, fd_>>
          /\ \A f \in Ends : enabled_'[f] => f = e \/ enabled_[f]
      BY <2>5 DEF Ready, OperatorTypeOK
    <3>2. Settled(s)' /\ e[1] = s
      BY <2>5, <3>1, EndFacts DEF Ready, GoTo, Settled, Early, FdInv, OperatorTypeOK
    <3> QED BY <1>0, <2>2, <3>1, <3>2, EndFacts DEF TiedInv, ControlInv, OperatorTypeOK, MainTypeOK
  <2> QED BY <2>1, <2>3, <2>4, <2>5 DEF Handshake, TieSteps
<1>2. CASE PollStep
  <2>1. UNCHANGED <<outlier, enabled_, all_tie_leaders>>
    BY <1>2, PollFrame
  <2>2. CASE HandleError
    <3>1. cur.ptr \in Ends /\ enabled_[cur.ptr] /\ StartShutdown("poll", cur.ptr[1])
      BY <2>2 DEF HandleError, ControlInv, EventRecords
    <3>2. Settled(cur.ptr[1])
      BY <3>1 DEF TiedInv
    <3>3. \A t \in Shutters : (sdpc'[t] = sdpc[t] /\ sds'[t] = sds[t]) \/ sds'[t] = cur.ptr[1]
      BY <3>1 DEF StartShutdown, PollTypeOK
    <3> QED BY <1>0, <2>1, <3>1, <3>2, <3>3, EndFacts
            DEF TiedInv, ControlInv, OperatorTypeOK, MainTypeOK
  <2>3. CASE ~HandleError
    <3>1. UNCHANGED <<sdpc, sds>>
      BY <1>2, <2>3 DEF PollStep, PollWait, PollNext, HandlerNotEnabled, HandleRead,
                        HandleReadMode, HandleWrite, HandleWriteMode, SwapPending, DrainOne,
                        DrainDone, PollExit
    <3> QED BY <1>0, <2>1, <3>1, EndFacts DEF TiedInv, ControlInv, OperatorTypeOK, MainTypeOK
  <2> QED BY <2>2, <2>3
<1>3. CASE CleanupStep
  <2>1. UNCHANGED <<enabled_, all_tie_leaders>>
    BY <1>3, CleanupFrame
  <2>2. CASE \E s \in Sessions : CleanupShutdown(s)
    <3>1. PICK s \in Sessions : CleanupShutdown(s)
      BY <2>2
    <3>2. /\ s \in outlier /\ outlier' \subseteq outlier
          /\ \A t \in Shutters : (sdpc'[t] = sdpc[t] /\ sds'[t] = sds[t]) \/ sds'[t] = s
      BY <3>1 DEF CleanupShutdown, StartShutdown, PollTypeOK
    <3> QED BY <1>0, <2>1, <3>2, EndFacts DEF TiedInv, ControlInv, OperatorTypeOK, MainTypeOK
  <2>3. CASE ~\E s \in Sessions : CleanupShutdown(s)
    <3>1. UNCHANGED <<sdpc, sds>> /\ outlier' \subseteq outlier \cup all_tie_leaders
      BY <1>3, <2>3 DEF CleanupStep, CleanupQuery, CleanupQueryFails, CleanupScan, CleanupSleep,
                        CleanupExit
    <3> QED BY <1>0, <2>1, <3>1, EndFacts DEF TiedInv, ControlInv, OperatorTypeOK, MainTypeOK
  <2> QED BY <2>2, <2>3
<1>4. CASE \E t \in Shutters : ShutdownStep(t)
  <2>1. PICK t \in Shutters : ShutdownStep(t)
    BY <1>4
  <2>2. UNCHANGED <<enabled_, outlier>>
    BY <2>1, ShutFrame
  <2>3. all_tie_leaders' \subseteq all_tie_leaders
    BY <2>1 DEF ShutdownStep, ShutClose, ShutRemove, ShutErase, ShutRelease
  <2>4. \A u \in Shutters : sdpc'[u] # "idle" => sdpc[u] # "idle" /\ sds'[u] = sds[u]
    <3>1. CASE ShutClose(t) \/ ShutRemove(t) \/ ShutErase(t)
      BY <3>1 DEF ShutClose, ShutRemove, ShutErase, PollTypeOK
    <3>2. CASE ShutRelease(t)
      BY <3>2 DEF ShutRelease, PollTypeOK
    <3> QED BY <2>1, <3>1, <3>2 DEF ShutdownStep
  <2> QED BY <1>0, <2>2, <2>3, <2>4, EndFacts DEF TiedInv, ControlInv, OperatorTypeOK, MainTypeOK
<1>5. CASE MainStep \/ Environment \/ Failure \/ UNCHANGED vars
  <2>1. UNCHANGED <<outlier, all_tie_leaders, sdpc, sds, enabled_>>
    BY <1>5, MainFrame, EnvironmentFrame, StopFrame DEF allButCrash
  <2> QED BY <1>0, <2>1, EndFacts DEF TiedInv, ControlInv, OperatorTypeOK, MainTypeOK
<1> QED BY Cases, <1>1, <1>2, <1>3, <1>4, <1>5

-------------------------------------------------------------------------------
(* Who is in one of the sets of the registry, and in which.                *)

\* The critical section of add() for end e is over.
Inserted(e) ==
    opc[e[1]] \in {"ctl2", "ready1", "ready2", "done"} \cup
                   (IF e[2] = "client" THEN {"ctl1", "ref2", "ins2"} ELSE {})

\* The registry has a pointer to e.
Listed(e) == e \in poll_set_ \cup pending_remove_ \cup removing

\* A Pollable has been added by tie_fd and is in one set at a time.
StageInv ==
    /\ \A e \in Ends : Listed(e) => Inserted(e) /\ Settled(e[1])
    /\ \A e \in Ends : e \in poll_set_ => e \notin pending_remove_ \cup removing
    /\ \A e \in Ends : e \in pending_remove_ => e \notin removing
    /\ ppc # "drain" => removing = {}

\* StageInv holds initially.
LEMMA StageInit == Init => StageInv
BY DEF Init, PollThreadInit, StageInv, Listed

\* Nobody is added twice: a session goes through tie_fd once.
LEMMA InsertedStays ==
    ASSUME TypeInv, [Next]_vars, NEW e \in Ends, Inserted(e)
    PROVE  Inserted(e)'
<1> USE DEF TypeInv, TypeOK
<1>1. e[1] \in Sessions /\ opc[e[1]] \notin Early
  BY EndFacts DEF Inserted, Early
<1>2. CASE \E s \in Sessions : Accept(s) \/ Handshake(s)
  <2>1. opc'[e[1]] = opc[e[1]]
    BY <1>1, <1>2 DEF Accept, Handshake, Authenticate, ConnectTo, RemoteFails, HandshakeFails,
                      Tie, GoTo, OperatorTypeOK, Early
  <2> QED BY <2>1 DEF Inserted
<1>3. CASE \E s \in Sessions : TieSteps(s)
  BY <1>1, <1>3 DEF TieSteps, AddRef, AddRegister, AddEpoll, Ready, GoTo, OperatorTypeOK,
                    Inserted
<1>4. CASE ~\E s \in Sessions : Accept(s) \/ Handshake(s) \/ TieSteps(s)
  BY <1>4, OperatorOnly DEF Inserted
<1> QED BY <1>2, <1>3, <1>4

\* The Pollable that remove() unregisters waits in pending_remove_.
LEMMA RemoveStage ==
    ASSUME TypeInv, StageInv, [Next]_vars, NEW x \in Ends, Remove(x),
           UNCHANGED <<ppc, removing>>
    PROVE  StageInv'
<1>1. \A e \in Ends : Listed(e)' => Listed(e)
  BY DEF Remove, Listed
<1>2. \A e \in Ends : Listed(e)' => Inserted(e)' /\ Settled(e[1])'
  BY <1>1, InsertedStays, SettledStays, EndFacts DEF StageInv
<1>3. CASE x \in poll_set_
  BY <1>2, <1>3 DEF Remove, StageInv
<1>4. CASE x \notin poll_set_
  BY <1>2, <1>4 DEF Remove, StageInv
<1> QED BY <1>3, <1>4

\* A step that adds no Pollable to any of the sets.
LEMMA StageKeeps ==
    ASSUME TypeInv, StageInv, [Next]_vars, UNCHANGED <<poll_set_, pending_remove_>>,
           removing' \subseteq removing, ppc' # "drain" => removing' = {}
    PROVE  StageInv'
<1>1. \A e \in Ends : Listed(e)' => Listed(e)
  BY DEF Listed
<1>2. \A e \in Ends : Listed(e)' => Inserted(e)' /\ Settled(e[1])'
  BY <1>1, InsertedStays, SettledStays, EndFacts DEF StageInv
<1> QED BY <1>2 DEF StageInv

\* add() registers a Pollable that is in none of the sets.
LEMMA RegisterStage ==
    ASSUME TypeInv, StageInv, [Next]_vars, NEW s \in Sessions, NEW x \in Ends, AddRegister(s, x)
    PROVE  ~Listed(x) /\ StageInv'
<1> USE DEF TypeInv, TypeOK
<1>1. ~Listed(x)
  BY EndFacts DEF AddRegister, StageInv, Inserted
<1>2. Inserted(x)'
  BY EndFacts DEF AddRegister, GoTo, Inserted, OperatorTypeOK
<1>3. Settled(s) /\ x[1] = s
  BY EndFacts DEF AddRegister, Settled, Early, FdInv
<1>4. \A e \in Ends : Listed(e)' => Listed(e) \/ e = x
  BY DEF AddRegister, AddInsert, Listed
<1>5. \A e \in Ends : Listed(e)' => Inserted(e)' /\ Settled(e[1])'
  BY <1>2, <1>3, <1>4, InsertedStays, SettledStays, EndFacts DEF StageInv
<1> QED BY <1>1, <1>5 DEF AddRegister, AddInsert, StageInv, Listed

\* StageInv is inductive.
LEMMA StageNext ==
    ASSUME TypeInv, StageInv, [Next]_vars
    PROVE  StageInv'
<1> USE DEF TypeInv, TypeOK
<1>1. CASE \E s \in Sessions : Accept(s) \/ Handshake(s)
  <2>1. UNCHANGED <<poll_set_, pending_remove_, removing, ppc>>
    BY <1>1 DEF Accept, Handshake, Authenticate, ConnectTo, RemoteFails, HandshakeFails, Tie
  <2> QED BY <2>1, StageKeeps DEF StageInv
<1>2. CASE \E s \in Sessions : TieSteps(s)
  <2>1. PICK s \in Sessions, e \in Ends :
            AddRef(s, e) \/ AddRegister(s, e) \/ AddEpoll(s, e) \/ Ready(s, e)
    BY <1>2 DEF TieSteps
  <2>2. CASE AddRegister(s, e)
    BY <2>2, RegisterStage
  <2>3. CASE ~AddRegister(s, e)
    <3>1. UNCHANGED <<poll_set_, pending_remove_, removing, ppc>>
      BY <2>1, <2>3 DEF AddRef, AddEpoll, Ready
    <3> QED BY <3>1, StageKeeps DEF StageInv
  <2> QED BY <2>2, <2>3
<1>3. CASE PollStep
  <2>1. CASE SwapPending
    <3>1. /\ UNCHANGED poll_set_ /\ removing' = pending_remove_ /\ pending_remove_' = {}
          /\ ppc' = "drain"
      BY <2>1 DEF SwapPending
    <3>2. \A e \in Ends : Listed(e)' => Listed(e)
      BY <3>1 DEF Listed
    <3>3. \A e \in Ends : Listed(e)' => Inserted(e)' /\ Settled(e[1])'
      BY <3>2, InsertedStays, SettledStays, EndFacts DEF StageInv
    <3> QED BY <3>1, <3>3 DEF StageInv
  <2>2. CASE ~SwapPending
    <3>1. CASE PollWait \/ PollNext \/ HandlerNotEnabled \/ HandleRead \/ HandleReadMode
                 \/ HandleWrite \/ HandleWriteMode \/ HandleError \/ PollExit
      <4>1. UNCHANGED <<poll_set_, pending_remove_, removing>> /\ ppc # "drain"
        BY <3>1 DEF PollWait, PollNext, HandlerNotEnabled, HandleRead, HandleReadMode,
                    HandleWrite, HandleWriteMode, HandleError, PollExit, UpdateMode
      <4> QED BY <4>1, StageKeeps DEF StageInv
    <3>2. CASE (\E e \in Ends : DrainOne(e)) \/ DrainDone
      <4>1. /\ UNCHANGED <<poll_set_, pending_remove_>> /\ removing' \subseteq removing
            /\ ppc' # "drain" => removing' = {}
        BY <3>2 DEF DrainOne, DrainDone
      <4> QED BY <4>1, StageKeeps
    <3> QED BY <1>3, <2>2, <3>1, <3>2 DEF PollStep
  <2> QED BY <2>1, <2>2
<1>4. CASE \E t \in Shutters : ShutdownStep(t)
  <2>1. PICK t \in Shutters : ShutdownStep(t)
    BY <1>4
  <2>2. CASE ShutRemove(t)
    <3>1. ShutEnd(t) \in Ends /\ Remove(ShutEnd(t)) /\ UNCHANGED <<ppc, removing>>
      BY <2>2, ShutEndType DEF ShutRemove
    <3> QED BY <3>1, RemoveStage
  <2>3. CASE ShutClose(t) \/ ShutErase(t) \/ ShutRelease(t)
    <3>1. UNCHANGED <<poll_set_, pending_remove_, removing, ppc>>
      BY <2>3 DEF ShutClose, ShutErase, ShutRelease
    <3> QED BY <3>1, StageKeeps DEF StageInv
  <2> QED BY <2>1, <2>2, <2>3 DEF ShutdownStep
<1>5. CASE MainStep
  <2>1. CASE \E e \in Ends : DtorRemove(e)
    BY <2>1, RemoveStage DEF DtorRemove
  <2>2. CASE MainJoins \/ DtorCopy \/ DtorStop \/ MainDone
    <3>1. UNCHANGED <<poll_set_, pending_remove_, removing, ppc>>
      BY <2>2 DEF MainJoins, DtorCopy, DtorStop, MainDone
    <3> QED BY <3>1, StageKeeps DEF StageInv
  <2> QED BY <1>5, <2>1, <2>2 DEF MainStep
<1>6. CASE CleanupStep \/ Environment \/ Failure \/ UNCHANGED vars
  <2>1. UNCHANGED <<poll_set_, pending_remove_, removing, ppc>>
    BY <1>6, CleanupFrame, EnvironmentFrame, StopFrame DEF allButCrash
  <2> QED BY <2>1, StageKeeps DEF StageInv
<1> QED BY Cases, <1>1, <1>2, <1>3, <1>4, <1>5, <1>6

-------------------------------------------------------------------------------
(* The registration of a socket.                                           *)

\* One end of RegistrationIntact.
Intact(e) == Added(e) /\ file[fd_[e]] = e => eptr[e] = e /\ emask[e] = mode_[fd_[e]]

\* Until add() has called epoll_ctl, mode_ has what it will call it with.
Plain(e) == ~Added(e) => mode_[fd_[e]] = RW

IntactInv ==
    /\ RegistryInv
    /\ FilesOwned
    /\ ReadyLate
    /\ HandlerReady
    /\ TiedInv
    /\ StageInv
    /\ \A e \in poll_set_ : Intact(e) /\ Plain(e)

\* Registered Pollables have descriptors, no two the same, with entries.
LEMMA EntryFacts ==
    ASSUME IntactInv
    PROVE  /\ \A e \in poll_set_ : e \in Ends /\ fd_[e] \in Fds /\ mode_[fd_[e]] # Absent
           /\ \A e, f \in poll_set_ : fd_[e] = fd_[f] => e = f
           /\ \A e \in poll_set_ : opc[e[1]] \notin Early
           /\ \A fd \in Fds, e \in Ends : file[fd] = e => fd_[e] = fd
BY EndFacts DEF IntactInv, RegistryInv, ModeMatchesPollSet, RegisteredLate, TypeInv, TypeOK,
                PollThreadTypeOK, FdInv, FilesOwned

\* A step that leaves the entries of a Pollable alone, or closes its socket.
LEMMA EntryStays ==
    ASSUME IntactInv, NEW e \in poll_set_,
           fd_'[e] = fd_[e], mode_'[fd_[e]] = mode_[fd_[e]],
           Added(e)' <=> Added(e),
           file'[fd_[e]] = e =>
               file[fd_[e]] = e /\ eptr'[e] = eptr[e] /\ emask'[e] = emask[e]
    PROVE  Intact(e)' /\ Plain(e)'
BY DEF IntactInv, Intact, Plain

\* The entries of all.
LEMMA EntriesStay ==
    ASSUME IntactInv, UNCHANGED <<poll_set_, mode_, fd_, file, eptr, emask, opc>>
    PROVE  \A e \in poll_set_' : Intact(e)' /\ Plain(e)'
BY DEF IntactInv, Intact, Plain, Added

\* close() takes an entry away only from the socket it closes.
LEMMA CloseKeeps ==
    ASSUME IntactInv, NEW fd \in Fds, CloseFds({fd}), UNCHANGED <<poll_set_, mode_, fd_>>,
           \A e \in poll_set_ : opc'[e[1]] = opc[e[1]]
    PROVE  \A e \in poll_set_' : Intact(e)' /\ Plain(e)'
<1> SUFFICES ASSUME NEW e \in poll_set_ PROVE Intact(e)' /\ Plain(e)'
  OBVIOUS
<1>1. e \in Ends /\ fd_[e] \in Fds
  BY EntryFacts
<1>2. ASSUME file'[fd_[e]] = e
      PROVE  file[fd_[e]] = e /\ eptr'[e] = eptr[e] /\ emask'[e] = emask[e]
  <2>1. fd_[e] # fd /\ file[fd_[e]] = e
    BY <1>1, <1>2, EndFacts DEF CloseFds
  <2>2. file[fd] # e
    BY <1>1, <2>1, EntryFacts
  <2> QED BY <1>1, <2>1, <2>2 DEF CloseFds
<1>3. Added(e)' <=> Added(e)
  BY DEF Added
<1> QED BY <1>2, <1>3, EntryStays
\* The handshake: it gives out numbers that are free, and closes its own.
LEMMA HandshakeIntact ==
    ASSUME IntactInv, NEW s \in Sessions, Accept(s) \/ Handshake(s)
    PROVE  \A e \in poll_set_' : Intact(e)' /\ Plain(e)'
<1> USE DEF IntactInv, RegistryInv, TypeInv, TypeOK
<1>1. UNCHANGED <<poll_set_, mode_>> /\ opc[s] \in Early
  BY DEF Accept, Handshake, Authenticate, ConnectTo, RemoteFails, HandshakeFails, Tie, Early
<1>2. \A e \in poll_set_ : e[1] # s /\ opc'[e[1]] = opc[e[1]]
  <2>1. \A r \in Sessions : r # s => opc'[r] = opc[r]
    BY DEF Accept, Handshake, Authenticate, ConnectTo, RemoteFails, HandshakeFails, Tie, GoTo,
           OperatorTypeOK
  <2> QED BY <1>1, <2>1, EntryFacts, EndFacts
<1>3. \A e \in poll_set_ : Added(e)' <=> Added(e)
  BY <1>2 DEF Added
<1>4. CASE Accept(s) \/ ConnectTo(s)
  <2>1. UNCHANGED <<eptr, emask>>
    BY <1>4 DEF Accept, ConnectTo
  <2>2. PICK x \in Ends : OpenSocket(x) /\ x[1] = s
    BY <1>4, EndFacts DEF Accept, ConnectTo
  <2>3. PICK fd \in Fds : file[fd] = NoEnd /\ file' = [file EXCEPT ![fd] = x]
                          /\ fd_' = [fd_ EXCEPT ![x] = fd]
    BY <2>2 DEF OpenSocket, LowestFree
  <2>4. ASSUME NEW e \in poll_set_
        PROVE  fd_'[e] = fd_[e] /\ (file'[fd_[e]] = e => file[fd_[e]] = e)
    <3>1. e \in Ends /\ e # x /\ fd_[e] \in Fds
      BY <1>2, <2>2, EntryFacts
    <3> QED BY <2>3, <3>1 DEF KernelTypeOK, PollThreadTypeOK
  <2> QED BY <1>1, <1>3, <2>1, <2>4, EntryStays
<1>5. CASE RemoteFails(s) \/ HandshakeFails(s)
  <2>1. PICK e \in {leader(s), follower(s)} : CloseFds({fd_[e]}) /\ fd_[e] \in Fds
    BY <1>5 DEF RemoteFails, HandshakeFails, FdInv
  <2>2. UNCHANGED fd_
    BY <1>5 DEF RemoteFails, HandshakeFails
  <2> QED BY <1>1, <1>2, <2>1, <2>2, CloseKeeps
<1>6. CASE Authenticate(s) \/ Tie(s)
  <2>1. UNCHANGED <<eptr, emask, file, fd_>>
    BY <1>6 DEF Authenticate, Tie
  <2> QED BY <1>1, <1>3, <2>1, EntryStays
<1> QED BY <1>4, <1>5, <1>6 DEF Handshake

\* In tie_fd, who is registered stays as it is until its own epoll_ctl.
LEMMA AddedStays ==
    ASSUME IntactInv, NEW s \in Sessions, NEW x \in Ends,
           AddRef(s, x) \/ AddRegister(s, x) \/ AddEpoll(s, x) \/ Ready(s, x)
    PROVE  \A e \in Ends : (AddEpoll(s, x) /\ e = x) \/ (Added(e)' <=> Added(e))
<1> USE DEF IntactInv, RegistryInv, TypeInv, TypeOK
<1>1. \A r \in Sessions : r # s => opc'[r] = opc[r]
  BY DEF AddRef, AddRegister, AddEpoll, Ready, GoTo, OperatorTypeOK
<1>2. \A e \in Ends : e[1] # s => (Added(e)' <=> Added(e))
  BY <1>1, EndFacts DEF Added
<1>3. CASE AddRef(s, x) \/ AddRegister(s, x) \/ Ready(s, x)
  <2>1. /\ opc'[s] \in {"ready1", "ready2", "done"} <=> opc[s] \in {"ready1", "ready2", "done"}
        /\ opc'[s] \in {"ref2", "ins2", "ctl2"} <=> opc[s] \in {"ref2", "ins2", "ctl2"}
    BY <1>3 DEF AddRef, AddRegister, Ready, GoTo, OperatorTypeOK
  <2> QED BY <1>2, <2>1 DEF Added
<1>4. CASE AddEpoll(s, x)
  <2>1. \/ x = leader(s) /\ opc[s] = "ctl1" /\ opc'[s] = "ref2"
        \/ x = follower(s) /\ opc[s] = "ctl2" /\ opc'[s] = "ready1"
    BY <1>4 DEF AddEpoll, GoTo, OperatorTypeOK
  <2> QED BY <1>2, <1>4, <2>1, EndFacts DEF Added
<1> QED BY <1>3, <1>4

\* add(), critical section: the number of a new entry is that of no other.
LEMMA RegisterIntact ==
    ASSUME IntactInv, NEW s \in Sessions, NEW x \in Ends, AddRegister(s, x)
    PROVE  \A e \in poll_set_' : Intact(e)' /\ Plain(e)'
<1> USE DEF IntactInv, RegistryInv, TypeInv, TypeOK
<1>1. /\ fd_[x] \in Fds /\ mode_[fd_[x]] = Absent
      /\ poll_set_' = poll_set_ \cup {x}
      /\ mode_' = [mode_ EXCEPT ![fd_[x]] = RW]
      /\ UNCHANGED <<fd_, file, eptr, emask>>
  BY EndFacts DEF AddRegister, AddVerify, AddInsert, FdInv
<1>2. \A e \in Ends : Added(e)' <=> Added(e)
  BY AddedStays DEF AddRegister, AddEpoll
<1>3. ~Added(x)
  BY EndFacts DEF AddRegister, Added
<1>4. Intact(x)' /\ Plain(x)'
  BY <1>1, <1>2, <1>3 DEF Intact, Plain, PollThreadTypeOK
<1>5. ASSUME NEW e \in poll_set_
      PROVE  Intact(e)' /\ Plain(e)'
  <2>1. fd_[e] # fd_[x] /\ fd_[e] \in Fds /\ e \in Ends
    BY <1>1, EntryFacts
  <2>2. mode_'[fd_[e]] = mode_[fd_[e]]
    BY <1>1, <2>1 DEF PollThreadTypeOK
  <2> QED BY <1>1, <1>2, <2>1, <2>2, EntryStays
<1> QED BY <1>1, <1>4, <1>5

\* add(), epoll_ctl: it would fail on the socket of another Pollable.
LEMMA EpollIntact ==
    ASSUME IntactInv, NEW s \in Sessions, NEW x \in Ends, AddEpoll(s, x)
    PROVE  \A e \in poll_set_' : Intact(e)' /\ Plain(e)'
<1> USE DEF IntactInv, RegistryInv, TypeInv, TypeOK
<1>1. /\ EpollSet(fd_[x], x, RW) /\ eptr[file[fd_[x]]] = NoEnd
      /\ UNCHANGED <<poll_set_, mode_, fd_, file>>
      /\ fd_[x] \in Fds
  BY DEF AddEpoll, AddCtl, EpollAddOK, FdInv
<1>2. ASSUME NEW e \in poll_set_, e # x
      PROVE  Intact(e)' /\ Plain(e)'
  <2>1. e \in Ends /\ (Added(e)' <=> Added(e))
    BY <1>2, AddedStays, EntryFacts
  <2>2. CASE Added(e) /\ file[fd_[e]] = e
    <3>1. eptr[e] = e
      BY <1>2, <2>2 DEF Intact
    <3>2. file[fd_[x]] # e
      BY <1>1, <2>1, <3>1, EndFacts
    <3>3. eptr'[e] = eptr[e] /\ emask'[e] = emask[e]
      BY <1>1, <2>1, <3>2 DEF EpollSet
    <3> QED BY <1>1, <1>2, <2>1, <3>3, EntryStays
  <2>3. CASE ~(Added(e) /\ file[fd_[e]] = e)
    BY <1>1, <1>2, <2>1, <2>3 DEF Intact, Plain
  <2> QED BY <2>2, <2>3
<1>3. ASSUME x \in poll_set_
      PROVE  Intact(x)' /\ Plain(x)'
  <2>1. ~Added(x) /\ Added(x)'
    BY EndFacts DEF AddEpoll, Added, GoTo, OperatorTypeOK
  <2>2. mode_[fd_[x]] = RW
    BY <1>3, <2>1 DEF Plain
  <2>3. file[fd_[x]] = x => eptr'[x] = x /\ emask'[x] = RW
    BY <1>1 DEF EpollSet
  <2> QED BY <1>1, <2>1, <2>2, <2>3 DEF Intact, Plain
<1> QED BY <1>1, <1>2, <1>3

\* remove() takes the number of no other Pollable.
LEMMA RemoveIntact ==
    ASSUME IntactInv, NEW x \in Ends, Remove(x), UNCHANGED <<fd_, file, eptr, emask, opc>>
    PROVE  \A e \in poll_set_' : Intact(e)' /\ Plain(e)'
<1> USE DEF IntactInv, RegistryInv, TypeInv, TypeOK
<1>1. CASE x \notin poll_set_
  BY <1>1, EntriesStay DEF Remove
<1>2. CASE x \in poll_set_
  <2>1. poll_set_' = poll_set_ \ {x} /\ mode_' = [mode_ EXCEPT ![fd_[x]] = Absent]
    BY <1>2 DEF Remove
  <2>2. ASSUME NEW e \in poll_set_, e # x
        PROVE  Intact(e)' /\ Plain(e)'
    <3>1. fd_[e] # fd_[x] /\ fd_[e] \in Fds /\ e \in Ends
      BY <1>2, <2>2, EntryFacts
    <3>2. mode_'[fd_[e]] = mode_[fd_[e]] /\ (Added(e)' <=> Added(e))
      BY <2>1, <3>1 DEF PollThreadTypeOK, Added
    <3> QED BY <3>1, <3>2, EntryStays
  <2> QED BY <2>1, <2>2
<1> QED BY <1>1, <1>2

\* update_mode() tells epoll and mode_ the same.
LEMMA UpdateIntact ==
    ASSUME IntactInv, NEW x \in Ends, NEW m \in {R, RW}, UpdateMode(x, m), Added(x),
           UNCHANGED <<fd_, file, opc>>
    PROVE  \A e \in poll_set_' : Intact(e)' /\ Plain(e)'
<1> USE DEF IntactInv, RegistryInv, TypeInv, TypeOK
<1>1. CASE ~ChangesMode(x, m)
  BY <1>1, EntriesStay DEF UpdateMode
<1>2. CASE ChangesMode(x, m)
  <2>1. /\ x \in poll_set_ /\ UNCHANGED poll_set_
        /\ mode_' = [mode_ EXCEPT ![fd_[x]] = m]
        /\ EpollSet(fd_[x], x, m)
    BY <1>2 DEF UpdateMode, ChangesMode
  <2>2. ASSUME NEW e \in poll_set_, e # x
        PROVE  Intact(e)' /\ Plain(e)'
    <3>1. fd_[e] # fd_[x] /\ fd_[e] \in Fds /\ fd_[x] \in Fds /\ e \in Ends
      BY <2>1, <2>2, EntryFacts
    <3>2. file[fd_[x]] # e
      BY <3>1, EntryFacts
    <3>3. mode_'[fd_[e]] = mode_[fd_[e]] /\ (Added(e)' <=> Added(e))
      BY <2>1, <3>1 DEF PollThreadTypeOK, Added
    <3>4. eptr'[e] = eptr[e] /\ emask'[e] = emask[e]
      BY <2>1, <3>1, <3>2 DEF EpollSet
    <3> QED BY <3>1, <3>3, <3>4, EntryStays
  <2>3. Intact(x)' /\ Plain(x)'
    <3>1. mode_'[fd_[x]] = m /\ Added(x)'
      BY <2>1, EntryFacts DEF PollThreadTypeOK, Added
    <3>2. file[fd_[x]] = x => eptr'[x] = x /\ emask'[x] = m
      BY <2>1 DEF EpollSet
    <3> QED BY <3>1, <3>2 DEF Intact, Plain
  <2> QED BY <2>1, <2>2, <2>3
<1> QED BY <1>1, <1>2

\* The late EPOLL_CTL_DEL spares a descriptor that is registered again.
LEMMA DrainIntact ==
    ASSUME IntactInv, NEW x \in Ends, DrainOne(x)
    PROVE  \A e \in poll_set_' : Intact(e)' /\ Plain(e)'
<1> USE DEF IntactInv, RegistryInv, TypeInv, TypeOK
<1>0. fd_[x] \in Fds
  BY EndFacts DEF DrainOne, StageInv, Listed, Settled
<1>1. UNCHANGED <<poll_set_, mode_, fd_, file, opc>>
  BY DEF DrainOne
<1>2. CASE UNCHANGED epollVars
  BY <1>1, <1>2, EntriesStay
<1>3. CASE mode_[fd_[x]] = Absent /\ EpollDel(fd_[x])
  <2>1. ASSUME NEW e \in poll_set_
        PROVE  Intact(e)' /\ Plain(e)'
    <3>1. fd_[e] # fd_[x] /\ fd_[e] \in Fds /\ e \in Ends
      BY <1>3, EntryFacts
    <3>2. file'[fd_[e]] = e => eptr'[e] = eptr[e] /\ emask'[e] = emask[e]
      <4>1. CASE file[fd_[x]] = e
        BY <1>0, <1>3, <3>1, <4>1, EntryFacts
      <4>2. CASE file[fd_[x]] # e
        BY <1>3, <3>1, <4>2 DEF EpollDel
      <4> QED BY <4>1, <4>2
    <3>3. Added(e)' <=> Added(e)
      BY <1>1 DEF Added
    <3> QED BY <1>1, <3>1, <3>2, <3>3, EntryStays
  <2> QED BY <1>1, <2>1
<1> QED BY <1>2, <1>3 DEF DrainOne, ForgetFd

\* IntactInv holds initially.
LEMMA IntactInit == Init => IntactInv
<1> SUFFICES ASSUME Init PROVE IntactInv
  OBVIOUS
<1>1. poll_set_ = {}
  BY DEF Init, PollThreadInit
<1> QED BY <1>1, RegistryInit, FilesInit, ReadyInit, TiedInit, StageInit DEF IntactInv

\* tie_fd.
LEMMA TieIntact ==
    ASSUME IntactInv, NEW s \in Sessions, TieSteps(s)
    PROVE  \A e \in poll_set_' : Intact(e)' /\ Plain(e)'
<1>1. PICK x \in Ends : AddRef(s, x) \/ AddRegister(s, x) \/ AddEpoll(s, x) \/ Ready(s, x)
  BY DEF TieSteps
<1>2. CASE AddRef(s, x) \/ Ready(s, x)
  <2>1. UNCHANGED <<poll_set_, mode_, fd_, file, eptr, emask>>
    BY <1>2 DEF AddRef, Ready
  <2>2. \A e \in poll_set_ : Added(e)' <=> Added(e)
    <3>1. ~AddEpoll(s, x)
      BY <1>2 DEF AddRef, Ready, AddEpoll
    <3> QED BY <1>1, <3>1, AddedStays, EntryFacts
  <2> QED BY <2>1, <2>2, EntryStays
<1> QED BY <1>1, <1>2, RegisterIntact, EpollIntact

\* The poll thread.
LEMMA PollIntact ==
    ASSUME IntactInv, PollStep
    PROVE  \A e \in poll_set_' : Intact(e)' /\ Plain(e)'
<1>1. UNCHANGED <<file, poll_set_, fd_, opc>>
  BY PollFrame
<1>2. CASE HandleReadMode \/ HandleWriteMode
  <2>1. cur.ptr \in Ends /\ enabled_[cur.ptr]
    BY <1>2 DEF HandleReadMode, HandleWriteMode, IntactInv, HandlerReady, RegistryInv, TypeInv,
                ControlInv, EventRecords
  <2>2. opc[cur.ptr[1]] \in {"ready2", "done"}
    BY <2>1 DEF IntactInv, ReadyLate
  <2>3. Added(cur.ptr) /\ Added(peer_(cur.ptr)) /\ peer_(cur.ptr) \in Ends
    BY <2>1, <2>2, EndFacts DEF Added
  <2>4. ModeAfterWrite(cur.ptr) \in {R, RW}
    BY DEF ModeAfterWrite
  <2>5. UpdateMode(peer_(cur.ptr), RW) \/ UpdateMode(cur.ptr, ModeAfterWrite(cur.ptr))
    BY <1>2 DEF HandleReadMode, HandleWriteMode
  <2> QED BY <1>1, <2>1, <2>3, <2>4, <2>5, UpdateIntact
<1>3. CASE \E e \in Ends : DrainOne(e)
  BY <1>3, DrainIntact
<1>4. CASE ~(HandleReadMode \/ HandleWriteMode \/ \E e \in Ends : DrainOne(e))
  <2>1. UNCHANGED <<mode_, eptr, emask>>
    BY <1>4 DEF PollStep, PollWait, PollNext, HandlerNotEnabled, HandleRead, HandleWrite,
                HandleError, SwapPending, DrainDone, PollExit
  <2> QED BY <1>1, <2>1, EntriesStay
<1> QED BY <1>2, <1>3, <1>4

\* shutdown().
LEMMA ShutIntact ==
    ASSUME IntactInv, NEW t \in Shutters, ShutdownStep(t)
    PROVE  \A e \in poll_set_' : Intact(e)' /\ Plain(e)'
<1>1. UNCHANGED <<fd_, opc>>
  BY ShutFrame
<1>2. CASE ShutClose(t)
  <2>1. fd_[ShutEnd(t)] \in Fds
    BY <1>2 DEF ShutClose, ShutEnd, IntactInv, TiedInv, Settled
  <2> QED BY <1>1, <1>2, <2>1, CloseKeeps DEF ShutClose
<1>3. CASE ShutRemove(t)
  <2>1. ShutEnd(t) \in Ends
    BY <1>3, ShutEndType DEF ShutRemove, IntactInv, RegistryInv, TypeInv
  <2> QED BY <1>1, <1>3, <2>1, RemoveIntact DEF ShutRemove
<1>4. CASE ShutErase(t) \/ ShutRelease(t)
  BY <1>1, <1>4, EntriesStay DEF ShutErase, ShutRelease
<1> QED BY <1>2, <1>3, <1>4 DEF ShutdownStep

\* IntactInv is inductive.
LEMMA IntactNext == IntactInv /\ [Next]_vars => IntactInv'
<1> SUFFICES ASSUME IntactInv, [Next]_vars PROVE IntactInv'
  OBVIOUS
<1>1. RegistryInv'
  BY RegistryNext DEF IntactInv
<1>2. FilesOwned' /\ ReadyLate' /\ HandlerReady'
  BY FilesNext, ReadyNext DEF IntactInv, RegistryInv
<1>3. TiedInv' /\ StageInv'
  BY TiedNext, StageNext DEF IntactInv, RegistryInv
<1>4. \A e \in poll_set_' : Intact(e)' /\ Plain(e)'
  <2>1. CASE \E s \in Sessions : Accept(s) \/ Handshake(s) \/ TieSteps(s)
    BY <2>1, HandshakeIntact, TieIntact
  <2>2. CASE PollStep
    BY <2>2, PollIntact
  <2>3. CASE \E t \in Shutters : ShutdownStep(t)
    BY <2>3, ShutIntact
  <2>4. CASE MainStep
    <3>1. UNCHANGED <<kernelVars, fd_, opc>>
      BY <2>4, MainFrame
    <3>2. CASE \E e \in Ends : DtorRemove(e)
      BY <3>1, <3>2, RemoveIntact DEF DtorRemove
    <3>3. CASE ~\E e \in Ends : DtorRemove(e)
      BY <2>4, <3>1, <3>3, EntriesStay DEF MainStep, MainJoins, DtorCopy, DtorStop, MainDone
    <3> QED BY <3>2, <3>3
  <2>5. CASE CleanupStep \/ Environment \/ Failure \/ UNCHANGED vars
    <3>1. UNCHANGED <<poll_set_, mode_, fd_, file, eptr, emask, opc>>
      BY <2>5, CleanupFrame, EnvironmentFrame, StopFrame DEF allButCrash
    <3> QED BY <3>1, EntriesStay
  <2> QED BY Cases, <2>1, <2>2, <2>3, <2>4, <2>5
<1> QED BY <1>1, <1>2, <1>3, <1>4 DEF IntactInv

\* Epoll always has the registration of every Pollable whose socket is open:
\* closing, reusing a descriptor number and the deferred EPOLL_CTL_DEL of the
\* poll loop never take it away, and mode_ says what epoll was told.
THEOREM RegistrationKept == Spec => []RegistrationIntact
<1>1. IntactInv => RegistrationIntact
  BY DEF IntactInv, Intact, RegistrationIntact
<1> QED BY <1>1, IntactInit, IntactNext, PTL DEF Spec

-------------------------------------------------------------------------------
(* The references to a leader.                                             *)

\* ~PollThread runs after the pool's threads have ended, so nothing is added
\* after its copy of poll_set_, and stop_flag_ finds poll_set_ empty.
StopInv ==
    /\ mpc \in {"copy", "remove", "join_poll", "done"} =>
           \A s \in Sessions : opc[s] \in {"idle", "done"}
    /\ mpc = "remove" => poll_set_ \subseteq dtor
    /\ stop_flag_ => mpc \in {"join_poll", "done"}
    /\ stop_flag_ => poll_set_ = {}

\* StopInv is inductive.
LEMMA StopNext ==
    ASSUME TypeInv, StopInv, [Next]_vars
    PROVE  StopInv'
<1> USE DEF TypeInv, TypeOK
<1>1. CASE \E s \in Sessions : Accept(s) \/ Handshake(s) \/ TieSteps(s)
  <2>1. PICK s \in Sessions : Accept(s) \/ Handshake(s) \/ TieSteps(s)
    BY <1>1
  <2>2. mpc = "run" \/ opc[s] \notin {"idle", "done"}
    BY <2>1 DEF Accept, Handshake, Authenticate, ConnectTo, RemoteFails, HandshakeFails, Tie,
                TieSteps, AddRef, AddRegister, AddEpoll, Ready
  <2>3. UNCHANGED <<mpc, stop_flag_>>
    BY <2>1, OperatorFrame
  <2> QED BY <2>2, <2>3 DEF StopInv
<1>2. CASE PollStep \/ CleanupStep \/ Environment \/ Failure \/ UNCHANGED vars
           \/ \E t \in Shutters : ShutdownStep(t)
  <2>1. UNCHANGED <<opc, mpc, dtor, stop_flag_>>
    BY <1>2, PollFrame, CleanupFrame, EnvironmentFrame, StopFrame, ShutFrame DEF allButCrash
  <2>2. poll_set_' \subseteq poll_set_
    <3>1. CASE \E t \in Shutters : ShutdownStep(t)
      BY <3>1 DEF ShutdownStep, ShutClose, ShutRemove, ShutErase, ShutRelease, Remove
    <3>2. CASE ~\E t \in Shutters : ShutdownStep(t)
      BY <1>2, <3>2, PollFrame, CleanupFrame, EnvironmentFrame, StopFrame DEF allButCrash
    <3> QED BY <3>1, <3>2
  <2> QED BY <2>1, <2>2 DEF StopInv
<1>3. CASE MainStep
  <2>1. UNCHANGED opc
    BY <1>3, MainFrame
  <2>2. CASE MainJoins
    BY <2>1, <2>2 DEF MainJoins, StopInv
  <2>3. CASE DtorCopy
    BY <2>1, <2>3 DEF DtorCopy, StopInv
  <2>4. CASE \E e \in Ends : DtorRemove(e)
    BY <2>1, <2>4 DEF DtorRemove, Remove, StopInv
  <2>5. CASE DtorStop
    BY <2>1, <2>5 DEF DtorStop, StopInv
  <2>6. CASE MainDone
    BY <2>1, <2>6 DEF MainDone, StopInv
  <2> QED BY <1>3, <2>2, <2>3, <2>4, <2>5, <2>6 DEF MainStep
<1> QED BY Cases, <1>1, <1>2, <1>3

\* add() has taken the registry's reference and not yet used it.
Taken(e) == opc[e[1]] = (IF e[2] = "client" THEN "ins1" ELSE "ins2")

\* The references to e that the registry owns.
RegistryRefs(e) == IF Taken(e) \/ Listed(e) THEN 1 ELSE 0

\* A leader in all_tie_leaders has its own reference and the registry's: the
\* release() of shutdown() comes after the erase.
LeaderInv ==
    /\ \A s \in all_tie_leaders :
           refcnt_[leader(s)] = 1 + RegistryRefs(leader(s)) /\ leader(s) \notin freed
    /\ \A t \in Shutters : sdpc[t] = "release1" => sds[t] \notin all_tie_leaders
    /\ \A e \in freed : Settled(e[1])

CountInv == TypeInv /\ TiedInv /\ StageInv /\ StopInv /\ LeaderInv

\* CountInv holds initially.
LEMMA CountInit == Init => CountInv
<1> SUFFICES ASSUME Init PROVE CountInv
  OBVIOUS
<1>1. StopInv /\ LeaderInv
  BY DEF Init, PollThreadInit, StopInv, LeaderInv
<1> QED BY <1>1, TypeInit, TiedInit, StageInit DEF CountInv

\* A step that gives the registry no reference to a leader and takes none.
LEMMA LeaderKeeps ==
    ASSUME CountInv, [Next]_vars, all_tie_leaders' \subseteq all_tie_leaders,
           \A s \in all_tie_leaders :
               /\ refcnt_'[leader(s)] = refcnt_[leader(s)]
               /\ Taken(leader(s))' <=> Taken(leader(s))
               /\ Listed(leader(s))' <=> Listed(leader(s))
               /\ leader(s) \in freed' => leader(s) \in freed,
           \A t \in Shutters : sdpc'[t] = "release1" =>
               \/ sdpc[t] = "release1" /\ sds'[t] = sds[t]
               \/ sds'[t] \notin all_tie_leaders',
           \A e \in freed' : e \in freed \/ (e \in Ends /\ Settled(e[1]))
    PROVE  LeaderInv'
<1> USE DEF CountInv, TypeInv, TypeOK
<1>1. \A s \in all_tie_leaders' :
          refcnt_'[leader(s)] = 1 + RegistryRefs(leader(s))' /\ leader(s) \notin freed'
  BY DEF LeaderInv, RegistryRefs
<1>2. \A t \in Shutters : sdpc'[t] = "release1" => sds'[t] \notin all_tie_leaders'
  BY DEF LeaderInv
<1>3. \A e \in freed' : Settled(e[1])'
  <2> SUFFICES ASSUME NEW e \in Ends, Settled(e[1]) PROVE Settled(e[1])'
    <3>1. freed \subseteq Ends /\ \A e \in freed' : e \in freed \/ e \in Ends
      BY DEF PollThreadTypeOK
    <3> QED BY <3>1 DEF LeaderInv
  <2> QED BY SettledStays, EndFacts
<1> QED BY <1>1, <1>2, <1>3 DEF LeaderInv

\* The handshake and tie_fd.
LEMMA OperatorLeaders ==
    ASSUME CountInv, [Next]_vars, NEW s \in Sessions, Accept(s) \/ Handshake(s) \/ TieSteps(s)
    PROVE  LeaderInv'
<1> USE DEF CountInv, TypeInv, TypeOK
<1>1. UNCHANGED <<freed, sdpc, sds, pending_remove_, removing>>
  BY OperatorFrame
<1>2. \A r \in Sessions : r # s => opc'[r] = opc[r]
  <2>1. CASE Accept(s) \/ Handshake(s)
    BY <2>1 DEF Accept, Handshake, Authenticate, ConnectTo, RemoteFails, HandshakeFails, Tie, GoTo,
                OperatorTypeOK
  <2>2. CASE TieSteps(s)
    BY <2>2 DEF TieSteps, AddRef, AddRegister, AddEpoll, Ready, GoTo, OperatorTypeOK
  <2> QED BY <2>1, <2>2
<1>3. \A r \in all_tie_leaders : r \in Sessions /\ leader(r) \in Ends /\ leader(r)[1] = r
  BY EndFacts DEF OperatorTypeOK
<1>4. \A r \in all_tie_leaders : r # s => (Taken(leader(r))' <=> Taken(leader(r)))
  BY <1>2, <1>3 DEF Taken
<1>5. CASE Tie(s)
  <2>1. /\ refcnt_' = [e \in Ends |-> IF e[1] = s THEN 1 ELSE refcnt_[e]]
        /\ all_tie_leaders' = all_tie_leaders \cup {s}
        /\ UNCHANGED poll_set_
        /\ opc[s] = "tie" /\ opc'[s] = "ref1"
    BY <1>5 DEF Tie, GoTo, OperatorTypeOK
  <2>2. s \notin all_tie_leaders /\ leader(s) \notin freed
    BY <2>1, EndFacts DEF TiedInv, LeaderInv, Settled, Early
  <2>3. refcnt_'[leader(s)] = 1 + RegistryRefs(leader(s))'
    <3>1. ~Taken(leader(s))'
      BY <2>1 DEF Taken
    <3>2. ~Listed(leader(s))'
      BY <1>1, <2>1, EndFacts DEF StageInv, Settled, Early, Listed
    <3>3. refcnt_'[leader(s)] = 1
      BY <2>1, EndFacts
    <3>4. RegistryRefs(leader(s))' = 0
      BY <3>1, <3>2 DEF RegistryRefs
    <3> QED BY <3>3, <3>4
  <2>4. ASSUME NEW r \in all_tie_leaders
        PROVE  refcnt_'[leader(r)] = 1 + RegistryRefs(leader(r))'
    <3>1. r # s /\ refcnt_'[leader(r)] = refcnt_[leader(r)]
      BY <1>3, <2>1, <2>2
    <3>2. Listed(leader(r))' <=> Listed(leader(r))
      BY <1>1, <2>1 DEF Listed
    <3> QED BY <1>4, <3>1, <3>2 DEF LeaderInv, RegistryRefs
  <2>5. \A t \in Shutters : sdpc'[t] = "release1" => sds'[t] \notin all_tie_leaders'
    BY <1>1, <2>1 DEF LeaderInv, TiedInv, Settled, Early
  <2>6. \A e \in freed' : Settled(e[1])'
    BY <1>1, SettledStays, EndFacts DEF LeaderInv, PollThreadTypeOK
  <2> QED BY <1>1, <2>1, <2>2, <2>3, <2>4, <2>5, <2>6 DEF LeaderInv
<1>6. CASE \E e \in Ends : AddRef(s, e)
  <2>1. PICK e \in Ends : AddRef(s, e)
    BY <1>6
  <2>2. /\ refcnt_' = [refcnt_ EXCEPT ![e] = @ + 1]
        /\ UNCHANGED <<all_tie_leaders, poll_set_>>
        /\ \/ e = leader(s) /\ opc[s] = "ref1" /\ opc'[s] = "ins1"
           \/ e = follower(s) /\ opc[s] = "ref2" /\ opc'[s] = "ins2"
    BY <2>1 DEF AddRef, RefCopy, GoTo, OperatorTypeOK
  <2>3. \A f \in Ends : Listed(f)' <=> Listed(f)
    BY <1>1, <2>2 DEF Listed
  <2>4. ASSUME NEW r \in all_tie_leaders
        PROVE  refcnt_'[leader(r)] = 1 + RegistryRefs(leader(r))'
    <3>1. CASE e = leader(r)
      <4>1. r = s /\ opc[s] = "ref1" /\ opc'[s] = "ins1"
        BY <1>3, <2>2, <3>1, EndFacts
      <4>2. ~Taken(leader(r)) /\ Taken(leader(r))'
        BY <4>1 DEF Taken
      <4>3. ~Listed(leader(r))
        BY <1>3, <4>1, EndFacts DEF StageInv, Inserted
      <4>4. refcnt_[leader(r)] = 1
        BY <4>2, <4>3 DEF LeaderInv, RegistryRefs
      <4>5. refcnt_'[leader(r)] = 2
        BY <1>3, <2>2, <3>1, <4>4 DEF PollThreadTypeOK
      <4> QED BY <4>2, <4>5 DEF RegistryRefs
    <3>2. CASE e # leader(r)
      <4>1. refcnt_'[leader(r)] = refcnt_[leader(r)]
        BY <1>3, <2>2, <3>2 DEF PollThreadTypeOK
      <4>2. Taken(leader(r))' <=> Taken(leader(r))
        BY <1>3, <1>4, <2>2, <3>2 DEF Taken
      <4> QED BY <1>3, <2>3, <4>1, <4>2 DEF LeaderInv, RegistryRefs
    <3> QED BY <3>1, <3>2
  <2>5. \A x \in freed' : Settled(x[1])'
    BY <1>1, SettledStays, EndFacts DEF LeaderInv, PollThreadTypeOK
  <2> QED BY <1>1, <2>2, <2>4, <2>5 DEF LeaderInv
<1>7. CASE \E e \in Ends : AddRegister(s, e)
  <2>1. PICK e \in Ends : AddRegister(s, e)
    BY <1>7
  <2>2. /\ UNCHANGED <<refcnt_, all_tie_leaders>>
        /\ poll_set_' = poll_set_ \cup {e}
        /\ \/ e = leader(s) /\ opc[s] = "ins1" /\ opc'[s] = "ctl1"
           \/ e = follower(s) /\ opc[s] = "ins2" /\ opc'[s] = "ctl2"
    BY <2>1 DEF AddRegister, AddInsert, GoTo, OperatorTypeOK
  <2>3. \A f \in Ends : Listed(f)' <=> Listed(f) \/ f = e
    BY <1>1, <2>2 DEF Listed
  <2>4. ASSUME NEW r \in all_tie_leaders
        PROVE  RegistryRefs(leader(r))' = RegistryRefs(leader(r))
    <3>1. CASE e = leader(r)
      <4>1. r = s /\ opc[s] = "ins1" /\ opc'[s] = "ctl1"
        BY <1>3, <2>2, <3>1, EndFacts
      <4>2. Taken(leader(r)) /\ Listed(leader(r))'
        BY <1>3, <2>3, <3>1, <4>1 DEF Taken
      <4> QED BY <4>2 DEF RegistryRefs
    <3>2. CASE e # leader(r)
      <4>2. Taken(leader(r))' <=> Taken(leader(r))
        BY <1>3, <1>4, <2>2, <3>2 DEF Taken
      <4> QED BY <1>3, <2>3, <3>2, <4>2 DEF RegistryRefs
    <3> QED BY <3>1, <3>2
  <2>5. \A x \in freed' : Settled(x[1])'
    BY <1>1, SettledStays, EndFacts DEF LeaderInv, PollThreadTypeOK
  <2> QED BY <1>1, <2>2, <2>4, <2>5 DEF LeaderInv
<1>8. CASE ~(Tie(s) \/ \E e \in Ends : AddRef(s, e) \/ AddRegister(s, e))
  <2>1. UNCHANGED <<refcnt_, poll_set_, all_tie_leaders>>
    BY <1>8 DEF Accept, Handshake, Authenticate, ConnectTo, RemoteFails, HandshakeFails,
                TieSteps, AddEpoll, Ready
  <2>2. opc[s] # "ins1" /\ opc'[s] # "ins1"
    <3>1. CASE Accept(s) \/ Handshake(s)
      BY <1>8, <3>1 DEF Accept, Handshake, Authenticate, ConnectTo, RemoteFails,
                        HandshakeFails, GoTo, OperatorTypeOK
    <3>2. CASE TieSteps(s)
      BY <1>8, <3>2 DEF TieSteps, AddEpoll, Ready, GoTo, OperatorTypeOK
    <3> QED BY <3>1, <3>2
  <2>3. \A r \in all_tie_leaders : Taken(leader(r))' <=> Taken(leader(r))
    BY <1>4, <2>2 DEF Taken
  <2>4. \A r \in all_tie_leaders : Listed(leader(r))' <=> Listed(leader(r))
    BY <1>1, <2>1 DEF Listed
  <2> QED BY <1>1, <2>1, <2>3, <2>4, LeaderKeeps
<1> QED BY <1>5, <1>6, <1>7, <1>8

\* A release() of somebody who is no leader of all_tie_leaders.
LEMMA ReleaseLeaders ==
    ASSUME CountInv, NEW x \in Ends, Release(x),
           \A s \in all_tie_leaders : x # leader(s)
    PROVE  \A s \in all_tie_leaders :
               /\ refcnt_'[leader(s)] = refcnt_[leader(s)]
               /\ leader(s) \in freed' => leader(s) \in freed
BY DEF Release, CountInv, TypeInv, TypeOK, PollThreadTypeOK

\* remove() keeps the registry's reference: it moves to pending_remove_.
LEMMA RemoveLeaders ==
    ASSUME CountInv, [Next]_vars, NEW x \in Ends, Remove(x),
           UNCHANGED <<removing, opc, refVars, all_tie_leaders>>,
           \A t \in Shutters : sdpc'[t] = "release1" => sdpc[t] = "release1" /\ sds'[t] = sds[t]
    PROVE  LeaderInv'
<1>1. \A e \in Ends : Listed(e)' <=> Listed(e)
  BY DEF Remove, Listed
<1>2. \A e \in Ends : Taken(e)' <=> Taken(e)
  BY DEF Taken
<1>3. \A r \in all_tie_leaders : leader(r) \in Ends
  BY EndFacts DEF CountInv, TypeInv, TypeOK, OperatorTypeOK
<1> QED BY <1>1, <1>2, <1>3, LeaderKeeps

\* A step that touches neither the sets of the registry nor the counts.
LEMMA LeadersStay ==
    ASSUME CountInv, [Next]_vars,
           UNCHANGED <<poll_set_, pending_remove_, removing, opc, refVars, all_tie_leaders>>,
           \A t \in Shutters : sdpc'[t] = "release1" => sdpc[t] = "release1" /\ sds'[t] = sds[t]
    PROVE  LeaderInv'
<1>1. \A r \in all_tie_leaders : Listed(leader(r))' <=> Listed(leader(r))
  BY DEF Listed
<1>2. \A r \in all_tie_leaders : Taken(leader(r))' <=> Taken(leader(r))
  BY DEF Taken
<1> QED BY <1>1, <1>2, LeaderKeeps

\* The poll loop releases the registry's reference to what it drains.
LEMMA DrainLeaders ==
    ASSUME CountInv, [Next]_vars, NEW x \in Ends, DrainOne(x)
    PROVE  LeaderInv'
<1> USE DEF CountInv, TypeInv, TypeOK
<1>1. /\ UNCHANGED <<poll_set_, pending_remove_, opc, all_tie_leaders, sdpc, sds>>
      /\ removing' = removing \ {x} /\ x \in removing /\ Release(x)
  BY DEF DrainOne
<1>2. Listed(x) /\ ~Listed(x)' /\ Settled(x[1])
  BY <1>1 DEF Listed, StageInv
<1>3. \A f \in Ends : f # x => (Listed(f)' <=> Listed(f))
  BY <1>1 DEF Listed
<1>4. \A r \in all_tie_leaders : leader(r) \in Ends
  BY EndFacts DEF OperatorTypeOK
<1>5. \A f \in Ends : Taken(f)' <=> Taken(f)
  BY <1>1 DEF Taken
<1>6. \A e \in freed' : e \in freed \/ (e \in Ends /\ Settled(e[1]))
  BY <1>1, <1>2 DEF Release
<1>7. CASE \A r \in all_tie_leaders : x # leader(r)
  BY <1>1, <1>3, <1>4, <1>5, <1>6, <1>7, ReleaseLeaders, LeaderKeeps
<1>8. CASE \E r \in all_tie_leaders : x = leader(r)
  <2>1. PICK r \in all_tie_leaders : x = leader(r)
    BY <1>8
  <2>2. ~Taken(x) /\ ~Taken(x)'
    <3>1. Inserted(x)
      BY <1>2 DEF StageInv
    <3> QED BY <1>5, <3>1, <2>1, EndFacts DEF Inserted, Taken
  <2>3. refcnt_[x] = 2
    BY <1>2, <2>1 DEF LeaderInv, RegistryRefs
  <2>4. refcnt_' = [refcnt_ EXCEPT ![x] = refcnt_[x] - 1] /\ UNCHANGED freed
    BY <1>1, <2>3 DEF Release
  <2>5. refcnt_'[x] = 1
    BY <2>3, <2>4 DEF PollThreadTypeOK
  <2>6. RegistryRefs(x)' = 0
    BY <1>2, <2>2 DEF RegistryRefs
  <2>7. ASSUME NEW q \in all_tie_leaders
        PROVE  refcnt_'[leader(q)] = 1 + RegistryRefs(leader(q))'
    <3>1. CASE leader(q) = x
      BY <2>5, <2>6, <3>1
    <3>2. CASE leader(q) # x
      BY <1>3, <1>4, <1>5, <2>4, <3>2 DEF LeaderInv, RegistryRefs, PollThreadTypeOK
    <3> QED BY <3>1, <3>2
  <2>8. \A e \in freed' : Settled(e[1])'
    BY <2>4, SettledStays, EndFacts DEF LeaderInv, PollThreadTypeOK
  <2> QED BY <1>1, <2>4, <2>7, <2>8 DEF LeaderInv
<1> QED BY <1>7, <1>8

\* The poll thread.
LEMMA PollLeaders ==
    ASSUME CountInv, [Next]_vars, PollStep
    PROVE  LeaderInv'
<1> USE DEF CountInv, TypeInv, TypeOK
<1>1. UNCHANGED <<opc, poll_set_, all_tie_leaders>>
  BY PollFrame
<1>2. CASE \E e \in Ends : DrainOne(e)
  BY <1>2, DrainLeaders
<1>3. CASE SwapPending
  <2>1. /\ UNCHANGED <<refVars, sdpc, sds>> /\ removing' = pending_remove_
        /\ pending_remove_' = {} /\ removing = {}
    BY <1>3 DEF SwapPending, StageInv
  <2>2. \A r \in all_tie_leaders : Listed(leader(r))' <=> Listed(leader(r))
    BY <1>1, <2>1 DEF Listed
  <2>3. \A r \in all_tie_leaders : Taken(leader(r))' <=> Taken(leader(r))
    BY <1>1 DEF Taken
  <2> QED BY <1>1, <2>1, <2>2, <2>3, LeaderKeeps
<1>4. CASE PollExit
  <2>1. poll_set_ = {}
    BY <1>4 DEF PollExit, StopInv
  <2>2. UNCHANGED <<refVars, pending_remove_, removing, sdpc, sds>>
    BY <1>4, <2>1 DEF PollExit, PollThreadTypeOK
  <2> QED BY <1>1, <2>2, LeadersStay
<1>5. CASE PollWait \/ PollNext \/ HandlerNotEnabled \/ HandleRead \/ HandleReadMode
             \/ HandleWrite \/ HandleWriteMode \/ HandleError \/ DrainDone
  <2>1. UNCHANGED <<refVars, pending_remove_, removing>>
    BY <1>5 DEF PollWait, PollNext, HandlerNotEnabled, HandleRead, HandleReadMode,
                HandleWrite, HandleWriteMode, HandleError, DrainDone, UpdateMode
  <2>2. \A t \in Shutters : sdpc'[t] = "release1" => sdpc[t] = "release1" /\ sds'[t] = sds[t]
    BY <1>5 DEF PollWait, PollNext, HandlerNotEnabled, HandleRead, HandleReadMode,
                HandleWrite, HandleWriteMode, HandleError, DrainDone, StartShutdown, PollTypeOK
  <2> QED BY <1>1, <2>1, <2>2, LeadersStay
<1> QED BY <1>2, <1>3, <1>4, <1>5 DEF PollStep

\* shutdown(): the leader is released when it is no more in all_tie_leaders.
LEMMA ShutLeaders ==
    ASSUME CountInv, [Next]_vars, NEW t \in Shutters, ShutdownStep(t)
    PROVE  LeaderInv'
<1> USE DEF CountInv, TypeInv, TypeOK
<1>1. UNCHANGED <<opc, removing>>
  BY ShutFrame
<1>2. CASE ShutClose(t)
  <2>1. UNCHANGED <<registryVars, refVars, all_tie_leaders>>
    BY <1>2 DEF ShutClose
  <2>2. \A u \in Shutters : sdpc'[u] = "release1" => sdpc[u] = "release1" /\ sds'[u] = sds[u]
    BY <1>2 DEF ShutClose, PollTypeOK
  <2> QED BY <1>1, <2>1, <2>2, LeadersStay
<1>3. CASE ShutRemove(t)
  <2>1. ShutEnd(t) \in Ends
    BY <1>3, ShutEndType DEF ShutRemove
  <2>2. \A u \in Shutters : sdpc'[u] = "release1" => sdpc[u] = "release1" /\ sds'[u] = sds[u]
    BY <1>3 DEF ShutRemove, PollTypeOK
  <2> QED BY <1>1, <1>3, <2>1, <2>2, RemoveLeaders DEF ShutRemove
<1>4. CASE ShutErase(t)
  <2>1. /\ UNCHANGED <<registryVars, refVars, sds>>
        /\ all_tie_leaders' = all_tie_leaders \ {sds[t]}
    BY <1>4 DEF ShutErase
  <2>2. \A u \in Shutters : sdpc'[u] = "release1" => sdpc[u] = "release1" \/ u = t
    BY <1>4 DEF ShutErase, PollTypeOK
  <2>3. \A r \in all_tie_leaders : Listed(leader(r))' <=> Listed(leader(r))
    BY <1>1, <2>1 DEF Listed
  <2>4. \A r \in all_tie_leaders : Taken(leader(r))' <=> Taken(leader(r))
    BY <1>1 DEF Taken
  <2> QED BY <1>1, <2>1, <2>2, <2>3, <2>4, LeaderKeeps
<1>5. CASE ShutRelease(t)
  <2>1. /\ UNCHANGED <<registryVars, all_tie_leaders>> /\ Release(ShutEnd(t))
        /\ ShutEnd(t) \in Ends /\ Settled(ShutEnd(t)[1])
    BY <1>5, ShutEndType, EndFacts DEF ShutRelease, TiedInv, ShutEnd, ControlInv
  <2>2. \A r \in all_tie_leaders : ShutEnd(t) # leader(r)
    BY <1>5, EndFacts DEF ShutRelease, ShutEnd, LeaderInv, OperatorTypeOK, ControlInv
  <2>3. \A u \in Shutters : sdpc'[u] = "release1" => sdpc[u] = "release1" /\ sds'[u] = sds[u]
    BY <1>5 DEF ShutRelease, PollTypeOK
  <2>4. \A e \in freed' : e \in freed \/ (e \in Ends /\ Settled(e[1]))
    BY <2>1 DEF Release
  <2>5. \A r \in all_tie_leaders : Listed(leader(r))' <=> Listed(leader(r))
    BY <1>1, <2>1 DEF Listed
  <2>6. \A r \in all_tie_leaders : Taken(leader(r))' <=> Taken(leader(r))
    BY <1>1 DEF Taken
  <2> QED BY <2>1, <2>2, <2>3, <2>4, <2>5, <2>6, ReleaseLeaders, LeaderKeeps
<1> QED BY <1>2, <1>3, <1>4, <1>5 DEF ShutdownStep

\* CountInv is inductive.
LEMMA CountNext == CountInv /\ [Next]_vars => CountInv'
<1> SUFFICES ASSUME CountInv, [Next]_vars PROVE CountInv'
  OBVIOUS
<1>1. TypeInv' /\ TiedInv' /\ StageInv' /\ StopInv'
  BY TypeNext, TiedNext, StageNext, StopNext DEF CountInv
<1>2. LeaderInv'
  <2>1. CASE \E s \in Sessions : Accept(s) \/ Handshake(s) \/ TieSteps(s)
    BY <2>1, OperatorLeaders
  <2>2. CASE PollStep
    BY <2>2, PollLeaders
  <2>3. CASE \E t \in Shutters : ShutdownStep(t)
    BY <2>3, ShutLeaders
  <2>4. CASE CleanupStep
    <3>1. UNCHANGED <<registryVars, refVars, removing, opc, all_tie_leaders>>
      BY <2>4, CleanupFrame
    <3>2. \A t \in Shutters : sdpc'[t] = "release1" => sdpc[t] = "release1" /\ sds'[t] = sds[t]
      BY <2>4 DEF CleanupStep, CleanupQuery, CleanupQueryFails, CleanupScan, CleanupShutdown,
                  CleanupSleep, CleanupExit, StartShutdown, CountInv, TypeInv, TypeOK, PollTypeOK
    <3> QED BY <3>1, <3>2, LeadersStay
  <2>5. CASE MainStep
    <3>1. UNCHANGED <<refVars, removing, opc, all_tie_leaders, sdpc, sds>>
      BY <2>5, MainFrame
    <3>2. CASE \E e \in Ends : DtorRemove(e)
      BY <3>1, <3>2, RemoveLeaders DEF DtorRemove
    <3>3. CASE ~\E e \in Ends : DtorRemove(e)
      BY <2>5, <3>1, <3>3, LeadersStay DEF MainStep, MainJoins, DtorCopy, DtorStop, MainDone
    <3> QED BY <3>2, <3>3
  <2>6. CASE Environment \/ Failure \/ UNCHANGED vars
    <3>1. UNCHANGED <<registryVars, refVars, removing, opc, all_tie_leaders, sdpc, sds>>
      BY <2>6, EnvironmentFrame, StopFrame DEF allButCrash
    <3> QED BY <3>1, LeadersStay
  <2> QED BY Cases, <2>1, <2>2, <2>3, <2>4, <2>5, <2>6
<1> QED BY <1>1, <1>2 DEF CountInv

\* The scan of EndPoint::cleanup meets no deleted EndPoint, even when both the
\* poll thread and the cleanup thread shut one session down: a leader loses its
\* own reference only after the erase.
THEOREM LeadersExist == Spec => []LeadersLive
<1>1. CountInv => LeadersLive
  BY DEF CountInv, LeaderInv, LeadersLive
<1> QED BY <1>1, CountInit, CountNext, PTL DEF Spec

\* Nothing is registered when PollThread::poll_loop sees stop_flag_: what it
\* would release there has been removed by ~PollThread.
THEOREM NothingLeft == Spec => [](stop_flag_ => poll_set_ = {})
<1>1. CountInv => (stop_flag_ => poll_set_ = {})
  BY DEF CountInv, StopInv
<1> QED BY <1>1, CountInit, CountNext, PTL DEF Spec

-------------------------------------------------------------------------------
(* What is forwarded.                                                      *)

\* The first n bytes that the party at p sends.
Stream(p, n) == [i \in 1 .. n |-> <<p, i>>]

\* Which end of its session an EndPoint is.
LEMMA EndSides ==
    \A e \in Ends :
        \/ e[2] = "client" /\ e = leader(e[1]) /\ e # follower(e[1])
        \/ e[2] = "remote" /\ e = follower(e[1]) /\ e # leader(e[1])
BY DEF Ends, Sides

\* The descriptor of an EndPoint that handles events has not become another
\* socket's.
NoTakeover == \A e \in Ends : enabled_[e] => file[fd_[e]] \in {e, NoEnd}

\* A function on 1 .. k is a sequence of length k.
LEMMA FunctionIsSeq ==
    ASSUME NEW S, NEW k \in Nat, NEW f \in [1 .. k -> S]
    PROVE  f \in Seq(S) /\ Len(f) = k
OBVIOUS

\* Concatenation of byte sequences is associative.
LEMMA Associates ==
    ASSUME NEW u \in Seq(Bytes), NEW v \in Seq(Bytes), NEW w \in Seq(Bytes)
    PROVE  u \o (v \o w) = (u \o v) \o w
BY ConcatAssociative

\* read() continues a stream where the last one stopped.
LEMMA ReadContinues ==
    ASSUME NEW w \in Seq(Bytes), NEW b \in Seq(Bytes), NEW p \in Ends,
           NEW m \in Nat, NEW n \in Nat, m < n, w \o b = Stream(p, m)
    PROVE  w \o (b \o [i \in 1 .. (n - m) |-> <<p, m + i>>]) = Stream(p, n)
<1>0. PICK k \in Nat : k = n - m
  OBVIOUS
<1>1. /\ [i \in 1 .. k |-> <<p, m + i>>] \in [1 .. k -> Bytes]
      /\ Stream(p, m) \in [1 .. m -> Bytes] /\ \A i \in 1 .. m : Stream(p, m)[i] = <<p, i>>
      /\ Stream(p, n) \in [1 .. n -> Bytes] /\ \A i \in 1 .. n : Stream(p, n)[i] = <<p, i>>
  BY DEF Stream, Bytes
<1>2. PICK u \in Seq(Bytes) : u = [i \in 1 .. k |-> <<p, m + i>>] /\ Len(u) = k
  BY <1>1, FunctionIsSeq
<1>3. PICK t \in Seq(Bytes) : t = Stream(p, m) /\ Len(t) = m
  BY <1>1, FunctionIsSeq
<1>4. w \o (b \o u) = (w \o b) \o u
  BY Associates
<1>5. PICK v \in Seq(Bytes) : v = t \o u
  BY <1>2, <1>3, ConcatProperties
<1>6. Len(v) = m + k /\ \A i \in 1 .. m + k : v[i] = IF i <= m THEN t[i] ELSE u[i - m]
  <2>1. /\ Len(v) = Len(t) + Len(u)
        /\ \A i \in 1 .. Len(t) + Len(u) : v[i] = IF i <= Len(t) THEN t[i] ELSE u[i - Len(t)]
    BY <1>5, ConcatProperties
  <2> QED BY <1>2, <1>3, <2>1
<1>7. ASSUME NEW i \in 1 .. n PROVE v[i] = Stream(p, n)[i]
  <2>1. i \in 1 .. m + k
    BY <1>0
  <2>2. CASE i <= m
    <3>1. v[i] = t[i]
      BY <1>6, <2>1, <2>2
    <3>2. t[i] = <<p, i>> /\ Stream(p, n)[i] = <<p, i>>
      BY <1>1, <1>3, <2>2
    <3> QED BY <3>1, <3>2
  <2>3. CASE ~(i <= m)
    <3>1. v[i] = u[i - m]
      BY <1>6, <2>1, <2>3
    <3>2. i - m \in 1 .. k /\ m + (i - m) = i
      BY <1>0, <2>3
    <3>3. u[i - m] = <<p, i>>
      BY <1>2, <3>2
    <3> QED BY <1>1, <3>1, <3>3
  <2> QED BY <2>2, <2>3
<1>8. v = Stream(p, n)
  <2>1. Len(v) = n
    BY <1>0, <1>6
  <2>2. Stream(p, n) \in Seq(Bytes) /\ Len(Stream(p, n)) = n
    BY <1>1, FunctionIsSeq
  <2> QED BY <1>7, <2>1, <2>2, SeqEqual
<1> QED BY <1>0, <1>2, <1>3, <1>4, <1>5, <1>8

\* write() moves the head of the buffer behind what has been written.
LEMMA WriteMoves ==
    ASSUME NEW w \in Seq(Bytes), NEW b \in Seq(Bytes), NEW n \in 0 .. Len(b)
    PROVE  (w \o SubSeq(b, 1, n)) \o SubSeq(b, n + 1, Len(b)) = w \o b
<1>1. Len(b) \in Nat /\ \A i \in 1 .. Len(b) : b[i] \in Bytes
  BY LenProperties
<1>2. SubSeq(b, 1, n) \in Seq(Bytes)
  BY <1>1, SubSeqProperties
<1>3. SubSeq(b, n + 1, Len(b)) \in Seq(Bytes)
  BY <1>1, SubSeqProperties
<1>4. SubSeq(b, 1, n) \o SubSeq(b, n + 1, Len(b)) = SubSeq(b, 1, Len(b))
  <2>1. /\ 1 \in 1 .. Len(b) + 1
        /\ n \in 1 - 1 .. Len(b)
        /\ Len(b) \in n .. Len(b)
    BY <1>1
  <2> QED BY <2>1, ConcatAdjacentSubSeq
<1>5. SubSeq(b, 1, Len(b)) = b
  BY SubSeqFull
<1>6. PICK h \in Seq(Bytes), t \in Seq(Bytes) : h = SubSeq(b, 1, n) /\ t = SubSeq(b, n + 1, Len(b))
  BY <1>2, <1>3
<1>7. (w \o h) \o t = w \o (h \o t)
  BY ConcatAssociative
<1> QED BY <1>4, <1>5, <1>6, <1>7

\* Only handle_read and handle_write move bytes, each from one socket or to it.
LEMMA BytesMove ==
    ASSUME TypeInv, [Next]_vars, ~UNCHANGED <<rd, wr, buf_>>
    PROVE  \E e \in Ends :
               /\ enabled_[e] /\ file[fd_[e]] # NoEnd
               /\ \/ /\ sent[file[fd_[e]]] > rd[file[fd_[e]]]
                     /\ buf_' = [buf_ EXCEPT ![peer_(e)] = @ \o Unread(file[fd_[e]])]
                     /\ rd' = [rd EXCEPT ![file[fd_[e]]] = sent[file[fd_[e]]]]
                     /\ UNCHANGED wr
                  \/ \E n \in 0 .. Len(buf_[e]) :
                         /\ wr' = [wr EXCEPT ![file[fd_[e]]] = @ \o SubSeq(buf_[e], 1, n)]
                         /\ buf_' = [buf_ EXCEPT ![e] = SubSeq(@, n + 1, Len(@))]
                         /\ UNCHANGED rd
<1> USE DEF TypeInv, TypeOK
<1>1. PollStep
  BY Cases, OperatorFrame, CleanupFrame, ShutFrame, MainFrame, EnvironmentFrame, StopFrame
     DEF allButCrash
<1>2. HandleRead \/ HandleWrite
  BY <1>1 DEF PollStep, PollWait, PollNext, HandlerNotEnabled, HandleReadMode, HandleWriteMode,
              HandleError, SwapPending, DrainOne, DrainDone, PollExit
<1>3. cur.ptr \in Ends
  BY <1>2 DEF HandleRead, HandleWrite, ControlInv, EventRecords
<1>4. CASE HandleRead
  <2>1. /\ enabled_[cur.ptr] /\ UNCHANGED wr
        /\ IF file[fd_[cur.ptr]] # NoEnd /\ sent[file[fd_[cur.ptr]]] > rd[file[fd_[cur.ptr]]]
           THEN /\ buf_' = [buf_ EXCEPT ![peer_(cur.ptr)] = @ \o Unread(file[fd_[cur.ptr]])]
                /\ rd' = [rd EXCEPT ![file[fd_[cur.ptr]]] = sent[file[fd_[cur.ptr]]]]
           ELSE UNCHANGED <<buf_, rd>>
    BY <1>4 DEF HandleRead
  <2> QED BY <1>3, <2>1
<1>5. CASE HandleWrite
  <2>1. enabled_[cur.ptr] /\ UNCHANGED rd
    BY <1>5 DEF HandleWrite
  <2>2. /\ file[fd_[cur.ptr]] # NoEnd
        /\ \E n \in 0 .. Len(buf_[cur.ptr]) :
               /\ wr' = [wr EXCEPT ![file[fd_[cur.ptr]]] = @ \o SubSeq(buf_[cur.ptr], 1, n)]
               /\ buf_' = [buf_ EXCEPT ![cur.ptr] = SubSeq(@, n + 1, Len(@))]
    BY <1>5, <2>1 DEF HandleWrite
  <2> QED BY <1>3, <2>1, <2>2
<1> QED BY <1>2, <1>4, <1>5

\* A byte is neither lost nor moved unless a descriptor is taken over.
LEMMA OrderNext ==
    ASSUME TypeInv, InOrder, NoTakeover, [Next]_vars
    PROVE  InOrder'
<1> USE DEF TypeInv, TypeOK
<1>1. CASE UNCHANGED <<rd, wr, buf_>>
  BY <1>1 DEF InOrder
<1>2. CASE ~UNCHANGED <<rd, wr, buf_>>
  <2>1. PICK e \in Ends :
            \/ /\ sent[e] > rd[e]
               /\ buf_' = [buf_ EXCEPT ![peer_(e)] = @ \o Unread(e)]
               /\ rd' = [rd EXCEPT ![e] = sent[e]]
               /\ UNCHANGED wr
            \/ \E n \in 0 .. Len(buf_[e]) :
                   /\ wr' = [wr EXCEPT ![e] = @ \o SubSeq(buf_[e], 1, n)]
                   /\ buf_' = [buf_ EXCEPT ![e] = SubSeq(@, n + 1, Len(@))]
                   /\ UNCHANGED rd
    BY <1>2, BytesMove DEF NoTakeover
  <2>2. \A x \in Ends : /\ wr[x] \in Seq(Bytes) /\ buf_[x] \in Seq(Bytes)
                        /\ rd[x] \in Nat /\ sent[x] \in Nat
                        /\ peer_(x) \in Ends /\ peer_(peer_(x)) = x
    BY EndFacts, EndSides DEF KernelTypeOK, OperatorTypeOK
  <2> SUFFICES ASSUME NEW x \in Ends
               PROVE  wr'[x] \o buf_'[x] = Stream(peer_(x), rd'[peer_(x)])
    BY DEF InOrder, Stream
  <2>3. wr[x] \o buf_[x] = Stream(peer_(x), rd[peer_(x)])
    BY DEF InOrder, Stream
  <2>4. CASE /\ sent[e] > rd[e]
             /\ buf_' = [buf_ EXCEPT ![peer_(e)] = @ \o Unread(e)]
             /\ rd' = [rd EXCEPT ![e] = sent[e]]
             /\ UNCHANGED wr
    <3>1. CASE x = peer_(e)
      <4>1. buf_'[x] = buf_[x] \o Unread(e) /\ rd'[peer_(x)] = sent[e] /\ peer_(x) = e
        BY <2>2, <2>4, <3>1 DEF KernelTypeOK, OperatorTypeOK
      <4>2. wr[x] \o (buf_[x] \o Unread(e)) = Stream(e, sent[e])
        <5>1. PICK w \in Seq(Bytes), b \in Seq(Bytes), m \in Nat, n \in Nat :
                  w = wr[x] /\ b = buf_[x] /\ m = rd[e] /\ n = sent[e]
          BY <2>2
        <5>2. m < n /\ w \o b = Stream(e, m)
          BY <2>3, <2>4, <4>1, <5>1
        <5>3. w \o (b \o [i \in 1 .. (n - m) |-> <<e, m + i>>]) = Stream(e, n)
          BY <5>2, ReadContinues
        <5> QED BY <5>1, <5>3 DEF Unread
      <4> QED BY <2>4, <4>1, <4>2
    <3>2. CASE x # peer_(e)
      <4>1. peer_(x) # e
        BY <2>2, <3>2
      <4>2. buf_'[x] = buf_[x] /\ rd'[peer_(x)] = rd[peer_(x)]
        BY <2>2, <2>4, <3>2, <4>1 DEF KernelTypeOK, OperatorTypeOK
      <4> QED BY <2>3, <2>4, <4>2
    <3> QED BY <3>1, <3>2
  <2>5. ASSUME NEW n \in 0 .. Len(buf_[e]),
               wr' = [wr EXCEPT ![e] = @ \o SubSeq(buf_[e], 1, n)],
               buf_' = [buf_ EXCEPT ![e] = SubSeq(@, n + 1, Len(@))],
               UNCHANGED rd
        PROVE  wr'[x] \o buf_'[x] = Stream(peer_(x), rd'[peer_(x)])
    <3>1. CASE x = e
      <4>1. /\ wr'[x] = wr[x] \o SubSeq(buf_[x], 1, n)
            /\ buf_'[x] = SubSeq(buf_[x], n + 1, Len(buf_[x]))
        BY <2>5, <3>1 DEF KernelTypeOK, OperatorTypeOK
      <4>2. (wr[x] \o SubSeq(buf_[x], 1, n)) \o SubSeq(buf_[x], n + 1, Len(buf_[x]))
                = wr[x] \o buf_[x]
        BY <2>2, <2>5, <3>1, WriteMoves
      <4> QED BY <2>3, <2>5, <4>1, <4>2
    <3>2. CASE x # e
      BY <2>3, <2>5, <3>2 DEF KernelTypeOK, OperatorTypeOK
    <3> QED BY <3>1, <3>2
  <2> QED BY <2>1, <2>4, <2>5
<1> QED BY <1>1, <1>2

\* The streams are empty initially.
LEMMA OrderInit == Init => InOrder
<1> SUFFICES ASSUME Init, NEW x \in Ends PROVE wr[x] \o buf_[x] = [i \in 1 .. rd[peer_(x)] |-> <<peer_(x), i>>]
  BY DEF InOrder
<1>1. wr[x] = <<>> /\ buf_[x] = <<>> /\ rd[peer_(x)] = 0
  BY EndFacts DEF Init, KernelInit
<1>2. <<>> \o <<>> = <<>>
  OBVIOUS
<1>3. [i \in 1 .. 0 |-> <<peer_(x), i>>] = <<>>
  OBVIOUS
<1> QED BY <1>1, <1>2, <1>3

\* What has been written to an end and what waits for it is what has been read
\* from its peer, for any number of sessions, as long as no closed descriptor
\* is handed out again while its EndPoint still handles events.
THEOREM BytesInOrder == Spec /\ []NoTakeover => []InOrder
<1>1. TypeInv /\ InOrder /\ NoTakeover /\ [Next]_vars => InOrder'
  BY OrderNext
<1> QED BY <1>1, TypeInit, TypeNext, OrderInit, PTL DEF Spec

\* There is one session.
OneSession == \A r, s \in Sessions : r = s

\* The client's socket is open until its handshake is over.
ClientOpen ==
    \A s \in Sessions : opc[s] \in Early \ {"idle"} => file[fd_[leader(s)]] = leader(s)

\* The two EndPoints of a session have different descriptors.
Apart ==
    \A s \in Sessions :
        /\ fd_[leader(s)] = fd_[follower(s)] => opc[s] = "idle"
        /\ opc[s] = "idle" => fd_[follower(s)] = NoFd

SoloInv == TypeInv /\ FilesOwned /\ TiedInv /\ (OneSession => ClientOpen /\ Apart /\ InOrder)

\* A single session has nobody who could take a descriptor over.
LEMMA SoloKeepsFds ==
    ASSUME TypeInv, FilesOwned, TiedInv, OneSession, Apart
    PROVE  NoTakeover
<1> SUFFICES ASSUME NEW e \in Ends, enabled_[e], file[fd_[e]] # NoEnd
             PROVE  file[fd_[e]] = e
  BY DEF NoTakeover
<1>1. fd_[e] \in Fds /\ opc[e[1]] # "idle"
  BY EndFacts DEF TiedInv, Settled, Early
<1>2. file[fd_[e]] \in Ends /\ fd_[file[fd_[e]]] = fd_[e]
  BY <1>1 DEF FilesOwned, TypeInv, TypeOK, KernelTypeOK
<1>3. file[fd_[e]] \in {leader(e[1]), follower(e[1])}
  <2>1. PICK y \in Ends : y = file[fd_[e]]
    BY <1>2
  <2>2. y[1] = e[1]
    BY <2>1, EndFacts DEF OneSession
  <2>3. y \in {leader(y[1]), follower(y[1])}
    BY <2>1, EndFacts
  <2> QED BY <2>1, <2>2, <2>3
<1> QED BY <1>1, <1>2, <1>3, EndFacts DEF Apart

\* accept() and connect() hand out a number that the other end does not have.
LEMMA SoloOpens ==
    ASSUME TypeInv, OneSession, ClientOpen, Apart,
           NEW s \in Sessions, Accept(s) \/ ConnectTo(s)
    PROVE  ClientOpen' /\ Apart'
<1> USE DEF TypeInv, TypeOK
<1>1. PICK e \in Ends : /\ OpenSocket(e)
                        /\ \/ Accept(s) /\ e = leader(s)
                           \/ ConnectTo(s) /\ e = follower(s)
  BY EndFacts DEF Accept, ConnectTo
<1>2. PICK fd \in Fds : /\ file[fd] = NoEnd
                        /\ file' = [file EXCEPT ![fd] = e]
                        /\ fd_' = [fd_ EXCEPT ![e] = fd]
  BY <1>1 DEF OpenSocket, LowestFree
<1>3. /\ file' \in [Fds -> Ends \cup {NoEnd}] /\ file'[fd] = e /\ fd_'[e] = fd
      /\ \A g \in Fds : g # fd => file'[g] = file[g]
      /\ \A f \in Ends : f # e => fd_'[f] = fd_[f]
  BY <1>2 DEF KernelTypeOK, PollThreadTypeOK
<1>4. \A r \in Sessions : r = s
  BY DEF OneSession
<1>5. CASE Accept(s) /\ e = leader(s)
  <2>1. opc[s] = "idle" /\ opc'[s] = "auth" /\ fd_[follower(s)] = NoFd
    BY <1>5 DEF Accept, GoTo, OperatorTypeOK, Apart
  <2>2. fd_'[follower(s)] = NoFd
    BY <1>3, <1>5, <2>1, EndFacts
  <2> QED BY <1>3, <1>4, <1>5, <2>1, <2>2, EndFacts DEF ClientOpen, Apart
<1>6. CASE ConnectTo(s) /\ e = follower(s)
  <2>1. opc[s] = "connect" /\ opc'[s] = "tie"
    BY <1>6 DEF ConnectTo, GoTo, OperatorTypeOK
  <2>2. file[fd_[leader(s)]] = leader(s) /\ fd_[leader(s)] \in Fds
    BY <2>1 DEF ClientOpen, Early, FdInv
  <2>3. fd_'[leader(s)] = fd_[leader(s)] /\ fd_[leader(s)] # fd
    BY <1>2, <1>3, <1>6, <2>2, EndFacts
  <2> QED BY <1>3, <1>4, <1>6, <2>1, <2>2, <2>3, EndFacts DEF ClientOpen, Apart
<1> QED BY <1>1, <1>5, <1>6

\* SoloInv is inductive: before tie_fd only the operator closes anything.
LEMMA SoloNext == SoloInv /\ [Next]_vars => SoloInv'
<1> SUFFICES ASSUME SoloInv, [Next]_vars, OneSession PROVE ClientOpen' /\ Apart' /\ InOrder'
  BY TypeNext, FilesNext, TiedNext DEF SoloInv, OneSession
<1> USE DEF TypeInv, TypeOK
<1>0. TypeInv /\ FilesOwned /\ TiedInv /\ ClientOpen /\ Apart /\ InOrder
  BY DEF SoloInv
<1>1. InOrder'
  BY <1>0, SoloKeepsFds, OrderNext
<1>2. CASE \E s \in Sessions : Accept(s) \/ ConnectTo(s)
  BY <1>0, <1>1, <1>2, SoloOpens
<1>3. ASSUME NEW s \in Sessions, UNCHANGED fd_, opc'[s] = "idle" <=> opc[s] = "idle",
             opc'[s] \in Early \ {"idle"} =>
                 opc[s] \in Early \ {"idle"} /\ file'[fd_[leader(s)]] = file[fd_[leader(s)]]
      PROVE  ClientOpen' /\ Apart'
  <2> SUFFICES ASSUME NEW r \in Sessions
               PROVE  /\ opc'[r] \in Early \ {"idle"} => file'[fd_'[leader(r)]] = leader(r)
                      /\ fd_'[leader(r)] = fd_'[follower(r)] => opc'[r] = "idle"
                      /\ opc'[r] = "idle" => fd_'[follower(r)] = NoFd
    BY DEF ClientOpen, Apart
  <2>1. r = s
    BY DEF OneSession
  <2> QED BY <1>0, <1>3, <2>1 DEF ClientOpen, Apart
<1>4. CASE \E s \in Sessions : Authenticate(s) \/ RemoteFails(s) \/ HandshakeFails(s)
                               \/ Tie(s) \/ TieSteps(s)
  <2>1. PICK s \in Sessions : Authenticate(s) \/ RemoteFails(s) \/ HandshakeFails(s)
                              \/ Tie(s) \/ TieSteps(s)
    BY <1>4
  <2>3. CASE RemoteFails(s)
    <3>1. opc[s] = "tie" /\ opc'[s] \in {"connect", "fail"} /\ UNCHANGED fd_
      BY <1>0, <2>3 DEF RemoteFails, GoTo, OperatorTypeOK
    <3>2. file'[fd_[leader(s)]] = file[fd_[leader(s)]]
      BY <1>0, <2>3, <3>1 DEF RemoteFails, CloseFds, Apart, FdInv
    <3> QED BY <1>1, <1>3, <3>1, <3>2 DEF Early
  <2>4. CASE HandshakeFails(s)
    <3>1. opc[s] # "idle" /\ opc'[s] = "done" /\ UNCHANGED fd_
      BY <1>0, <2>4 DEF HandshakeFails, GoTo, OperatorTypeOK
    <3> QED BY <1>1, <1>3, <3>1 DEF Early
  <2>5. CASE Authenticate(s)
    <3>1. opc[s] = "auth" /\ opc'[s] = "connect" /\ UNCHANGED <<fd_, file>>
      BY <1>0, <2>5 DEF Authenticate, GoTo, OperatorTypeOK
    <3> QED BY <1>1, <1>3, <3>1 DEF Early
  <2>6. CASE Tie(s) \/ TieSteps(s)
    <3>1. opc[s] # "idle" /\ opc'[s] \notin Early /\ UNCHANGED fd_
      BY <1>0, <2>6 DEF Tie, TieSteps, AddRef, AddRegister, AddEpoll, Ready, GoTo, Early, OperatorTypeOK
    <3> QED BY <1>1, <1>3, <3>1 DEF Early
  <2> QED BY <2>1, <2>3, <2>4, <2>5, <2>6
<1>5. CASE \E t \in Shutters : ShutdownStep(t)
  <2>1. PICK t \in Shutters : ShutdownStep(t)
    BY <1>5
  <2>2. UNCHANGED <<fd_, opc>>
    BY <2>1, ShutFrame
  <2>3. sdpc[t] # "idle"
    BY <2>1 DEF ShutdownStep, ShutClose, ShutRemove, ShutErase, ShutRelease
  <2>4. \A s \in Sessions : opc[s] \notin Early
    BY <1>0, <2>3 DEF TiedInv, Settled, OneSession, ControlInv
  <2> QED BY <1>0, <1>1, <2>2, <2>4 DEF ClientOpen, Apart
<1>6. CASE PollStep \/ CleanupStep \/ MainStep \/ Environment \/ Failure \/ UNCHANGED vars
  <2>1. UNCHANGED <<file, fd_, opc>>
    BY <1>6, PollFrame, CleanupFrame, MainFrame, EnvironmentFrame, StopFrame DEF allButCrash
  <2> QED BY <1>0, <1>1, <2>1 DEF ClientOpen, Apart
<1> QED BY Cases, <1>1, <1>2, <1>4, <1>5, <1>6 DEF Handshake

\* One session loses, doubles and moves no byte, however its ends hang up, its
\* route changes and the process is told to stop: of two shutdowns the second
\* closes numbers that nobody else has got.
THEOREM OneSessionInOrder == Spec => [](OneSession => InOrder)
<1>1. Init => SoloInv
  <2>1. Init => Apart /\ ClientOpen
    <3>1. ASSUME Init, NEW s \in Sessions PROVE opc[s] = "idle" /\ fd_[follower(s)] = NoFd
      BY <3>1, EndFacts DEF Init, PollThreadInit
    <3> QED BY <3>1 DEF Apart, ClientOpen
  <2> QED BY <2>1, TypeInit, FilesInit, TiedInit, OrderInit DEF SoloInv
<1>2. SoloInv => (OneSession => InOrder)
  BY DEF SoloInv
<1> QED BY <1>1, <1>2, SoloNext, PTL DEF Spec

===============================================================================
