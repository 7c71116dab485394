----------------------------- MODULE HangupProofs -----------------------------
(***************************************************************************)
(* What holds while only VNC servers hang up, no route changes and no      *)
(* signal comes: shutdown() then runs in the poll thread alone, once for a *)
(* session and never before tie_fd has returned.  For any number of        *)
(* sessions that hand each other their closed descriptors, no deleted      *)
(* EndPoint is used and no epoll_ctl or assert of the registry fails, but  *)
(* the verify() of add().                                                  *)
(***************************************************************************)
EXTENDS EndPointProofs

USE DEF kernelVars, socketVars, epollVars, registryVars, refVars, endVars, pollLocal, sdVars,
        cleanupLocal, dbVars, mainVars, Shutters, leader, follower, peer_

\* The premise of ServerHangupSafe.
ServersOnly == hup \subseteq Sessions \X {"remote"} /\ edits = 0 /\ ~stop

\* The control states of tie_fd.
InTie == {"ref1", "ins1", "ctl1", "ref2", "ins2", "ctl2", "ready1", "ready2"}

\* The poll thread is in shutdown() of session s.
ShutBy(s) == sdpc["poll"] # "idle" /\ sds["poll"] = s

\* A handler is running, for the event cur.
Handling == ppc \in {"read", "rmode", "write", "wmode", "error"}

\* The events of this round that are not handled yet.
Entries == batch \cup (IF Handling THEN {cur} ELSE {})

\* Nobody but the poll thread has anything to shut down.
Quiet ==
    /\ routes = Keys
    /\ cpc = "scan" => valid = Keys
    /\ outlier = {}
    /\ sdpc["cleanup"] = "idle"
    /\ mpc = "run"
    /\ ~stop_flag_
    /\ sdpc["poll"] # "idle" => ppc = "next"

\* ready() of the remote end is the last step of tie_fd.
FollowerLast == \A s \in Sessions : enabled_[follower(s)] => opc[s] = "done"

\* shutdown() has closed the descriptor of e and not yet removed e.
Closing(e) ==
    \/ sdpc["poll"] = "remove1" /\ e = leader(sds["poll"])
    \/ sdpc["poll"] = "remove2" /\ e = follower(sds["poll"])

\* Epoll reports a socket with its own EndPoint, and only if it is registered.
OwnEntry ==
    \A x \in Ends : eptr[x] # NoEnd => eptr[x] = x /\ x \in poll_set_ /\ Added(x) /\ ~Closing(x)

\* e has a descriptor, and nobody has closed it.
HoldsFd(e) ==
    \/ e[2] = "client" /\ opc[e[1]] \notin {"idle", "done"}
    \/ e[2] = "remote" /\ opc[e[1]] \in {"tie"} \cup InTie
    \/ e \in poll_set_ /\ ~Closing(e)

OwnFile == \A e \in Ends : HoldsFd(e) => file[fd_[e]] = e

\* A session that is not being shut down is in all_tie_leaders from tie_fd on,
\* with those of its ends that add() has entered.
Whole ==
    /\ \A s \in Sessions : opc[s] \in InTie => s \in all_tie_leaders /\ ~ShutBy(s)
    /\ \A e \in poll_set_ : e[1] \in all_tie_leaders
    /\ \A e \in Ends :
           e[1] \in all_tie_leaders /\ ~ShutBy(e[1]) /\ Inserted(e) => e \in poll_set_

\* How far the shutdown() of the poll thread has come.
ShutState ==
    sdpc["poll"] # "idle" =>
        LET s == sds["poll"] IN
        /\ opc[s] = "done"
        /\ IF sdpc["poll"] \in {"close1", "remove1"}
           THEN leader(s) \in poll_set_ ELSE leader(s) \in pending_remove_
        /\ IF sdpc["poll"] \in {"close1", "remove1", "close2", "remove2"}
           THEN follower(s) \in poll_set_ ELSE follower(s) \in pending_remove_
        /\ s \in all_tie_leaders <=> sdpc["poll"] # "release1"
        /\ \A b \in batch : b.ptr # follower(s)

\* One event for an EndPoint in a round; its pair is in the registry until the
\* round is over, and a hang-up finds it registered.
EntryOK ==
    /\ \A b \in Entries :
           /\ Listed(b.ptr)
           /\ Inserted(peer_(b.ptr)) => Listed(peer_(b.ptr))
           /\ "HUP" \in b.ev => b.ptr[2] = "remote" /\ b.ptr \in poll_set_
    /\ \A b, c \in batch : b.ptr = c.ptr => b = c
    /\ Handling => \A b \in batch : b.ptr # cur.ptr
    /\ ppc = "error" => cur.ev = {"HUP"}
    /\ ~Handling /\ ppc # "next" => batch = {}

\* The reference that an EndPoint is made with, until shutdown() drops it.
OwnRef(e) ==
    IF \/ e[1] \in all_tie_leaders /\ ~(e[2] = "remote" /\ ShutBy(e[1]) /\ sdpc["poll"] = "erase")
       \/ e[2] = "client" /\ ShutBy(e[1]) /\ sdpc["poll"] = "release1"
    THEN 1 ELSE 0

\* Every reference is accounted for.
Counted ==
    /\ \A e \in Ends : refcnt_[e] = OwnRef(e) + RegistryRefs(e)
    /\ \A e \in freed : OwnRef(e) = 0 /\ RegistryRefs(e) = 0

SafeCrash == crash \in {"none", "add"}

Orderly == Quiet /\ FollowerLast /\ OwnEntry /\ OwnFile /\ Whole /\ ShutState /\ EntryOK /\ Counted

Held == IntactInv /\ CountInv /\ ServersOnly /\ Orderly

-------------------------------------------------------------------------------
\* The premise can only be lost.
LEMMA PremiseBefore ==
    ASSUME TypeInv, [Next]_vars, ServersOnly'
    PROVE  ServersOnly
<1>1. CASE Environment
  <2>1. CASE \E e \in Ends : Outside(e) /\ UNCHANGED <<dbVars, mainVars>>
    BY <2>1 DEF Outside, Arrive, Consume, Hangup, ServersOnly
  <2>2. CASE (\E k \in Keys : EditRoute(k)) \/ Signal
    BY <2>2 DEF EditRoute, Signal, ServersOnly, TypeInv, TypeOK, MainTypeOK
  <2> QED BY <1>1, <2>1, <2>2 DEF Environment
<1>2. CASE ~Environment
  <2>1. UNCHANGED <<hup, edits, stop>>
    BY <1>2, Cases, OperatorFrame, PollFrame, CleanupFrame, ShutFrame, MainFrame, StopFrame
       DEF allButCrash
  <2> QED BY <2>1 DEF ServersOnly
<1> QED BY <1>1, <1>2

\* All of it holds initially.
LEMMA OrderlyInit == Init => Orderly
<1> SUFFICES ASSUME Init PROVE Orderly
  OBVIOUS
<1> USE DEF Init, KernelInit, PollThreadInit
<1>1. Quiet /\ ShutState
  BY DEF Quiet, ShutState
<1>5. FollowerLast
  BY EndFacts DEF FollowerLast
<1>2. OwnEntry /\ Whole /\ OwnFile
  BY EndFacts DEF OwnEntry, Whole, OwnFile, HoldsFd, InTie, Ends, Sides
<1>3. EntryOK
  BY DEF EntryOK, Entries, Handling
<1>4. Counted
  <2>1. \A e \in Ends : OwnRef(e) = 0
    BY DEF OwnRef, ShutBy
  <2>2. \A e \in Ends : RegistryRefs(e) = 0
    BY EndFacts DEF RegistryRefs, Taken, Listed
  <2> QED BY <2>1, <2>2 DEF Counted
<1> QED BY <1>1, <1>2, <1>3, <1>4, <1>5 DEF Orderly

\* A step that is none of the operators, the poll thread or its shutdown().
Aside ==
    UNCHANGED <<file, eptr, emask, registryVars, refVars, fd_, endVars, opc, pollLocal, sdVars,
                routes, outlier, mpc, stop_flag_>>

\* The steps that are left under the premise.
LEMMA Kinds ==
    ASSUME Held, ServersOnly', [Next]_vars
    PROVE  \/ \E s \in Sessions : Accept(s) \/ Handshake(s)
           \/ \E s \in Sessions : TieSteps(s)
           \/ PollStep /\ sdpc["poll"] = "idle"
           \/ ShutdownStep("poll") /\ ppc = "next"
           \/ Aside /\ (cpc' = "scan" => valid' = Keys)
<1> USE DEF Held, Orderly, Quiet
<1>1. CASE PollStep
  <2>1. sdpc["poll"] = "idle" \/ ppc = "next"
    OBVIOUS
  <2>2. ppc = "next" => PollNext
    BY <1>1 DEF PollStep, PollWait, HandlerNotEnabled, HandleRead, HandleReadMode, HandleWrite,
                HandleWriteMode, HandleError, SwapPending, DrainOne, DrainDone, PollExit
  <2> QED BY <1>1, <2>1, <2>2 DEF PollNext
<1>2. CASE CleanupStep
  <2>1. CASE CleanupScan
    <3>1. all_tie_leaders \subseteq Sessions
      BY DEF IntactInv, RegistryInv, TypeInv, TypeOK, OperatorTypeOK
    <3>2. outlier' = {}
      BY <2>1, <3>1, EndPointAssumption DEF CleanupScan
    <3> QED BY <1>2, <2>1, <3>2, CleanupFrame DEF Aside, CleanupScan
  <2>2. CASE ~CleanupScan
    <3>1. UNCHANGED <<sdVars, outlier>> /\ (cpc' = "scan" => valid' = Keys)
      BY <1>2, <2>2 DEF CleanupStep, CleanupQuery, CleanupQueryFails, CleanupShutdown,
                        CleanupSleep, CleanupExit
    <3> QED BY <1>2, <3>1, CleanupFrame DEF Aside
  <2> QED BY <2>1, <2>2
<1>3. CASE \E t \in Shutters : ShutdownStep(t)
  BY <1>3 DEF ShutdownStep, ShutClose, ShutRemove, ShutErase, ShutRelease
<1>4. CASE MainStep
  BY <1>4 DEF MainStep, MainJoins, DtorCopy, DtorRemove, DtorStop, MainDone, ServersOnly
<1>5. CASE Environment
  <2>1. UNCHANGED routes
    <3>1. ~\E k \in Keys : EditRoute(k)
      BY DEF EditRoute, ServersOnly
    <3> QED BY <1>5, <3>1 DEF Environment, Signal
  <2> QED BY <1>5, <2>1, EnvironmentFrame DEF Aside
<1>6. CASE Failure \/ UNCHANGED vars
  BY <1>6, StopFrame DEF Aside, allButCrash
<1> QED BY <1>1, <1>2, <1>3, <1>4, <1>5, <1>6, Cases

\* What a step of an operator leaves alone, in one line.
LEMMA OperatorAside ==
    ASSUME NEW s \in Sessions, Accept(s) \/ Handshake(s) \/ TieSteps(s)
    PROVE  UNCHANGED <<pending_remove_, removing, ppc, batch, cur, sdpc, sds, freed, routes,
                       outlier, cpc, valid, mpc, stop_flag_>>
BY OperatorFrame

\* Outside tie_fd an operator moves one session, in its handshake.
LEMMA HandshakeMoves ==
    ASSUME TypeInv, NEW s \in Sessions, Accept(s) \/ Handshake(s)
    PROVE  /\ UNCHANGED <<registryVars, enabled_>>
           /\ opc[s] \in Early
           /\ \/ opc'[s] \in Early \cup {"done"} /\ UNCHANGED <<refVars, all_tie_leaders>>
              \/ Tie(s) /\ opc[s] = "tie" /\ opc'[s] = "ref1"
           /\ \A r \in Sessions : r # s => opc'[r] = opc[r]
BY DEF Accept, Handshake, Authenticate, ConnectTo, RemoteFails, HandshakeFails, Tie, GoTo,
       TypeInv, TypeOK, OperatorTypeOK, Early

\* In tie_fd it moves one session from step to step.
LEMMA TieMoves ==
    ASSUME TypeInv, NEW s \in Sessions, TieSteps(s)
    PROVE  /\ UNCHANGED <<file, fd_, pending_remove_, all_tie_leaders>>
           /\ opc[s] \in InTie
           /\ \/ opc'[s] \in InTie
              \/ opc[s] = "ready2" /\ opc'[s] = "done"
           /\ \A r \in Sessions : r # s => opc'[r] = opc[r]
BY DEF TieSteps, AddRef, AddRegister, AddEpoll, Ready, AddInsert, AddCtl, GoTo,
       TypeInv, TypeOK, OperatorTypeOK, InTie

\* add() enters its argument and nobody else.
LEMMA TieInserts ==
    ASSUME TypeInv, NEW s \in Sessions, NEW x \in Ends,
           AddRef(s, x) \/ AddRegister(s, x) \/ AddEpoll(s, x) \/ Ready(s, x)
    PROVE  /\ x[1] = s
           /\ \A e \in Ends : (Inserted(e)' <=> Inserted(e)) \/ (AddRegister(s, x) /\ e = x)
           /\ AddRegister(s, x) => poll_set_' = poll_set_ \cup {x}
           /\ ~AddRegister(s, x) => UNCHANGED poll_set_
<1> USE DEF TypeInv, TypeOK
<1>1. \A r \in Sessions : r # s => opc'[r] = opc[r]
  BY DEF AddRef, AddRegister, AddEpoll, Ready, GoTo, OperatorTypeOK
<1>2. \A e \in Ends : e[1] # s => (Inserted(e)' <=> Inserted(e))
  BY <1>1, EndFacts DEF Inserted
<1>3. CASE AddRef(s, x) \/ AddEpoll(s, x) \/ Ready(s, x)
  <2>1. opc[s] \in {"ref1", "ref2", "ctl1", "ctl2", "ready1", "ready2"}
        /\ opc'[s] = [ref1 |-> "ins1", ref2 |-> "ins2", ctl1 |-> "ref2", ctl2 |-> "ready1",
                      ready1 |-> "ready2", ready2 |-> "done"][opc[s]]
    BY <1>3 DEF AddRef, AddEpoll, Ready, GoTo, OperatorTypeOK
  <2>2. \A e \in Ends : e[1] = s => (Inserted(e)' <=> Inserted(e))
    BY <2>1 DEF Inserted
  <2>3. ~AddRegister(s, x) /\ UNCHANGED poll_set_ /\ x[1] = s
    BY <1>3, EndFacts DEF AddRef, AddEpoll, Ready, AddRegister
  <2> QED BY <1>2, <2>2, <2>3
<1>4. CASE AddRegister(s, x)
  <2>1. \/ x = leader(s) /\ opc[s] = "ins1" /\ opc'[s] = "ctl1"
        \/ x = follower(s) /\ opc[s] = "ins2" /\ opc'[s] = "ctl2"
    BY <1>4 DEF AddRegister, GoTo, OperatorTypeOK
  <2>2. \A e \in Ends : e[1] = s /\ e # x => (Inserted(e)' <=> Inserted(e))
    BY <2>1, EndFacts DEF Inserted
  <2> QED BY <1>2, <1>4, <2>1, <2>2, EndFacts DEF AddRegister, AddInsert
<1> QED BY <1>3, <1>4

\* shutdown() in the poll thread: what each of its steps changes.
LEMMA PollShut ==
    ASSUME TypeInv, ShutdownStep("poll")
    PROVE  /\ UNCHANGED <<fd_, enabled_, opc, pollLocal, cleanupLocal, dbVars, mainVars>>
           /\ sdpc["poll"] # "idle" /\ sds["poll"] \in Sessions
           /\ sdpc'["cleanup"] = sdpc["cleanup"]
           /\ ShutEnd("poll") \in Ends
           /\ \/ ShutClose("poll") /\ sdpc["poll"] = "close1" /\ sdpc'["poll"] = "remove1"
              \/ ShutClose("poll") /\ sdpc["poll"] = "close2" /\ sdpc'["poll"] = "remove2"
              \/ ShutRemove("poll") /\ sdpc["poll"] = "remove1" /\ sdpc'["poll"] = "close2"
              \/ ShutRemove("poll") /\ sdpc["poll"] = "remove2" /\ sdpc'["poll"] = "release2"
              \/ ShutRelease("poll") /\ sdpc["poll"] = "release2" /\ sdpc'["poll"] = "erase"
              \/ ShutErase("poll") /\ sdpc["poll"] = "erase" /\ sdpc'["poll"] = "release1"
              \/ ShutRelease("poll") /\ sdpc["poll"] = "release1" /\ sdpc'["poll"] = "idle"
           /\ sdpc'["poll"] # "idle" => sds' = sds
<1> USE DEF TypeInv, TypeOK
<1>1. UNCHANGED <<fd_, enabled_, opc, pollLocal, cleanupLocal, dbVars, mainVars>>
  BY ShutFrame
<1>2. sdpc["poll"] # "idle"
  BY DEF ShutdownStep, ShutClose, ShutRemove, ShutErase, ShutRelease
<1>3. sds["poll"] \in Sessions /\ ShutEnd("poll") \in Ends
  BY <1>2, ShutEndType DEF ControlInv
<1>4. CASE ShutClose("poll") \/ ShutRemove("poll") \/ ShutErase("poll")
  BY <1>1, <1>2, <1>3, <1>4 DEF ShutClose, ShutRemove, ShutErase, PollTypeOK
<1>5. CASE ShutRelease("poll")
  BY <1>1, <1>2, <1>3, <1>5 DEF ShutRelease, PollTypeOK
<1> QED BY <1>4, <1>5 DEF ShutdownStep

-------------------------------------------------------------------------------
\* Quiet is kept.
LEMMA QuietNext ==
    ASSUME Held, ServersOnly', [Next]_vars
    PROVE  Quiet'
<1> USE DEF Held, Orderly, Quiet, IntactInv, RegistryInv, TypeInv, TypeOK
<1>1. CASE \E s \in Sessions : Accept(s) \/ Handshake(s) \/ TieSteps(s)
  BY <1>1, OperatorAside
<1>2. CASE PollStep /\ sdpc["poll"] = "idle"
  <2>1. UNCHANGED <<routes, cpc, valid, outlier, mpc, stop_flag_>>
    BY <1>2, PollFrame
  <2>2. CASE HandleError
    <3>1. cur.ev \ {"HUP"} = {}
      BY <2>2 DEF EntryOK, HandleError
    <3>2. ppc' = "next"
      BY <2>2, <3>1 DEF HandleError, HandlerDone, FirstHandler
    <3>3. sdpc'["cleanup"] = "idle"
      BY <2>2 DEF HandleError, StartShutdown, PollTypeOK
    <3> QED BY <2>1, <3>2, <3>3
  <2>3. CASE ~HandleError
    <3>1. UNCHANGED sdpc
      BY <1>2, <2>3 DEF PollStep, PollWait, PollNext, HandlerNotEnabled, HandleRead,
                        HandleReadMode, HandleWrite, HandleWriteMode, SwapPending, DrainOne,
                        DrainDone, PollExit
    <3> QED BY <1>2, <2>1, <3>1
  <2> QED BY <2>2, <2>3
<1>3. CASE ShutdownStep("poll") /\ ppc = "next"
  BY <1>3, PollShut
<1>4. CASE Aside /\ (cpc' = "scan" => valid' = Keys)
  BY <1>4 DEF Aside
<1> QED BY <1>1, <1>2, <1>3, <1>4, Kinds

\* FollowerLast is kept, whatever happens.
LEMMA FollowerNext ==
    ASSUME TypeInv, FollowerLast, [Next]_vars
    PROVE  FollowerLast'
<1> USE DEF TypeInv, TypeOK
<1>1. CASE \E s \in Sessions : Accept(s) \/ Handshake(s)
  <2>1. PICK s \in Sessions : Accept(s) \/ Handshake(s)
    BY <1>1
  <2> QED BY <2>1, HandshakeMoves DEF FollowerLast, Early
<1>2. CASE \E s \in Sessions : TieSteps(s)
  <2>1. PICK s \in Sessions, e \in Ends :
            AddRef(s, e) \/ AddRegister(s, e) \/ AddEpoll(s, e) \/ Ready(s, e)
    BY <1>2 DEF TieSteps
  <2>2. opc[s] # "done" /\ \A r \in Sessions : r # s => opc'[r] = opc[r]
    BY <2>1, TieMoves DEF TieSteps, InTie
  <2>3. CASE Ready(s, e)
    BY <2>2, <2>3, EndFacts DEF Ready, GoTo, FollowerLast, OperatorTypeOK
  <2>4. CASE ~Ready(s, e)
    <3>1. UNCHANGED enabled_
      BY <2>1, <2>4 DEF AddRef, AddRegister, AddEpoll
    <3> QED BY <2>2, <3>1 DEF FollowerLast
  <2> QED BY <2>3, <2>4
<1>3. CASE ~\E s \in Sessions : Accept(s) \/ Handshake(s) \/ TieSteps(s)
  BY <1>3, OperatorOnly DEF FollowerLast
<1> QED BY <1>1, <1>2, <1>3

\* Who holds a descriptor knows its number.
LEMMA HoldsKnows ==
    ASSUME TypeInv, NEW e \in Ends, HoldsFd(e)
    PROVE  fd_[e] \in Fds
<1>1. e \in poll_set_ => fd_[e] \in Fds
  BY DEF TypeInv, FdInv
<1>2. opc[e[1]] \notin {"idle", "done"} => fd_[leader(e[1])] \in Fds
  BY EndFacts DEF TypeInv, FdInv
<1>3. opc[e[1]] \in {"tie"} \cup InTie => fd_[follower(e[1])] \in Fds
  BY EndFacts DEF TypeInv, FdInv, InTie
<1> QED BY <1>1, <1>2, <1>3, EndSides DEF HoldsFd

\* A session that is being shut down is not in its handshake or in tie_fd.
LEMMA ShutDone ==
    ASSUME Held
    PROVE  /\ \A s \in Sessions : opc[s] # "done" => ~ShutBy(s)
           /\ \A e \in Ends : opc[e[1]] # "done" => ~Closing(e)
           /\ \A e \in Ends : Closing(e) => e \in poll_set_ /\ e = ShutEnd("poll")
BY EndFacts DEF Held, Orderly, ShutState, ShutBy, Closing, ShutEnd, IntactInv, RegistryInv,
                TypeInv, ControlInv

-------------------------------------------------------------------------------
(* Whose descriptor is whose.                                              *)

\* Closing what somebody holds closes nothing that another one holds.
LEMMA CloseOwn ==
    ASSUME TypeInv, OwnFile, NEW x \in Ends, HoldsFd(x), CloseFds({fd_[x]}), UNCHANGED fd_,
           \A e \in Ends : HoldsFd(e)' => HoldsFd(e) /\ e # x
    PROVE  OwnFile'
<1> SUFFICES ASSUME NEW e \in Ends, HoldsFd(e), e # x PROVE file'[fd_[e]] = e
  BY DEF OwnFile
<1>1. file[fd_[e]] = e /\ file[fd_[x]] = x /\ fd_[e] \in Fds
  BY HoldsKnows DEF OwnFile
<1> QED BY <1>1 DEF CloseFds

\* In the handshake.
LEMMA HandshakeFile ==
    ASSUME Held, NEW s \in Sessions, Accept(s) \/ Handshake(s)
    PROVE  OwnFile'
<1> USE DEF Held, Orderly, IntactInv, RegistryInv, TypeInv, TypeOK
<1>1. /\ UNCHANGED <<poll_set_, sdpc, sds>>
      /\ opc[s] \in Early
      /\ \A r \in Sessions : r # s => opc'[r] = opc[r]
  BY OperatorAside, HandshakeMoves
<1>2. \A e \in Ends : Closing(e)' <=> Closing(e)
  BY <1>1 DEF Closing
<1>3. \A e \in Ends : e[1] = s => e \notin poll_set_
  BY <1>1 DEF RegisteredLate
<1>4. \A e \in Ends : e[1] # s => (HoldsFd(e)' <=> HoldsFd(e))
  BY <1>1, <1>2, EndFacts DEF HoldsFd
<1>8. /\ HoldsFd(leader(s)) <=> opc[s] \notin {"idle", "done"}
      /\ HoldsFd(follower(s)) <=> opc[s] \in {"tie"} \cup InTie
  BY <1>3, EndFacts DEF HoldsFd
<1>9. /\ HoldsFd(leader(s))' <=> opc'[s] \notin {"idle", "done"}
      /\ HoldsFd(follower(s))' <=> opc'[s] \in {"tie"} \cup InTie
  BY <1>1, <1>3, EndFacts DEF HoldsFd
<1>10. \A e \in Ends : e[1] # s \/ e = leader(s) \/ e = follower(s)
  BY EndFacts
<1>5. CASE Accept(s) \/ ConnectTo(s)
  <2>1. PICK x \in Ends : OpenSocket(x) /\ ~HoldsFd(x)
                          /\ \A e \in Ends : e # x => (HoldsFd(e)' => HoldsFd(e))
    <3>1. CASE Accept(s)
      <4>1. OpenSocket(leader(s)) /\ opc[s] = "idle" /\ opc'[s] = "auth"
        BY <3>1 DEF Accept, GoTo, OperatorTypeOK
      <4> HIDE DEF leader, follower
      <4> QED BY <1>4, <1>8, <1>9, <1>10, <4>1, EndFacts DEF InTie
    <3>2. CASE ConnectTo(s)
      <4>1. OpenSocket(follower(s)) /\ opc[s] = "connect" /\ opc'[s] = "tie"
        BY <3>2 DEF ConnectTo, GoTo, OperatorTypeOK
      <4> HIDE DEF leader, follower
      <4> QED BY <1>4, <1>8, <1>9, <1>10, <4>1, EndFacts DEF InTie
    <3> QED BY <1>5, <3>1, <3>2
  <2>2. PICK fd \in Fds : /\ file[fd] = NoEnd
                          /\ file' = [file EXCEPT ![fd] = x]
                          /\ fd_' = [fd_ EXCEPT ![x] = fd]
    BY <2>1 DEF OpenSocket, LowestFree
  <2>3. ASSUME NEW e \in Ends, e # x, HoldsFd(e)
        PROVE  file'[fd_'[e]] = e
    <3>1. file[fd_[e]] = e /\ fd_[e] \in Fds
      BY <2>3, HoldsKnows DEF OwnFile
    <3>2. fd_[e] # fd
      BY <2>2, <3>1, EndFacts
    <3> QED BY <2>2, <2>3, <3>1, <3>2 DEF PollThreadTypeOK, KernelTypeOK
  <2>4. file'[fd_'[x]] = x
    BY <2>2 DEF PollThreadTypeOK, KernelTypeOK
  <2> QED BY <2>1, <2>3, <2>4 DEF OwnFile
<1>6. CASE RemoteFails(s) \/ HandshakeFails(s)
  <2>1. UNCHANGED fd_
    BY <1>6 DEF RemoteFails, HandshakeFails
  <2>2. PICK x \in Ends : CloseFds({fd_[x]}) /\ HoldsFd(x)
                          /\ \A e \in Ends : HoldsFd(e)' => HoldsFd(e) /\ e # x
    <3>1. CASE RemoteFails(s)
      <4>1. CloseFds({fd_[follower(s)]}) /\ opc[s] = "tie" /\ opc'[s] \in {"connect", "fail"}
        BY <3>1 DEF RemoteFails, GoTo, OperatorTypeOK
      <4> HIDE DEF leader, follower
      <4> QED BY <1>4, <1>8, <1>9, <1>10, <4>1, EndFacts DEF InTie
    <3>2. CASE HandshakeFails(s)
      <4>1. CloseFds({fd_[leader(s)]}) /\ opc[s] \in {"auth", "connect", "fail"} /\ opc'[s] = "done"
        BY <3>2 DEF HandshakeFails, GoTo, OperatorTypeOK
      <4> HIDE DEF leader, follower
      <4> QED BY <1>4, <1>8, <1>9, <1>10, <4>1, EndFacts DEF InTie
    <3> QED BY <1>6, <3>1, <3>2
  <2> QED BY <2>1, <2>2, CloseOwn
<1>7. CASE Authenticate(s) \/ Tie(s)
  <2>1. UNCHANGED <<file, fd_>>
    BY <1>7 DEF Authenticate, Tie
  <2>2. \/ opc[s] = "auth" /\ opc'[s] = "connect"
        \/ opc[s] = "tie" /\ opc'[s] = "ref1"
    BY <1>7 DEF Authenticate, Tie, GoTo, OperatorTypeOK
  <2>3. \A e \in Ends : HoldsFd(e)' => HoldsFd(e)
    BY <1>1, <1>3, <1>4, <2>2, EndFacts, EndSides DEF HoldsFd, InTie
  <2> QED BY <2>1, <2>3 DEF OwnFile
<1> QED BY <1>5, <1>6, <1>7 DEF Handshake

\* OwnFile is kept.
LEMMA FileNext ==
    ASSUME Held, ServersOnly', [Next]_vars
    PROVE  OwnFile'
<1> USE DEF Held, Orderly, IntactInv, RegistryInv, TypeInv, TypeOK
<1>1. CASE \E s \in Sessions : Accept(s) \/ Handshake(s)
  BY <1>1, HandshakeFile
<1>2. CASE \E s \in Sessions : TieSteps(s)
  <2>1. PICK s \in Sessions, x \in Ends :
            AddRef(s, x) \/ AddRegister(s, x) \/ AddEpoll(s, x) \/ Ready(s, x)
    BY <1>2 DEF TieSteps
  <2>2. /\ UNCHANGED <<file, fd_, sdpc, sds>>
        /\ opc[s] \in InTie
        /\ \A r \in Sessions : r # s => opc'[r] = opc[r]
        /\ \/ opc'[s] \in InTie
           \/ opc[s] = "ready2" /\ opc'[s] = "done"
    BY <2>1, TieMoves, OperatorAside DEF TieSteps
  <2>3. \A e \in Ends : e \in poll_set_' => e \in poll_set_ \/ e[1] = s
    BY <2>1, TieInserts
  <2>4. \A e \in Ends : HoldsFd(e)' => HoldsFd(e)
    <3>1. \A e \in Ends : e[1] = s => HoldsFd(e)
      BY <2>2, EndSides DEF HoldsFd, InTie
    <3>2. \A e \in Ends : e[1] # s => (HoldsFd(e)' => HoldsFd(e))
      BY <2>2, <2>3, EndFacts DEF HoldsFd, Closing
    <3> QED BY <3>1, <3>2
  <2> QED BY <2>2, <2>4 DEF OwnFile
<1>3. CASE PollStep /\ sdpc["poll"] = "idle"
  <2>1. UNCHANGED <<file, fd_, opc, poll_set_>>
    BY <1>3, PollFrame
  <2>2. \A e \in Ends : HoldsFd(e)' => HoldsFd(e)
    BY <1>3, <2>1 DEF HoldsFd, Closing
  <2> QED BY <2>1, <2>2 DEF OwnFile
<1>4. CASE ShutdownStep("poll") /\ ppc = "next"
  <2>1. UNCHANGED <<fd_, opc>>
    BY <1>4, PollShut
  <2>2. CASE ShutClose("poll")
    <3>1. PICK x \in Ends : x = ShutEnd("poll")
      BY <1>4, PollShut
    <3>2. CloseFds({fd_[x]}) /\ UNCHANGED <<poll_set_, sds>>
      BY <2>2, <3>1 DEF ShutClose
    <3>3. x \in poll_set_ /\ opc[x[1]] = "done" /\ Closing(x)'
      BY <1>4, <2>2, <3>1, <3>2, PollShut, EndFacts DEF ShutClose, ShutState, ShutEnd, Closing
    <3>4. ~\E e \in Ends : Closing(e)
      BY <2>2 DEF ShutClose, Closing
    <3>5. HoldsFd(x) /\ ~HoldsFd(x)'
      BY <2>1, <3>2, <3>3, <3>4 DEF HoldsFd, InTie
    <3>6. \A e \in Ends : HoldsFd(e)' => HoldsFd(e)
      BY <2>1, <3>2, <3>4 DEF HoldsFd
    <3> QED BY <2>1, <3>2, <3>5, <3>6, CloseOwn
  <2>3. CASE ~ShutClose("poll")
    <3>1. UNCHANGED file
      BY <1>4, <2>3 DEF ShutdownStep, ShutRemove, ShutErase, ShutRelease
    <3>2. \A e \in poll_set_' : e \in poll_set_ /\ ~Closing(e)
      <4>1. CASE ShutRemove("poll")
        <5>1. \A e \in Ends : Closing(e) => e = ShutEnd("poll")
          BY ShutDone
        <5>2. ShutEnd("poll") \in poll_set_
          BY <1>4, <4>1, PollShut DEF ShutRemove, ShutState, ShutEnd
        <5>3. poll_set_' = poll_set_ \ {ShutEnd("poll")}
          BY <4>1, <5>2 DEF ShutRemove, Remove
        <5> QED BY <5>1, <5>3 DEF PollThreadTypeOK
      <4>2. CASE ShutErase("poll") \/ ShutRelease("poll")
        BY <4>2 DEF ShutErase, ShutRelease, Closing
      <4> QED BY <1>4, <2>3, <4>1, <4>2 DEF ShutdownStep
    <3>3. \A e \in Ends : HoldsFd(e)' => HoldsFd(e)
      BY <2>1, <3>2 DEF HoldsFd
    <3> QED BY <2>1, <3>1, <3>3 DEF OwnFile
  <2> QED BY <2>2, <2>3
<1>5. CASE Aside
  <2>1. \A e \in Ends : HoldsFd(e)' => HoldsFd(e)
    BY <1>5 DEF Aside, HoldsFd, Closing
  <2> QED BY <1>5, <2>1 DEF Aside, OwnFile
<1> QED BY <1>1, <1>2, <1>3, <1>4, <1>5, Kinds

-------------------------------------------------------------------------------
(* Which sessions can be shut down, and how far it is.                     *)

\* Whole is kept.
LEMMA WholeNext ==
    ASSUME Held, ServersOnly', [Next]_vars
    PROVE  Whole'
<1> USE DEF Held, Orderly, IntactInv, RegistryInv, TypeInv, TypeOK
<1>0. all_tie_leaders \subseteq Sessions
  BY DEF OperatorTypeOK
<1>1. CASE \E s \in Sessions : Accept(s) \/ Handshake(s)
  <2>1. PICK s \in Sessions : Accept(s) \/ Handshake(s)
    BY <1>1
  <2>2. /\ UNCHANGED <<poll_set_, sdpc, sds>>
        /\ opc[s] \in Early
        /\ \A r \in Sessions : r # s => opc'[r] = opc[r]
        /\ \/ opc'[s] \in Early \cup {"done"} /\ UNCHANGED all_tie_leaders
           \/ opc'[s] = "ref1" /\ all_tie_leaders' = all_tie_leaders \cup {s}
    BY <2>1, OperatorAside, HandshakeMoves DEF Tie
  <2>3. s \notin all_tie_leaders /\ ~ShutBy(s)
    BY <2>2, ShutDone DEF TiedInv, Settled, Early
  <2>4. \A r \in Sessions : ShutBy(r)' <=> ShutBy(r)
    BY <2>2 DEF ShutBy
  <2>5. \A r \in Sessions : opc'[r] \in InTie => r \in all_tie_leaders' /\ ~ShutBy(r)'
    BY <2>2, <2>3, <2>4 DEF Whole, Early, InTie
  <2>6. \A e \in poll_set_' : e[1] \in all_tie_leaders'
    BY <2>2 DEF Whole
  <2>7. ASSUME NEW e \in Ends, e[1] \in all_tie_leaders', ~ShutBy(e[1])', Inserted(e)'
        PROVE  e \in poll_set_'
    <3>1. ASSUME e[1] = s PROVE FALSE
      <4>1. opc'[s] \notin Early \cup {"ref1"}
        BY <2>7, <3>1 DEF Inserted, Early
      <4> QED BY <2>2, <2>3, <2>7, <3>1, <4>1
    <3>2. Inserted(e) /\ e[1] \in all_tie_leaders /\ ~ShutBy(e[1])
      <4>1. e[1] \in Sessions /\ e[1] # s
        BY <3>1, EndFacts
      <4>2. opc'[e[1]] = opc[e[1]]
        BY <2>2, <4>1
      <4>3. e[1] \in all_tie_leaders
        BY <2>2, <2>7, <4>1
      <4> QED BY <2>4, <2>7, <4>1, <4>2, <4>3 DEF Inserted
    <3> QED BY <2>2, <3>2 DEF Whole
  <2> QED BY <2>5, <2>6, <2>7 DEF Whole
<1>2. CASE \E s \in Sessions : TieSteps(s)
  <2>1. PICK s \in Sessions, x \in Ends :
            AddRef(s, x) \/ AddRegister(s, x) \/ AddEpoll(s, x) \/ Ready(s, x)
    BY <1>2 DEF TieSteps
  <2>2. /\ UNCHANGED <<all_tie_leaders, sdpc, sds>>
        /\ opc[s] \in InTie
        /\ \A r \in Sessions : r # s => opc'[r] = opc[r]
    BY <2>1, TieMoves, OperatorAside DEF TieSteps
  <2>3. /\ x[1] = s
        /\ \A e \in Ends : Inserted(e)' /\ ~Inserted(e) => AddRegister(s, x) /\ e = x
        /\ poll_set_' = poll_set_ \/ poll_set_' = poll_set_ \cup {x}
        /\ AddRegister(s, x) => x \in poll_set_'
    BY <2>1, TieInserts
  <2>4. \A r \in Sessions : ShutBy(r)' <=> ShutBy(r)
    BY <2>2 DEF ShutBy
  <2>5. s \in all_tie_leaders /\ ~ShutBy(s)
    BY <2>2 DEF Whole
  <2>6. \A r \in Sessions : opc'[r] \in InTie => r \in all_tie_leaders' /\ ~ShutBy(r)'
    BY <2>2, <2>4, <2>5 DEF Whole
  <2>7. \A e \in poll_set_' : e[1] \in all_tie_leaders'
    BY <2>2, <2>3, <2>5 DEF Whole
  <2>8. ASSUME NEW e \in Ends, e[1] \in all_tie_leaders', ~ShutBy(e[1])', Inserted(e)'
        PROVE  e \in poll_set_'
    BY <2>2, <2>3, <2>4, <2>8, EndFacts DEF Whole
  <2> QED BY <2>6, <2>7, <2>8 DEF Whole
<1>3. CASE PollStep /\ sdpc["poll"] = "idle"
  <2>1. UNCHANGED <<opc, poll_set_, all_tie_leaders>>
    BY <1>3, PollFrame
  <2>2. CASE HandleError
    <3>1. cur.ptr \in Ends /\ enabled_[cur.ptr] /\ cur.ptr[2] = "remote" /\ cur.ptr \in poll_set_
      BY <2>2 DEF HandleError, ControlInv, EventRecords, EntryOK, Entries, Handling
    <3>2. opc[cur.ptr[1]] = "done"
      BY <3>1, EndFacts, EndSides DEF FollowerLast
    <3>3. \A r \in Sessions : ShutBy(r)' => r = cur.ptr[1]
      BY <2>2, <3>1 DEF HandleError, StartShutdown, PollTypeOK, ShutBy
    <3>4. \A r \in Sessions : ~ShutBy(r)
      BY <1>3 DEF ShutBy
    <3>5. \A r \in Sessions : opc'[r] \in InTie => r \in all_tie_leaders' /\ ~ShutBy(r)'
      BY <2>1, <3>2, <3>3 DEF Whole, InTie
    <3>6. \A e \in Ends : Inserted(e)' <=> Inserted(e)
      BY <2>1 DEF Inserted
    <3> QED BY <2>1, <3>4, <3>5, <3>6, EndFacts DEF Whole
  <2>3. CASE ~HandleError
    <3>1. UNCHANGED <<sdpc, sds>>
      BY <1>3, <2>3 DEF PollStep, PollWait, PollNext, HandlerNotEnabled, HandleRead,
                        HandleReadMode, HandleWrite, HandleWriteMode, SwapPending, DrainOne,
                        DrainDone, PollExit
    <3> QED BY <2>1, <3>1 DEF Whole, ShutBy, Inserted
  <2> QED BY <2>2, <2>3
<1>4. CASE ShutdownStep("poll") /\ ppc = "next"
  <2>0. PICK s \in Sessions : s = sds["poll"]
    BY <1>4, PollShut
  <2>1. UNCHANGED opc /\ sdpc["poll"] # "idle" /\ opc[s] = "done"
    BY <1>4, <2>0, PollShut DEF ShutState
  <2>2. \A r \in Sessions : r # s => ~ShutBy(r)' /\ ~ShutBy(r)
    BY <1>4, <2>0, PollShut DEF ShutBy
  <2>3. \A e \in Ends : Inserted(e)' <=> Inserted(e)
    BY <2>1 DEF Inserted
  <2>4. poll_set_' \subseteq poll_set_ /\ \A e \in poll_set_ : e[1] # s => e \in poll_set_'
    <3>1. ShutEnd("poll")[1] = s
      BY <2>0, EndFacts DEF ShutEnd
    <3>2. CASE ShutRemove("poll")
      BY <3>1, <3>2 DEF ShutRemove, Remove
    <3>3. CASE ~ShutRemove("poll")
      BY <1>4, <3>3 DEF ShutdownStep, ShutClose, ShutErase, ShutRelease
    <3> QED BY <3>2, <3>3
  <2>5. CASE ShutErase("poll")
    <3>1. /\ all_tie_leaders' = all_tie_leaders \ {s}
          /\ UNCHANGED poll_set_
          /\ leader(s) \in pending_remove_ /\ follower(s) \in pending_remove_
      BY <2>0, <2>5 DEF ShutErase, ShutState
    <3>2. \A e \in poll_set_ : e[1] # s
      BY <2>1, <3>1, EndFacts DEF StageInv, PollThreadTypeOK
    <3>3. \A r \in Sessions : opc'[r] \in InTie => r \in all_tie_leaders' /\ ~ShutBy(r)'
      BY <2>1, <2>2, <3>1 DEF Whole, InTie
    <3>4. ASSUME NEW e \in Ends, e[1] \in all_tie_leaders', ~ShutBy(e[1])', Inserted(e)'
          PROVE  e \in poll_set_'
      BY <2>2, <2>3, <3>1, <3>4, EndFacts DEF Whole
    <3> QED BY <3>1, <3>2, <3>3, <3>4 DEF Whole
  <2>6. CASE ~ShutErase("poll")
    <3>1. UNCHANGED all_tie_leaders
      BY <1>4, <2>6 DEF ShutdownStep, ShutClose, ShutRemove, ShutRelease
    <3>2. ShutBy(s)' \/ s \notin all_tie_leaders
      BY <1>4, <2>0, <2>6, PollShut DEF ShutBy, ShutState
    <3>3. \A r \in Sessions : opc'[r] \in InTie => r \in all_tie_leaders' /\ ~ShutBy(r)'
      BY <2>1, <2>2, <3>1 DEF Whole, InTie
    <3>4. ASSUME NEW e \in Ends, e[1] \in all_tie_leaders', ~ShutBy(e[1])', Inserted(e)'
          PROVE  e \in poll_set_'
      <4>1. e[1] # s
        BY <3>1, <3>2, <3>4
      <4> QED BY <2>2, <2>3, <2>4, <3>1, <3>4, <4>1, EndFacts DEF Whole
    <3> QED BY <2>4, <3>1, <3>3, <3>4 DEF Whole
  <2> QED BY <2>5, <2>6
<1>5. CASE Aside
  BY <1>5 DEF Aside, Whole, ShutBy, Inserted
<1> QED BY <1>1, <1>2, <1>3, <1>4, <1>5, Kinds

\* ShutState is kept.
LEMMA ShutNext ==
    ASSUME Held, ServersOnly', [Next]_vars
    PROVE  ShutState'
<1> USE DEF Held, Orderly, IntactInv, RegistryInv, TypeInv, TypeOK
<1>1. CASE \E s \in Sessions : Accept(s) \/ Handshake(s) \/ TieSteps(s)
  <2>1. PICK s \in Sessions : Accept(s) \/ Handshake(s) \/ TieSteps(s)
    BY <1>1
  <2>2. UNCHANGED <<sdpc, sds, pending_remove_, batch>>
    BY <2>1, OperatorAside
  <2>3. opc[s] # "done" /\ \A r \in Sessions : r # s => opc'[r] = opc[r]
    BY <2>1, HandshakeMoves, TieMoves DEF Early, InTie
  <2>4. poll_set_ \subseteq poll_set_' /\ (all_tie_leaders' = all_tie_leaders
                                           \/ all_tie_leaders' = all_tie_leaders \cup {s})
    <3>1. CASE Accept(s) \/ Handshake(s)
      BY <3>1, HandshakeMoves DEF Tie
    <3>2. CASE TieSteps(s)
      BY <3>2, TieMoves, TieInserts DEF TieSteps
    <3> QED BY <2>1, <3>1, <3>2
  <2>5. sdpc["poll"] # "idle" => sds["poll"] \in Sessions /\ sds["poll"] # s
    BY <2>3 DEF ShutState, ControlInv
  <2> QED BY <2>2, <2>3, <2>4, <2>5 DEF ShutState
<1>2. CASE PollStep /\ sdpc["poll"] = "idle"
  <2>1. UNCHANGED <<opc, poll_set_, all_tie_leaders>>
    BY <1>2, PollFrame
  <2>2. CASE HandleError
    <3> DEFINE s == cur.ptr[1]
    <3>1. cur.ptr \in Ends /\ enabled_[cur.ptr] /\ cur.ptr[2] = "remote" /\ cur.ptr \in poll_set_
          /\ \A b \in batch : b.ptr # cur.ptr
      BY <2>2 DEF HandleError, ControlInv, EventRecords, EntryOK, Entries, Handling
    <3>2. cur.ptr = follower(s) /\ s \in Sessions /\ opc[s] = "done"
      BY <3>1, EndFacts, EndSides DEF FollowerLast
    <3>3. s \in all_tie_leaders /\ ~ShutBy(s) /\ Inserted(leader(s))
      BY <1>2, <3>1, <3>2, EndFacts DEF Whole, ShutBy, Inserted
    <3>4. leader(s) \in poll_set_
      BY <3>2, <3>3, EndFacts DEF Whole
    <3>5. sdpc'["poll"] = "close1" /\ sds'["poll"] = s /\ UNCHANGED batch
      BY <2>2 DEF HandleError, StartShutdown, PollTypeOK
    <3> QED BY <2>1, <3>1, <3>2, <3>3, <3>4, <3>5 DEF ShutState
  <2>3. CASE ~HandleError
    <3>1. UNCHANGED <<sdpc, sds>>
      BY <1>2, <2>3 DEF PollStep, PollWait, PollNext, HandlerNotEnabled, HandleRead,
                        HandleReadMode, HandleWrite, HandleWriteMode, SwapPending, DrainOne,
                        DrainDone, PollExit
    <3> QED BY <1>2, <3>1 DEF ShutState
  <2> QED BY <2>2, <2>3
<1>3. CASE ShutdownStep("poll") /\ ppc = "next"
  <2>1. UNCHANGED <<opc, batch>> /\ sdpc["poll"] # "idle"
        /\ (sdpc'["poll"] # "idle" => sds' = sds)
    BY <1>3, PollShut
  <2>2. CASE ShutClose("poll")
    <3>1. UNCHANGED <<poll_set_, pending_remove_, all_tie_leaders>>
      BY <2>2 DEF ShutClose
    <3> QED BY <1>3, <2>1, <2>2, <3>1, PollShut DEF ShutClose, ShutState
  <2>3. CASE ShutRemove("poll")
    <3>0. PICK x \in Ends : x = ShutEnd("poll")
      BY <1>3, PollShut
    <3>1. Remove(x) /\ UNCHANGED all_tie_leaders
      BY <2>3, <3>0 DEF ShutRemove
    <3>2. x \in poll_set_
      BY <1>3, <2>3, <3>0, PollShut DEF ShutRemove, ShutState, ShutEnd
    <3>3. poll_set_' = poll_set_ \ {x} /\ pending_remove_' = pending_remove_ \cup {x}
      BY <3>1, <3>2 DEF Remove
    <3> QED BY <1>3, <2>1, <2>3, <3>0, <3>1, <3>3, PollShut, EndFacts
            DEF ShutRemove, ShutState, ShutEnd
  <2>4. CASE ShutErase("poll")
    <3>1. UNCHANGED <<poll_set_, pending_remove_>>
          /\ all_tie_leaders' = all_tie_leaders \ {sds["poll"]}
      BY <2>4 DEF ShutErase
    <3> QED BY <1>3, <2>1, <2>4, <3>1, PollShut DEF ShutErase, ShutState
  <2>5. CASE ShutRelease("poll")
    <3>1. UNCHANGED <<poll_set_, pending_remove_, all_tie_leaders>>
      BY <2>5 DEF ShutRelease
    <3> QED BY <1>3, <2>1, <2>5, <3>1, PollShut DEF ShutRelease, ShutState
  <2> QED BY <1>3, <2>2, <2>3, <2>4, <2>5 DEF ShutdownStep
<1>4. CASE Aside
  BY <1>4 DEF Aside, ShutState
<1> QED BY <1>1, <1>2, <1>3, <1>4, Kinds

-------------------------------------------------------------------------------
(* What epoll reports.                                                     *)

\* epoll_ctl on the descriptor of an EndPoint that holds it.
LEMMA SetOwn ==
    ASSUME TypeInv, NEW x \in Ends, NEW m, file[fd_[x]] = x, EpollSet(fd_[x], x, m),
           NEW y \in Ends, eptr'[y] # NoEnd
    PROVE  (eptr'[y] = y /\ y = x) \/ eptr'[y] = eptr[y]
BY DEF EpollSet, TypeInv, TypeOK, KernelTypeOK

\* close() and EPOLL_CTL_DEL only take entries away.
LEMMA EntriesGo ==
    ASSUME NEW fd, CloseFds({fd}) \/ EpollDel(fd), NEW y \in Ends, eptr'[y] # NoEnd
    PROVE  eptr'[y] = eptr[y]
BY DEF CloseFds, EpollDel

\* OwnEntry is kept by a step that makes no entry and unregisters nobody.
LEMMA EntryKeeps ==
    ASSUME OwnEntry, poll_set_ \subseteq poll_set_',
           \A y \in Ends : eptr'[y] = eptr[y] \/ eptr'[y] = NoEnd,
           \A y \in poll_set_ : Added(y) => Added(y)',
           \A y \in Ends : eptr'[y] # NoEnd => (Closing(y)' => Closing(y))
    PROVE  OwnEntry'
BY DEF OwnEntry

\* OwnEntry is kept.
LEMMA EntryNext ==
    ASSUME Held, ServersOnly', [Next]_vars
    PROVE  OwnEntry'
<1> USE DEF Held, Orderly, IntactInv, RegistryInv, TypeInv, TypeOK
<1>1. CASE \E s \in Sessions : Accept(s) \/ Handshake(s)
  <2>1. PICK s \in Sessions : Accept(s) \/ Handshake(s)
    BY <1>1
  <2>2. /\ UNCHANGED <<poll_set_, sdpc, sds>>
        /\ opc[s] \in Early
        /\ \A r \in Sessions : r # s => opc'[r] = opc[r]
    BY <2>1, OperatorAside, HandshakeMoves
  <2>3. \A y \in poll_set_ : Added(y) => Added(y)'
    BY <2>2, EndFacts DEF Added, RegisteredLate, PollThreadTypeOK
  <2>4. \A y \in Ends : eptr'[y] = eptr[y] \/ eptr'[y] = NoEnd
    <3>1. CASE RemoteFails(s) \/ HandshakeFails(s)
      BY <3>1, EntriesGo DEF RemoteFails, HandshakeFails
    <3>2. CASE ~(RemoteFails(s) \/ HandshakeFails(s))
      BY <2>1, <3>2 DEF Accept, Handshake, Authenticate, ConnectTo, Tie
    <3> QED BY <3>1, <3>2
  <2> QED BY <2>2, <2>3, <2>4, EntryKeeps DEF Closing
<1>2. CASE \E s \in Sessions : TieSteps(s)
  <2>1. PICK s \in Sessions, x \in Ends :
            AddRef(s, x) \/ AddRegister(s, x) \/ AddEpoll(s, x) \/ Ready(s, x)
    BY <1>2 DEF TieSteps
  <2>2. UNCHANGED <<sdpc, sds>> /\ opc[s] \in InTie /\ x[1] = s /\ poll_set_ \subseteq poll_set_'
    BY <2>1, TieMoves, TieInserts, OperatorAside DEF TieSteps
  <2>3. \A y \in Ends : (AddEpoll(s, x) /\ y = x) \/ (Added(y)' <=> Added(y))
    BY <2>1, AddedStays
  <2>4. CASE AddEpoll(s, x)
    <3>1. /\ EpollSet(fd_[x], x, RW) /\ UNCHANGED <<poll_set_, fd_, file>>
          /\ opc[s] = (IF x[2] = "client" THEN "ctl1" ELSE "ctl2")
          /\ opc'[s] = (IF x[2] = "client" THEN "ref2" ELSE "ready1")
      BY <2>4, EndSides, EndFacts DEF AddEpoll, AddCtl, GoTo, OperatorTypeOK
    <3>2. HoldsFd(x) /\ Inserted(x) /\ Added(x)'
      BY <2>2, <3>1, EndSides DEF HoldsFd, InTie, Inserted, Added
    <3>3. file[fd_[x]] = x /\ x \in poll_set_ /\ ~Closing(x)
      BY <2>2, <3>2, ShutDone DEF OwnFile, Whole, InTie
    <3>4. ASSUME NEW y \in Ends, eptr'[y] # NoEnd
          PROVE  eptr'[y] = y /\ y \in poll_set_' /\ Added(y)' /\ ~Closing(y)'
      <4>1. (eptr'[y] = y /\ y = x) \/ eptr'[y] = eptr[y]
        BY <3>1, <3>3, <3>4, SetOwn
      <4>2. CASE y = x
        BY <2>2, <3>1, <3>2, <3>3, <4>1, <4>2, <3>4 DEF OwnEntry, Closing
      <4>3. CASE y # x
        BY <2>2, <2>3, <3>1, <4>1, <4>3, <3>4 DEF OwnEntry, Closing
      <4> QED BY <4>2, <4>3
    <3> QED BY <3>4 DEF OwnEntry
  <2>5. CASE ~AddEpoll(s, x)
    <3>1. UNCHANGED eptr
      BY <2>1, <2>5 DEF AddRef, AddRegister, Ready
    <3> QED BY <2>2, <2>3, <2>5, <3>1, EntryKeeps DEF Closing, PollThreadTypeOK
  <2> QED BY <2>4, <2>5
<1>3. CASE PollStep /\ sdpc["poll"] = "idle"
  <2>1. UNCHANGED <<opc, poll_set_, fd_, file>>
    BY <1>3, PollFrame
  <2>2. \A y \in Ends : Added(y)' <=> Added(y)
    BY <2>1 DEF Added
  <2>3. \A y \in Ends : ~Closing(y)'
    <3>1. sdpc'["poll"] \in {"idle", "close1"}
      BY <1>3 DEF PollStep, PollWait, PollNext, HandlerNotEnabled, HandleRead,
                  HandleReadMode, HandleWrite, HandleWriteMode, SwapPending, DrainOne,
                  DrainDone, PollExit, HandleError, StartShutdown, PollTypeOK
    <3> QED BY <3>1 DEF Closing
  <2>4. CASE HandleReadMode \/ HandleWriteMode
    <3>1. PICK x \in Ends, m \in {R, RW} : UpdateMode(x, m) /\ Added(x)
      <4>1. cur.ptr \in Ends /\ enabled_[cur.ptr]
        BY <2>4 DEF HandleReadMode, HandleWriteMode, HandlerReady, ControlInv, EventRecords
      <4>2. opc[cur.ptr[1]] \in {"ready2", "done"}
        BY <4>1 DEF ReadyLate
      <4>3. Added(cur.ptr) /\ Added(peer_(cur.ptr)) /\ peer_(cur.ptr) \in Ends
        BY <4>1, <4>2, EndFacts DEF Added
      <4> QED BY <2>4, <4>1, <4>3 DEF HandleReadMode, HandleWriteMode, ModeAfterWrite
    <3>2. CASE ChangesMode(x, m)
      <4>1. x \in poll_set_ /\ EpollSet(fd_[x], x, m)
        BY <3>1, <3>2 DEF ChangesMode, UpdateMode
      <4>2. file[fd_[x]] = x
        BY <1>3, <4>1 DEF OwnFile, HoldsFd, Closing
      <4>3. ASSUME NEW y \in Ends, eptr'[y] # NoEnd
            PROVE  eptr'[y] = y /\ y \in poll_set_' /\ Added(y)' /\ ~Closing(y)'
        <5>1. (eptr'[y] = y /\ y = x) \/ eptr'[y] = eptr[y]
          BY <4>1, <4>2, <4>3, SetOwn
        <5> QED BY <2>1, <2>2, <2>3, <3>1, <4>1, <4>3, <5>1 DEF OwnEntry
      <4> QED BY <4>3 DEF OwnEntry
    <3>3. CASE ~ChangesMode(x, m)
      BY <2>1, <2>2, <2>3, <3>1, <3>3, EntryKeeps DEF UpdateMode, PollThreadTypeOK
    <3> QED BY <3>2, <3>3
  <2>5. CASE ~(HandleReadMode \/ HandleWriteMode)
    <3>1. \A y \in Ends : eptr'[y] = eptr[y] \/ eptr'[y] = NoEnd
      <4>1. CASE \E e \in Ends : DrainOne(e)
        BY <4>1, EntriesGo DEF DrainOne, ForgetFd
      <4>2. CASE ~\E e \in Ends : DrainOne(e)
        BY <1>3, <2>5, <4>2 DEF PollStep, PollWait, PollNext, HandlerNotEnabled, HandleRead,
              HandleWrite, HandleError, SwapPending, DrainDone, PollExit
      <4> QED BY <4>1, <4>2
    <3> QED BY <2>1, <2>2, <2>3, <3>1, EntryKeeps DEF PollThreadTypeOK
  <2> QED BY <2>4, <2>5
<1>4. CASE ShutdownStep("poll") /\ ppc = "next"
  <2>1. UNCHANGED opc
    BY <1>4, PollShut
  <2>2. \A y \in Ends : Added(y)' <=> Added(y)
    BY <2>1 DEF Added
  <2>3. CASE ShutClose("poll")
    <3>1. PICK x \in Ends : x = ShutEnd("poll")
      BY <1>4, PollShut
    <3>2. CloseFds({fd_[x]}) /\ UNCHANGED <<poll_set_, sds>>
      BY <2>3, <3>1 DEF ShutClose
    <3>3. x \in poll_set_ /\ ~Closing(x)
      BY <1>4, <2>3, <3>1, PollShut, EndFacts DEF ShutClose, ShutState, ShutEnd, Closing
    <3>4. eptr'[x] = NoEnd
      BY <3>2, <3>3 DEF CloseFds, OwnFile, HoldsFd
    <3>5. \A y \in Ends : Closing(y)' => y = x
      BY <1>4, <2>3, <3>1, <3>2, PollShut DEF ShutClose, ShutEnd, Closing
    <3>6. \A y \in Ends : eptr'[y] = eptr[y] \/ eptr'[y] = NoEnd
      BY <3>2, EntriesGo
    <3> QED BY <2>2, <3>2, <3>4, <3>5, <3>6, EntryKeeps DEF PollThreadTypeOK
  <2>4. CASE ShutRemove("poll")
    <3>1. PICK x \in Ends : x = ShutEnd("poll")
      BY <1>4, PollShut
    <3>2. Closing(x) /\ \A y \in Ends : ~Closing(y)'
      BY <1>4, <2>4, <3>1, PollShut DEF ShutRemove, ShutEnd, Closing
    <3>3. \A y \in poll_set_ : y # x => y \in poll_set_'
      BY <2>4, <3>1 DEF ShutRemove, Remove
    <3>4. UNCHANGED eptr
      BY <2>4 DEF ShutRemove
    <3> QED BY <2>2, <3>2, <3>3, <3>4 DEF OwnEntry
  <2>5. CASE ShutErase("poll") \/ ShutRelease("poll")
    <3>1. UNCHANGED <<poll_set_, eptr>>
      BY <2>5 DEF ShutErase, ShutRelease
    <3>2. \A y \in Ends : ~Closing(y)'
      BY <1>4, <2>5, PollShut DEF ShutErase, ShutRelease, ShutClose, ShutRemove, Closing
    <3> QED BY <2>2, <3>1, <3>2 DEF OwnEntry
  <2> QED BY <1>4, <2>3, <2>4, <2>5 DEF ShutdownStep
<1>5. CASE Aside
  BY <1>5 DEF Aside, OwnEntry, Added, Closing
<1> QED BY <1>1, <1>2, <1>3, <1>4, <1>5, Kinds

-------------------------------------------------------------------------------
(* The events of a round.                                                  *)

\* What is in Entries has EndPoints.
LEMMA EntryEnds ==
    ASSUME TypeInv
    PROVE  \A b \in Entries : b \in EventRecords /\ b.ptr \in Ends /\ peer_(b.ptr) \in Ends
<1> SUFFICES ASSUME NEW b \in Entries
             PROVE  b \in EventRecords /\ b.ptr \in Ends /\ peer_(b.ptr) \in Ends
  OBVIOUS
<1>1. b \in EventRecords
  BY DEF TypeInv, TypeOK, PollTypeOK, ControlInv, Entries, Handling
<1>2. b.ptr \in Ends
  BY <1>1 DEF EventRecords
<1> QED BY <1>1, <1>2, EndFacts

\* handle_error is called last, when only EPOLLERR or EPOLLHUP is left.
LEMMA HangupLast ==
    ASSUME NEW ev \in SUBSET Events, FirstHandler(ev) = "error"
    PROVE  ev = {"HUP"}
BY DEF FirstHandler, Events

\* A step that handles no event, removes nobody and drains nobody.
LEMMA EventsStay ==
    ASSUME TypeInv, EntryOK, UNCHANGED <<ppc, batch, cur>>,
           \A e \in Ends : Listed(e) => Listed(e)',
           \A e \in Ends : Inserted(e)' => Inserted(e) \/ Listed(e)',
           \A b \in Entries : "HUP" \in b.ev => b.ptr \in poll_set_'
    PROVE  EntryOK'
<1>1. Entries' = Entries
  BY DEF Entries, Handling
<1>2. \A b \in Entries :
          /\ Listed(b.ptr)'
          /\ Inserted(peer_(b.ptr))' => Listed(peer_(b.ptr))'
          /\ "HUP" \in b.ev => b.ptr[2] = "remote" /\ b.ptr \in poll_set_'
  BY EntryEnds DEF EntryOK
<1> QED BY <1>1, <1>2 DEF EntryOK, Handling

\* The next handler of the same event, or none: the rest of the round.
LEMMA EventsRest ==
    ASSUME TypeInv, EntryOK, Handling, UNCHANGED <<batch, poll_set_, pending_remove_, removing, opc>>,
           \/ ppc' = "rmode" /\ UNCHANGED cur
           \/ ppc' = "wmode" /\ UNCHANGED cur
           \/ \E h : HandlerDone(h)
    PROVE  EntryOK'
<1>1. cur \in EventRecords
  BY DEF TypeInv, ControlInv, Handling
<1>2. Handling' => cur'.ptr = cur.ptr /\ cur'.ev \subseteq cur.ev
  <2>1. CASE \E h : HandlerDone(h)
    <3>1. PICK h : HandlerDone(h)
      BY <2>1
    <3>2. cur' = NoEvent => ppc' = "next"
      <4>1. FirstHandler(cur.ev \ {h}) # "next" => [cur EXCEPT !.ev = cur.ev \ {h}] # NoEvent
        BY <1>1, EndFacts DEF EventRecords, NoEvent
      <4> QED BY <3>1, <4>1 DEF HandlerDone
    <3>3. cur' = [cur EXCEPT !.ev = cur.ev \ {h}] => cur'.ptr = cur.ptr /\ cur'.ev \subseteq cur.ev
      BY <1>1 DEF EventRecords
    <3> QED BY <3>1, <3>2, <3>3 DEF HandlerDone, Handling
  <2>2. CASE UNCHANGED cur
    BY <2>2
  <2> QED BY <2>1, <2>2
<1>3. ppc' = "error" => cur'.ev = {"HUP"}
  <2> SUFFICES ASSUME ppc' = "error" PROVE cur'.ev = {"HUP"}
    OBVIOUS
  <2>1. PICK h : HandlerDone(h)
    OBVIOUS
  <2>2. FirstHandler(cur.ev \ {h}) = "error"
    BY <2>1 DEF HandlerDone
  <2>3. cur' = [cur EXCEPT !.ev = cur.ev \ {h}]
    BY <2>1, <2>2 DEF HandlerDone
  <2>4. cur'.ev = cur.ev \ {h} /\ cur.ev \ {h} \in SUBSET Events
    BY <1>1, <2>3 DEF EventRecords
  <2> QED BY <2>2, <2>4, HangupLast
<1>4. ppc' \in {"rmode", "wmode", "read", "write", "error", "next"}
  BY FirstHandlerIs DEF HandlerDone
<1>5. \A e \in Ends : (Listed(e)' <=> Listed(e)) /\ (Inserted(e)' <=> Inserted(e))
  BY DEF Listed, Inserted
<1>6. ASSUME NEW b \in Entries'
      PROVE  \E c \in Entries : b.ptr = c.ptr /\ b.ev \subseteq c.ev
  BY <1>2, <1>6 DEF Entries
<1>7. ASSUME NEW b \in Entries'
      PROVE  /\ Listed(b.ptr)'
             /\ Inserted(peer_(b.ptr))' => Listed(peer_(b.ptr))'
             /\ "HUP" \in b.ev => b.ptr[2] = "remote" /\ b.ptr \in poll_set_'
  <2>1. PICK c \in Entries : b.ptr = c.ptr /\ b.ev \subseteq c.ev
    BY <1>6
  <2>2. c.ptr \in Ends /\ peer_(c.ptr) \in Ends
    BY EntryEnds
  <2>3. Listed(c.ptr)' /\ (Inserted(peer_(c.ptr))' => Listed(peer_(c.ptr))')
    BY <1>5, <2>2 DEF EntryOK
  <2>4. "HUP" \in c.ev => c.ptr[2] = "remote" /\ c.ptr \in poll_set_'
    BY DEF EntryOK
  <2> QED BY <2>1, <2>3, <2>4
<1>8. Handling' => \A b \in batch' : b.ptr # cur'.ptr
  BY <1>2 DEF EntryOK
<1> QED BY <1>3, <1>4, <1>7, <1>8 DEF EntryOK, Handling

\* epoll_wait.
LEMMA WaitEvents ==
    ASSUME Held, PollWait, sdpc["poll"] = "idle"
    PROVE  EntryOK'
<1> USE DEF Held, Orderly, IntactInv, RegistryInv, TypeInv, TypeOK
<1>1. PICK B \in Takes : batch' = Reported(B)
  BY DEF PollWait
<1>2. B \subseteq Ends
  BY DEF Takes, KernelTypeOK
<1>3. ASSUME NEW b \in batch'
      PROVE  \E x \in Ends : /\ b = [sock |-> x, ptr |-> x, ev |-> ReadyEvents(x, emask[x])]
                             /\ x \in poll_set_
                             /\ "HUP" \in b.ev => x[2] = "remote"
  <2>1. PICK x \in B : /\ b = [sock |-> x, ptr |-> eptr[x], ev |-> ReadyEvents(x, emask[x])]
                       /\ eptr[x] # NoEnd
    BY <1>1, <1>3 DEF Reported
  <2>2. x \in Ends /\ eptr[x] = x /\ x \in poll_set_
    BY <1>2, <2>1 DEF OwnEntry
  <2>3. "HUP" \in b.ev => x \in hup
    BY <2>1 DEF ReadyEvents
  <2>4. x \in hup => x[2] = "remote"
    BY DEF ServersOnly
  <2> QED BY <2>1, <2>2, <2>3, <2>4
<1>4. UNCHANGED <<poll_set_, pending_remove_, removing, opc>> /\ ppc' = "next"
  BY DEF PollWait
<1>5. Entries' = batch' /\ ~Handling'
  BY <1>4 DEF Entries, Handling
<1>6. \A e \in Ends : (Listed(e)' <=> Listed(e)) /\ (Inserted(e)' <=> Inserted(e))
  BY <1>4 DEF Listed, Inserted
<1>7. \A x \in poll_set_ : Inserted(peer_(x)) => peer_(x) \in poll_set_
  <2> SUFFICES ASSUME NEW x \in poll_set_, Inserted(peer_(x)) PROVE peer_(x) \in poll_set_
    OBVIOUS
  <2>1. x \in Ends /\ peer_(x) \in Ends /\ peer_(x)[1] = x[1]
    BY EndFacts DEF PollThreadTypeOK
  <2>2. x[1] \in all_tie_leaders /\ ~ShutBy(x[1])
    BY DEF Whole, ShutBy
  <2> QED BY <2>1, <2>2 DEF Whole
<1>8. \A b \in batch' :
          /\ Listed(b.ptr)'
          /\ Inserted(peer_(b.ptr))' => Listed(peer_(b.ptr))'
          /\ "HUP" \in b.ev => b.ptr[2] = "remote" /\ b.ptr \in poll_set_'
  <2> SUFFICES ASSUME NEW b \in batch'
               PROVE  /\ Listed(b.ptr)'
                      /\ Inserted(peer_(b.ptr))' => Listed(peer_(b.ptr))'
                      /\ "HUP" \in b.ev => b.ptr[2] = "remote" /\ b.ptr \in poll_set_'
    OBVIOUS
  <2>1. PICK x \in Ends : b.ptr = x /\ x \in poll_set_ /\ ("HUP" \in b.ev => x[2] = "remote")
    BY <1>3
  <2>2. Listed(x) /\ (Inserted(peer_(x)) => Listed(peer_(x)))
    BY <1>7, <2>1 DEF Listed
  <2>3. peer_(x) \in Ends
    BY EndFacts
  <2> QED BY <1>4, <1>6, <2>1, <2>2, <2>3
<1>9. \A b, c \in batch' : b.ptr = c.ptr => b = c
  BY <1>3
<1> QED BY <1>4, <1>5, <1>8, <1>9 DEF EntryOK

\* EntryOK is kept.
LEMMA EventsNext ==
    ASSUME Held, ServersOnly', [Next]_vars
    PROVE  EntryOK'
<1> USE DEF Held, Orderly, IntactInv, RegistryInv, TypeInv, TypeOK
<1>1. CASE \E s \in Sessions : Accept(s) \/ Handshake(s)
  <2>1. PICK s \in Sessions : Accept(s) \/ Handshake(s)
    BY <1>1
  <2>2. /\ UNCHANGED <<poll_set_, pending_remove_, removing, ppc, batch, cur>>
        /\ opc[s] \in Early
        /\ \A r \in Sessions : r # s => opc'[r] = opc[r]
    BY <2>1, OperatorAside, HandshakeMoves
  <2>3. \A e \in Ends : Listed(e)' <=> Listed(e)
    BY <2>2 DEF Listed
  <2>4. ASSUME NEW b \in Entries
        PROVE  /\ Listed(b.ptr)'
               /\ Inserted(peer_(b.ptr))' => Listed(peer_(b.ptr))'
               /\ "HUP" \in b.ev => b.ptr[2] = "remote" /\ b.ptr \in poll_set_'
    <3>1. b.ptr \in Ends /\ peer_(b.ptr) \in Ends /\ peer_(b.ptr)[1] = b.ptr[1] /\ Listed(b.ptr)
      BY EntryEnds DEF EntryOK
    <3>2. b.ptr[1] # s /\ b.ptr[1] \in Sessions
      BY <2>2, <3>1, EndFacts DEF StageInv, Settled
    <3>3. Inserted(peer_(b.ptr))' <=> Inserted(peer_(b.ptr))
      BY <2>2, <3>1, <3>2 DEF Inserted
    <3> QED BY <2>2, <2>3, <3>1, <3>3 DEF EntryOK
  <2>5. Entries' = Entries
    BY <2>2 DEF Entries, Handling
  <2> QED BY <2>2, <2>4, <2>5 DEF EntryOK, Handling
<1>2. CASE \E s \in Sessions : TieSteps(s)
  <2>1. PICK s \in Sessions, x \in Ends :
            AddRef(s, x) \/ AddRegister(s, x) \/ AddEpoll(s, x) \/ Ready(s, x)
    BY <1>2 DEF TieSteps
  <2>2. /\ UNCHANGED <<pending_remove_, removing, ppc, batch, cur>>
        /\ poll_set_ \subseteq poll_set_'
        /\ \A e \in Ends : Inserted(e)' => Inserted(e) \/ e \in poll_set_'
    BY <2>1, TieInserts, OperatorAside DEF TieSteps
  <2>3. \A e \in Ends : (Listed(e) => Listed(e)') /\ (Inserted(e)' => Inserted(e) \/ Listed(e)')
    BY <2>2 DEF Listed
  <2> QED BY <2>2, <2>3, EventsStay DEF EntryOK
<1>3. CASE PollStep /\ sdpc["poll"] = "idle"
  <2>1. UNCHANGED <<opc, poll_set_>>
    BY <1>3, PollFrame
  <2>2. CASE PollWait
    BY <1>3, <2>2, WaitEvents
  <2>3. CASE PollNext /\ batch = {}
    <3>1. ppc' = "swap" /\ batch' = {}
      BY <2>3 DEF PollNext
    <3> QED BY <3>1 DEF EntryOK, Entries, Handling
  <2>4. CASE PollNext /\ batch # {}
    <3>1. PICK b \in batch : /\ batch' = batch \ {b} /\ cur' = b /\ ppc' = FirstHandler(b.ev)
                             /\ UNCHANGED <<pending_remove_, removing>>
      BY <2>4 DEF PollNext
    <3>2. Entries' \subseteq Entries
      BY <3>1 DEF Entries
    <3>3. \A e \in Ends : (Listed(e)' <=> Listed(e)) /\ (Inserted(e)' <=> Inserted(e))
      BY <2>1, <3>1 DEF Listed, Inserted
    <3>4. ppc' = "error" => b.ev = {"HUP"}
      <4>1. b.ev \subseteq Events
        BY <3>1 DEF PollTypeOK, EventRecords
      <4> QED BY <3>1, <4>1, HangupLast
    <3>5. \A c \in Entries' :
              /\ Listed(c.ptr)'
              /\ Inserted(peer_(c.ptr))' => Listed(peer_(c.ptr))'
              /\ "HUP" \in c.ev => c.ptr[2] = "remote" /\ c.ptr \in poll_set_'
      BY <2>1, <3>2, <3>3, EntryEnds DEF EntryOK
    <3>6. \A c \in batch' : c.ptr # cur'.ptr
      BY <3>1 DEF EntryOK
    <3>7. ppc' \in {"read", "write", "error", "next"}
      BY <3>1, FirstHandlerIs
    <3> QED BY <3>1, <3>4, <3>5, <3>6, <3>7 DEF EntryOK, Handling
  <2>5. CASE HandlerNotEnabled \/ HandleRead \/ HandleReadMode \/ HandleWrite
                \/ HandleWriteMode \/ HandleError
    <3>1. Handling /\ UNCHANGED <<batch, pending_remove_, removing>>
      BY <2>5 DEF HandlerNotEnabled, HandleRead, HandleReadMode, HandleWrite, HandleWriteMode,
                  HandleError, UpdateMode, Handling
    <3>2. \/ ppc' = "rmode" /\ UNCHANGED cur
          \/ ppc' = "wmode" /\ UNCHANGED cur
          \/ \E h : HandlerDone(h)
      BY <2>5 DEF HandlerNotEnabled, HandleRead, HandleReadMode, HandleWrite, HandleWriteMode,
                  HandleError
    <3> QED BY <2>1, <3>1, <3>2, EventsRest
  <2>6. CASE SwapPending \/ (\E e \in Ends : DrainOne(e)) \/ DrainDone \/ PollExit
    <3>1. batch' = batch /\ batch = {} /\ ppc' \in {"drain", "wait", "exited"}
      BY <2>6 DEF SwapPending, DrainOne, DrainDone, PollExit, EntryOK, Handling
    <3> QED BY <3>1 DEF EntryOK, Entries, Handling
  <2> QED BY <1>3, <2>2, <2>3, <2>4, <2>5, <2>6 DEF PollStep
<1>4. CASE ShutdownStep("poll") /\ ppc = "next"
  <2>1. UNCHANGED <<opc, ppc, batch, cur, removing>>
    BY <1>4, PollShut
  <2>2. CASE ShutRemove("poll")
    <3>1. PICK x \in Ends : x = ShutEnd("poll")
      BY <1>4, PollShut
    <3>2. Remove(x)
      BY <2>2, <3>1 DEF ShutRemove
    <3>3. \A e \in Ends : Listed(e)' <=> Listed(e)
      BY <2>1, <3>2 DEF Remove, Listed
    <3>4. \A b \in Entries : "HUP" \in b.ev => b.ptr # x
      <4>1. x = leader(sds["poll"]) \/ x = follower(sds["poll"])
        BY <3>1 DEF ShutEnd
      <4>2. Entries = batch
        BY <1>4 DEF Entries, Handling
      <4>3. \A b \in batch : b.ptr # follower(sds["poll"])
        BY <1>4, PollShut DEF ShutState
      <4>4. \A b \in Entries : "HUP" \in b.ev => b.ptr[2] = "remote"
        BY DEF EntryOK
      <4> QED BY <4>1, <4>2, <4>3, <4>4
    <3>5. \A b \in Entries : "HUP" \in b.ev => b.ptr \in poll_set_'
      BY <3>2, <3>4 DEF EntryOK, Remove
    <3> QED BY <2>1, <3>3, <3>5, EventsStay DEF Inserted
  <2>3. CASE ~ShutRemove("poll")
    <3>1. UNCHANGED <<poll_set_, pending_remove_>>
      BY <1>4, <2>3 DEF ShutdownStep, ShutClose, ShutErase, ShutRelease
    <3> QED BY <2>1, <3>1, EventsStay DEF Inserted, Listed, EntryOK
  <2> QED BY <2>2, <2>3
<1>5. CASE Aside
  BY <1>5, EventsStay DEF Aside, Inserted, Listed, EntryOK
<1> QED BY <1>1, <1>2, <1>3, <1>4, <1>5, Kinds

-------------------------------------------------------------------------------
(* The account of the references.                                          *)

\* Two references are the most that there can be.
LEMMA RefBounds == \A e : OwnRef(e) \in {0, 1} /\ RegistryRefs(e) \in {0, 1}
BY DEF OwnRef, RegistryRefs

\* A step that moves no reference.
LEMMA CountedStays ==
    ASSUME TypeInv, Counted, UNCHANGED <<refcnt_, freed>>,
           \A e \in Ends : OwnRef(e)' = OwnRef(e) /\ RegistryRefs(e)' = RegistryRefs(e)
    PROVE  Counted'
BY DEF Counted, TypeInv, TypeOK, PollThreadTypeOK

\* release() of a reference that x has.
LEMMA CountedRelease ==
    ASSUME TypeInv, Counted, NEW x \in Ends, Release(x),
           OwnRef(x)' + RegistryRefs(x)' = OwnRef(x) + RegistryRefs(x) - 1,
           \A e \in Ends \ {x} : OwnRef(e)' = OwnRef(e) /\ RegistryRefs(e)' = RegistryRefs(e)
    PROVE  Counted'
<1> USE DEF TypeInv, TypeOK, PollThreadTypeOK
<1>1. OwnRef(x)' \in {0, 1} /\ RegistryRefs(x)' \in {0, 1}
  BY DEF OwnRef, RegistryRefs
<1>2. refcnt_'[x] = refcnt_[x] - 1 /\ \A e \in Ends \ {x} : refcnt_'[e] = refcnt_[e]
  BY DEF Release
<1>3. refcnt_[x] = OwnRef(x) + RegistryRefs(x)
  BY DEF Counted
<1>4. OwnRef(x) \in {0, 1} /\ RegistryRefs(x) \in {0, 1}
  BY RefBounds
<1>5. refcnt_'[x] = OwnRef(x)' + RegistryRefs(x)'
  BY <1>2, <1>3, <1>4, <1>1
<1>6. x \notin freed
  BY <1>1, <1>4 DEF Counted
<1>7. x \in freed' => OwnRef(x)' = 0 /\ RegistryRefs(x)' = 0
  <2>1. x \in freed' => refcnt_[x] = 1
    BY <1>6 DEF Release
  <2> QED BY <2>1, <1>1, <1>2, <1>3, <1>4, <1>5
<1>8. \A e \in freed' : e = x \/ e \in freed
  BY DEF Release
<1> QED BY <1>2, <1>5, <1>7, <1>8 DEF Counted

\* The registry keeps its reference while e stays in one of its sets.
LEMMA RefsStay ==
    ASSUME UNCHANGED opc, NEW e, Listed(e)' <=> Listed(e)
    PROVE  RegistryRefs(e)' = RegistryRefs(e)
BY DEF RegistryRefs, Taken

\* tie_fd makes the two references of a session.
LEMMA TieCounted ==
    ASSUME Held, NEW s \in Sessions, Accept(s) \/ Handshake(s)
    PROVE  Counted'
<1> USE DEF Held, Orderly, CountInv, TypeInv, TypeOK
<1>1. /\ UNCHANGED <<registryVars, removing, freed, sdpc, sds>>
      /\ opc[s] \in Early
      /\ opc'[s] \in Early \cup {"done", "ref1"}
      /\ \A r \in Sessions : r # s => opc'[r] = opc[r]
  BY OperatorAside, HandshakeMoves
<1>2. \A e \in Ends : RegistryRefs(e)' = RegistryRefs(e)
  <2>1. \A e \in Ends : Listed(e)' <=> Listed(e)
    BY <1>1 DEF Listed
  <2>2. \A e \in Ends : Taken(e)' <=> Taken(e)
    BY <1>1, EndFacts DEF Taken, Early
  <2> QED BY <2>1, <2>2 DEF RegistryRefs
<1>3. CASE UNCHANGED <<refVars, all_tie_leaders>>
  BY <1>1, <1>2, <1>3, CountedStays DEF OwnRef, ShutBy
<1>4. CASE Tie(s)
  <2>1. /\ refcnt_' = [e \in Ends |-> IF e[1] = s THEN 1 ELSE refcnt_[e]]
        /\ all_tie_leaders' = all_tie_leaders \cup {s}
    BY <1>4 DEF Tie
  <2>2. ~ShutBy(s)
    BY <1>1, ShutDone DEF Early
  <2>3. \A e \in Ends : e[1] # s => OwnRef(e)' = OwnRef(e)
    BY <1>1, <2>1 DEF OwnRef, ShutBy
  <2>4. \A e \in Ends : e[1] = s => OwnRef(e)' = 1
    BY <1>1, <2>1, <2>2 DEF OwnRef, ShutBy
  <2>5. \A e \in Ends : e[1] = s => RegistryRefs(e) = 0
    BY <1>1 DEF RegistryRefs, Taken, Early, StageInv, Settled
  <2>6. \A e \in freed : e \in Ends /\ e[1] # s
    BY <1>1 DEF LeaderInv, Settled, PollThreadTypeOK
  <2>7. \A e \in Ends : refcnt_'[e] = OwnRef(e)' + RegistryRefs(e)'
    BY <1>2, <2>1, <2>3, <2>4, <2>5 DEF Counted
  <2> QED BY <1>1, <1>2, <2>3, <2>6, <2>7 DEF Counted
<1> QED BY <1>3, <1>4, HandshakeMoves

\* add() takes the registry's reference.
LEMMA AddCounted ==
    ASSUME Held, NEW s \in Sessions, NEW x \in Ends,
           AddRef(s, x) \/ AddRegister(s, x) \/ AddEpoll(s, x) \/ Ready(s, x)
    PROVE  Counted'
<1> USE DEF Held, Orderly, CountInv, TypeInv, TypeOK
<1>1. /\ UNCHANGED <<pending_remove_, removing, freed, sdpc, sds, all_tie_leaders>>
      /\ \A r \in Sessions : r # s => opc'[r] = opc[r]
      /\ x[1] = s
  BY OperatorAside, TieMoves, TieInserts DEF TieSteps
<1>2. \A e \in Ends : OwnRef(e)' = OwnRef(e)
  BY <1>1 DEF OwnRef, ShutBy
<1>3. \A e \in Ends : e[1] # s => (Taken(e)' <=> Taken(e))
  BY <1>1, EndFacts DEF Taken
<1>4. CASE AddRef(s, x)
  <2>1. /\ refcnt_' = [refcnt_ EXCEPT ![x] = @ + 1] /\ x \notin freed /\ UNCHANGED poll_set_
        /\ opc[s] = (IF x[2] = "client" THEN "ref1" ELSE "ref2")
        /\ opc'[s] = (IF x[2] = "client" THEN "ins1" ELSE "ins2")
    BY <1>4, EndSides, EndFacts DEF AddRef, RefCopy, Live, GoTo, OperatorTypeOK
  <2>2. \A e \in Ends : Listed(e)' <=> Listed(e)
    BY <1>1, <2>1 DEF Listed
  <2>3. RegistryRefs(x) = 0
    BY <1>1, <2>1 DEF RegistryRefs, Taken, StageInv, Inserted
  <2>4. RegistryRefs(x)' = 1
    BY <1>1, <2>1 DEF RegistryRefs, Taken
  <2>5. \A e \in Ends : e # x => (Taken(e)' <=> Taken(e))
    BY <1>1, <1>3, <2>1, EndSides DEF Taken
  <2>6. \A e \in Ends : e # x => RegistryRefs(e)' = RegistryRefs(e)
    BY <2>2, <2>5 DEF RegistryRefs
  <2>7. refcnt_'[x] = refcnt_[x] + 1 /\ \A e \in Ends : e # x => refcnt_'[e] = refcnt_[e]
    BY <2>1 DEF PollThreadTypeOK
  <2>8. \A e \in Ends : refcnt_'[e] = OwnRef(e)' + RegistryRefs(e)'
    <3>1. refcnt_[x] = OwnRef(x) /\ OwnRef(x) \in {0, 1}
      BY <2>3, RefBounds DEF Counted
    <3>2. refcnt_'[x] = OwnRef(x)' + RegistryRefs(x)'
      BY <1>2, <2>4, <2>7, <3>1
    <3> QED BY <1>2, <2>6, <2>7, <3>2 DEF Counted
  <2>9. \A e \in freed' : OwnRef(e)' = 0 /\ RegistryRefs(e)' = 0
    BY <1>1, <1>2, <2>1, <2>6 DEF Counted, PollThreadTypeOK
  <2> QED BY <2>8, <2>9 DEF Counted
<1>5. CASE AddRegister(s, x)
  <2>1. /\ poll_set_' = poll_set_ \cup {x} /\ UNCHANGED refcnt_
        /\ opc[s] = (IF x[2] = "client" THEN "ins1" ELSE "ins2")
        /\ opc'[s] = (IF x[2] = "client" THEN "ctl1" ELSE "ctl2")
    BY <1>5, EndSides, EndFacts DEF AddRegister, AddInsert, GoTo, OperatorTypeOK
  <2>2. RegistryRefs(x) = 1 /\ RegistryRefs(x)' = 1
    BY <1>1, <2>1 DEF RegistryRefs, Taken, Listed
  <2>3. \A e \in Ends : e # x => (Taken(e)' <=> Taken(e))
    BY <1>1, <1>3, <2>1, EndSides DEF Taken
  <2>4. \A e \in Ends : e # x => (Listed(e)' <=> Listed(e))
    BY <1>1, <2>1 DEF Listed
  <2>5. \A e \in Ends : e # x => RegistryRefs(e)' = RegistryRefs(e)
    BY <2>3, <2>4 DEF RegistryRefs
  <2> QED BY <1>1, <1>2, <2>1, <2>2, <2>5, CountedStays
<1>6. CASE AddEpoll(s, x) \/ Ready(s, x)
  <2>1. /\ UNCHANGED <<refcnt_, poll_set_>>
        /\ opc[s] \in {"ctl1", "ctl2", "ready1", "ready2"}
        /\ opc'[s] \in {"ref2", "ready1", "ready2", "done"}
    BY <1>6 DEF AddEpoll, Ready, GoTo, OperatorTypeOK
  <2>2. \A e \in Ends : (Taken(e)' <=> Taken(e)) /\ (Listed(e)' <=> Listed(e))
    BY <1>1, <1>3, <2>1 DEF Taken, Listed
  <2>3. \A e \in Ends : RegistryRefs(e)' = RegistryRefs(e)
    BY <2>2 DEF RegistryRefs
  <2> QED BY <1>1, <1>2, <2>1, <2>3, CountedStays
<1> QED BY <1>4, <1>5, <1>6

\* The poll loop drops it.
LEMMA PollCounted ==
    ASSUME Held, PollStep, sdpc["poll"] = "idle"
    PROVE  Counted'
<1> USE DEF Held, Orderly, CountInv, TypeInv, TypeOK
<1>1. UNCHANGED <<opc, poll_set_, all_tie_leaders>>
  BY PollFrame
<1>2. \A e \in Ends : OwnRef(e)' = OwnRef(e)
  <2>1. sdpc'["poll"] \in {"idle", "close1"}
    BY DEF PollStep, PollWait, PollNext, HandlerNotEnabled, HandleRead, HandleReadMode,
           HandleWrite, HandleWriteMode, SwapPending, DrainOne, DrainDone, PollExit,
           HandleError, StartShutdown, PollTypeOK
  <2> QED BY <1>1, <2>1 DEF OwnRef
<1>3. CASE \E x \in Ends : DrainOne(x)
  <2>1. PICK x \in Ends : DrainOne(x)
    BY <1>3
  <2>2. /\ Release(x) /\ x \in removing /\ removing' = removing \ {x}
        /\ UNCHANGED pending_remove_
    BY <2>1 DEF DrainOne
  <2>3. Listed(x) /\ ~Listed(x)' /\ ~Taken(x)'
    <3>1. Listed(x)
      BY <2>2 DEF Listed
    <3>2. ~Listed(x)'
      BY <1>1, <2>2 DEF Listed, StageInv
    <3>3. ~Taken(x)
      BY <3>1, EndSides DEF StageInv, Inserted, Taken
    <3> QED BY <1>1, <3>1, <3>2, <3>3 DEF Taken
  <2>4. RegistryRefs(x) = 1 /\ RegistryRefs(x)' = 0
    BY <2>3 DEF RegistryRefs
  <2>5. \A e \in Ends \ {x} : RegistryRefs(e)' = RegistryRefs(e)
    BY <1>1, <2>2, RefsStay DEF Listed
  <2>6. OwnRef(x)' + RegistryRefs(x)' = OwnRef(x) + RegistryRefs(x) - 1
    BY <1>2, <2>4, RefBounds
  <2> QED BY <1>2, <2>2, <2>5, <2>6, CountedRelease
<1>4. CASE ~\E x \in Ends : DrainOne(x)
  <2>1. ~PollExit
    BY DEF PollExit, Quiet
  <2>2. UNCHANGED refVars /\ pending_remove_' \cup removing' = pending_remove_ \cup removing
    BY <1>4, <2>1 DEF PollStep, PollWait, PollNext, HandlerNotEnabled, HandleRead, HandleReadMode,
                      HandleWrite, HandleWriteMode, HandleError, UpdateMode, SwapPending,
                      DrainDone, StageInv
  <2>3. \A e \in Ends : RegistryRefs(e)' = RegistryRefs(e)
    BY <1>1, <2>2, RefsStay DEF Listed
  <2> QED BY <1>2, <2>2, <2>3, CountedStays
<1> QED BY <1>3, <1>4

\* shutdown() drops the two references of tie_fd.
LEMMA ShutCounted ==
    ASSUME Held, ShutdownStep("poll")
    PROVE  Counted'
<1> USE DEF Held, Orderly, CountInv, TypeInv, TypeOK
<1>1. UNCHANGED <<opc, removing>> /\ sdpc["poll"] # "idle"
      /\ (sdpc'["poll"] # "idle" => sds' = sds)
  BY PollShut
<1>2. PICK s \in Sessions : s = sds["poll"]
  BY PollShut
<1>3. s \in all_tie_leaders <=> sdpc["poll"] # "release1"
  BY <1>1, <1>2 DEF ShutState
<1>4. CASE ShutClose("poll") \/ ShutRemove("poll")
  <2>1. UNCHANGED <<refVars, all_tie_leaders, sds>>
    BY <1>4 DEF ShutClose, ShutRemove
  <2>2. sdpc["poll"] \notin {"erase", "release1"} /\ sdpc'["poll"] \notin {"erase", "release1"}
    BY <1>4, PollShut DEF ShutClose, ShutRemove
  <2>3. \A e \in Ends : OwnRef(e)' = OwnRef(e)
    BY <2>1, <2>2 DEF OwnRef
  <2>4. \A e \in Ends : Listed(e)' <=> Listed(e)
    <3>1. CASE ShutClose("poll")
      BY <1>1, <3>1 DEF ShutClose, Listed
    <3>2. CASE ShutRemove("poll")
      BY <1>1, <3>2 DEF ShutRemove, Remove, Listed
    <3> QED BY <1>4, <3>1, <3>2
  <2>5. \A e \in Ends : RegistryRefs(e)' = RegistryRefs(e)
    BY <1>1, <2>4, RefsStay
  <2> QED BY <2>1, <2>3, <2>5, CountedStays
<1>5. CASE ShutErase("poll")
  <2>1. /\ UNCHANGED <<refVars, registryVars, sds>>
        /\ all_tie_leaders' = all_tie_leaders \ {s}
        /\ sdpc["poll"] = "erase" /\ sdpc'["poll"] = "release1"
    BY <1>2, <1>5, PollShut DEF ShutErase
  <2>2. \A e \in Ends : OwnRef(e)' = OwnRef(e)
    <3>1. \A e \in Ends : e[1] # s => OwnRef(e)' = OwnRef(e)
      BY <1>2, <2>1 DEF OwnRef, ShutBy
    <3>2. \A e \in Ends : e[1] = s => OwnRef(e)' = OwnRef(e)
      BY <1>2, <1>3, <2>1, EndSides DEF OwnRef, ShutBy
    <3> QED BY <3>1, <3>2
  <2>3. \A e \in Ends : RegistryRefs(e)' = RegistryRefs(e)
    BY <1>1, <2>1, RefsStay DEF Listed
  <2> QED BY <2>1, <2>2, <2>3, CountedStays
<1>6. CASE ShutRelease("poll")
  <2>0. PICK x \in Ends : x = ShutEnd("poll")
    BY PollShut
  <2>1. Release(x) /\ UNCHANGED <<registryVars, all_tie_leaders>>
    BY <1>6, <2>0 DEF ShutRelease
  <2>2. \A e \in Ends : RegistryRefs(e)' = RegistryRefs(e)
    BY <1>1, <2>1, RefsStay DEF Listed
  <2>3. OwnRef(x) = 1 /\ OwnRef(x)' = 0 /\ \A e \in Ends \ {x} : OwnRef(e)' = OwnRef(e)
    <3>1. CASE sdpc["poll"] = "release2"
      <4>1. x = follower(s) /\ s \in all_tie_leaders /\ sdpc'["poll"] = "erase" /\ sds' = sds
        BY <1>1, <1>2, <1>3, <2>0, <3>1, PollShut DEF ShutEnd
      <4> QED BY <1>2, <2>1, <3>1, <4>1, EndFacts, EndSides DEF OwnRef, ShutBy
    <3>2. CASE sdpc["poll"] = "release1"
      <4>1. x = leader(s) /\ s \notin all_tie_leaders /\ sdpc'["poll"] = "idle"
        BY <1>2, <1>3, <2>0, <3>2, PollShut DEF ShutEnd
      <4> QED BY <1>2, <2>1, <3>2, <4>1, EndFacts, EndSides DEF OwnRef, ShutBy
    <3> QED BY <1>6, <3>1, <3>2 DEF ShutRelease
  <2>4. OwnRef(x)' + RegistryRefs(x)' = OwnRef(x) + RegistryRefs(x) - 1
    BY <2>2, <2>3, RefBounds
  <2> QED BY <2>1, <2>2, <2>3, <2>4, CountedRelease
<1> QED BY <1>4, <1>5, <1>6 DEF ShutdownStep

\* Counted is kept.
LEMMA CountedNext ==
    ASSUME Held, ServersOnly', [Next]_vars
    PROVE  Counted'
<1>1. CASE \E s \in Sessions : Accept(s) \/ Handshake(s)
  BY <1>1, TieCounted
<1>2. CASE \E s \in Sessions : TieSteps(s)
  BY <1>2, AddCounted DEF TieSteps
<1>3. CASE PollStep /\ sdpc["poll"] = "idle"
  BY <1>3, PollCounted
<1>4. CASE ShutdownStep("poll")
  BY <1>4, ShutCounted
<1>5. CASE Aside
  <2>1. \A e \in Ends : OwnRef(e)' = OwnRef(e) /\ RegistryRefs(e)' = RegistryRefs(e)
    BY <1>5 DEF Aside, OwnRef, ShutBy, RegistryRefs, Taken, Listed
  <2>2. TypeInv /\ Counted
    BY DEF Held, CountInv, Orderly
  <2> QED BY <1>5, <2>1, <2>2, CountedStays DEF Aside
<1> QED BY <1>1, <1>2, <1>3, <1>4, <1>5, Kinds

-------------------------------------------------------------------------------
(* What cannot fail.                                                       *)

\* Whoever is about to use an EndPoint has a reference to it, or the registry
\* has one.
LEMMA NobodyUsesFreed ==
    ASSUME Held, NEW e \in freed
    PROVE  ~AboutToUse(e)
<1> USE DEF Held, Orderly, CountInv, TypeInv, TypeOK
<1>1. e \in Ends /\ OwnRef(e) = 0 /\ ~Listed(e)
  BY DEF Counted, PollThreadTypeOK, RegistryRefs
<1>2. ASSUME NEW s \in Sessions,
             <<opc[s], e>> \in
                 {<<"ref1", leader(s)>>, <<"ins1", leader(s)>>, <<"ready1", leader(s)>>,
                  <<"ref2", follower(s)>>, <<"ins2", follower(s)>>, <<"ready2", follower(s)>>}
      PROVE  FALSE
  <2>1. e[1] = s /\ opc[s] \in InTie
    BY <1>2, EndFacts DEF InTie
  <2>2. s \in all_tie_leaders /\ ~ShutBy(s)
    BY <2>1 DEF Whole
  <2> QED BY <1>1, <2>1, <2>2 DEF OwnRef
<1>3. Handling => e # cur.ptr
  BY <1>1 DEF EntryOK, Entries
<1>4. ASSUME Handling, enabled_[cur.ptr]
      PROVE  e # peer_(cur.ptr)
  <2>1. cur.ptr \in Ends /\ peer_(cur.ptr)[1] = cur.ptr[1]
    BY <1>4, EndFacts DEF Handling, ControlInv, EventRecords
  <2>2. Inserted(peer_(cur.ptr))
    BY <1>4, <2>1 DEF IntactInv, ReadyLate, Inserted
  <2>3. Listed(peer_(cur.ptr))
    BY <1>4, <2>2 DEF EntryOK, Entries
  <2> QED BY <1>1, <2>3
<1>5. \A t \in Shutters : e \notin ShutUses(t)
  <2>1. ShutUses("cleanup") = {}
    BY DEF ShutUses, Quiet
  <2>2. sdpc["poll"] = "idle" => ShutUses("poll") = {}
    BY DEF ShutUses
  <2>3. ShutUses("poll") \subseteq {leader(sds["poll"]), follower(sds["poll"])}
    BY DEF ShutUses, ShutEnd
  <2>4. sdpc["poll"] # "idle" => Listed(leader(sds["poll"])) /\ Listed(follower(sds["poll"]))
    BY DEF ShutState, Listed
  <2> QED BY <1>1, <2>1, <2>2, <2>3, <2>4
<1>6. mpc # "remove" /\ e \notin removing
  BY <1>1 DEF Quiet, Listed
<1>7. ppc = "rmode" => enabled_[cur.ptr]
  BY DEF IntactInv, HandlerReady
<1> QED BY <1>2, <1>3, <1>4, <1>5, <1>6, <1>7 DEF AboutToUse, Handling

\* update_mode() finds the descriptor in mode_ and in epoll.
LEMMA ModeVerified ==
    ASSUME Held, NEW x \in Ends, NEW m, Added(x), sdpc["poll"] = "idle"
    PROVE  UpdateModeVerify(x, m)
<1> USE DEF Held, Orderly
<1> SUFFICES ASSUME x \in poll_set_ PROVE mode_[fd_[x]] # Absent /\ EpollModOK(fd_[x])
  BY DEF UpdateModeVerify, ChangesMode
<1>1. mode_[fd_[x]] # Absent
  BY DEF IntactInv, RegistryInv, ModeMatchesPollSet
<1>2. file[fd_[x]] = x
  BY DEF OwnFile, HoldsFd, Closing
<1>3. eptr[x] = x
  BY <1>2 DEF IntactInv, Intact
<1> QED BY <1>1, <1>2, <1>3, EndFacts DEF EpollModOK

\* epoll_ctl(ADD) is called on an open socket that is not registered.
LEMMA AddVerified ==
    ASSUME Held, NEW s \in Sessions, NEW e \in Ends,
           <<opc[s], e>> \in {<<"ctl1", leader(s)>>, <<"ctl2", follower(s)>>}
    PROVE  EpollAddOK(fd_[e])
<1> USE DEF Held, Orderly
<1>1. e[1] = s /\ opc[s] = (IF e[2] = "client" THEN "ctl1" ELSE "ctl2")
  BY EndSides, EndFacts
<1>2. file[fd_[e]] = e
  BY <1>1, EndSides DEF OwnFile, HoldsFd, InTie
<1>3. ~Added(e)
  BY <1>1 DEF Added
<1>4. eptr[e] = NoEnd
  BY <1>3 DEF OwnEntry
<1> QED BY <1>2, <1>4, EndFacts DEF EpollAddOK

\* remove() is called for what is registered.
LEMMA RemoveVerified ==
    ASSUME Held, NEW e \in ToRemove
    PROVE  RemoveAssert(e)
<1> USE DEF Held, Orderly
<1>1. sdpc["poll"] \in {"remove1", "remove2"} /\ e = ShutEnd("poll")
  BY DEF ToRemove, Quiet
<1>2. e \in poll_set_
  BY <1>1 DEF ShutState, ShutEnd
<1> QED BY <1>2 DEF RemoveAssert, IntactInv, RegistryInv, ModeMatchesPollSet

\* No step fails but add().
LEMMA CrashNext ==
    ASSUME Held, SafeCrash, [Next]_vars
    PROVE  SafeCrash'
<1>1. CASE Failure
  <2>1. ~UseAfterFree
    BY NobodyUsesFreed DEF UseAfterFree
  <2>2. ~UpdateModeFails
    <3> SUFFICES ASSUME UpdateModeFails PROVE FALSE
      OBVIOUS
    <3>1. ppc \in {"rmode", "wmode"}
      BY DEF UpdateModeFails
    <3>2. cur.ptr \in Ends /\ enabled_[cur.ptr]
      BY <3>1 DEF Held, CountInv, TypeInv, ControlInv, EventRecords, IntactInv, HandlerReady
    <3>3. opc[cur.ptr[1]] \in {"ready2", "done"}
      BY <3>2 DEF Held, IntactInv, ReadyLate
    <3>4. Added(cur.ptr) /\ Added(peer_(cur.ptr)) /\ peer_(cur.ptr) \in Ends
      BY <3>2, <3>3, EndFacts DEF Added
    <3>5. sdpc["poll"] = "idle"
      BY <3>1 DEF Held, Orderly, Quiet
    <3> QED BY <3>2, <3>4, <3>5, ModeVerified DEF UpdateModeFails
  <2>3. ASSUME NEW s \in Sessions, NEW e \in Ends, AddVerifyFails(s, e) \/ AddEpollFails(s, e)
        PROVE  SafeCrash'
    <3>1. ~AddEpollFails(s, e)
      BY AddVerified DEF AddEpollFails
    <3> QED BY <2>3, <3>1 DEF AddVerifyFails, Abort, SafeCrash
  <2>4. ~RemoveFails
    BY RemoveVerified DEF RemoveFails
  <2> QED BY <1>1, <2>1, <2>2, <2>3, <2>4 DEF Failure
<1>2. CASE ~Failure
  <2>1. UNCHANGED crash
    BY <1>2, Cases, OperatorFrame, PollFrame, CleanupFrame, ShutFrame, MainFrame,
       EnvironmentFrame DEF vars
  <2> QED BY <2>1 DEF SafeCrash
<1> QED BY <1>1, <1>2

-------------------------------------------------------------------------------
HangupInv == IntactInv /\ CountInv /\ (ServersOnly => Orderly /\ SafeCrash)

\* HangupInv holds initially.
LEMMA HangupInit == Init => HangupInv
<1>1. Init => SafeCrash
  BY DEF Init, SafeCrash
<1> QED BY <1>1, IntactInit, CountInit, OrderlyInit DEF HangupInv

\* HangupInv is inductive.
LEMMA HangupNext == HangupInv /\ [Next]_vars => HangupInv'
<1> SUFFICES ASSUME HangupInv, [Next]_vars PROVE HangupInv'
  OBVIOUS
<1>1. IntactInv' /\ CountInv'
  BY IntactNext, CountNext DEF HangupInv
<1>2. ASSUME ServersOnly' PROVE Orderly' /\ SafeCrash'
  <2>1. TypeInv
    BY DEF HangupInv, CountInv
  <2>2. ServersOnly
    BY <1>2, <2>1, PremiseBefore
  <2>3. Held /\ SafeCrash
    BY <2>2 DEF HangupInv, Held
  <2>4. Quiet' /\ FollowerLast' /\ OwnEntry' /\ OwnFile'
    BY <1>2, <2>1, <2>3, QuietNext, FollowerNext, EntryNext, FileNext DEF Held, Orderly
  <2>5. Whole' /\ ShutState' /\ EntryOK' /\ Counted'
    BY <1>2, <2>3, WholeNext, ShutNext, EventsNext, CountedNext
  <2>6. SafeCrash'
    BY <2>3, CrashNext
  <2> QED BY <2>4, <2>5, <2>6 DEF Orderly
<1> QED BY <1>1, <1>2 DEF HangupInv

\* While only servers hang up, no route changes and no signal comes, shutdown()
\* runs in the poll thread alone: every EndPoint is used before its last
\* release(), and epoll_ctl and the asserts of update_mode() and remove() find
\* what they look for, whichever session has got a closed descriptor since.
THEOREM ServerHangups == Spec => []ServerHangupSafe
<1>1. HangupInv => ServerHangupSafe
  BY DEF HangupInv, ServersOnly, SafeCrash, ServerHangupSafe
<1> QED BY <1>1, HangupInit, HangupNext, PTL DEF Spec

-------------------------------------------------------------------------------
(* What is forwarded while nobody hangs up.                                *)

NobodyHangsUp == hup = {} /\ edits = 0 /\ ~stop

\* No hang-up is reported, so no session is shut down: whoever handles events
\* is still in all_tie_leaders.
Undisturbed ==
    /\ sdpc["poll"] = "idle"
    /\ \A b \in Entries : "HUP" \notin b.ev
    /\ \A e \in Ends : enabled_[e] => e[1] \in all_tie_leaders

\* Then everybody has the descriptor he was made with.
LEMMA UndisturbedFds ==
    ASSUME Held, Undisturbed
    PROVE  NoTakeover
<1> SUFFICES ASSUME NEW e \in Ends, enabled_[e] PROVE file[fd_[e]] = e
  BY DEF NoTakeover
<1>1. opc[e[1]] \in {"ready2", "done"}
  BY DEF Held, IntactInv, ReadyLate
<1>2. Inserted(e)
  BY <1>1 DEF Inserted
<1>3. e \in poll_set_
  BY <1>2 DEF Held, Orderly, Whole, Undisturbed, ShutBy
<1>4. HoldsFd(e)
  BY <1>3 DEF HoldsFd, Closing, Undisturbed
<1> QED BY <1>4 DEF Held, Orderly, OwnFile

\* epoll_wait reports no hang-up, and the handlers add none.
LEMMA NoHangup ==
    ASSUME Held, Undisturbed, hup = {}, PollStep
    PROVE  \A b \in Entries' : "HUP" \notin b.ev
<1> USE DEF Held, IntactInv, RegistryInv, TypeInv, TypeOK
<1>1. CASE PollWait
  <2>1. Entries' = batch'
    BY <1>1 DEF PollWait, Entries, Handling
  <2>2. PICK B : batch' = Reported(B)
    BY <1>1 DEF PollWait
  <2>3. \A b \in batch' : \E x : b.ev = ReadyEvents(x, emask[x])
    BY <2>2 DEF Reported
  <2> QED BY <2>1, <2>3 DEF ReadyEvents
<1>2. CASE PollNext
  <2>1. Entries' \subseteq batch
    BY <1>2 DEF PollNext, Entries, Handling
  <2> QED BY <2>1 DEF Undisturbed, Entries
<1>3. CASE HandlerNotEnabled \/ HandleRead \/ HandleReadMode \/ HandleWrite \/ HandleWriteMode
           \/ HandleError
  <2>1. Handling /\ cur \in Entries /\ cur \in EventRecords /\ UNCHANGED batch
    BY <1>3 DEF HandlerNotEnabled, HandleRead, HandleReadMode, HandleWrite, HandleWriteMode,
                HandleError, Handling, Entries, ControlInv
  <2>2. UNCHANGED cur \/ \E h : HandlerDone(h)
    BY <1>3 DEF HandlerNotEnabled, HandleRead, HandleReadMode, HandleWrite, HandleWriteMode,
                HandleError
  <2>3. ASSUME NEW h, HandlerDone(h)
        PROVE  cur'.ev \subseteq cur.ev
    <3>1. CASE cur' = NoEvent
      BY <3>1 DEF NoEvent
    <3>2. CASE cur' = [cur EXCEPT !.ev = cur.ev \ {h}]
      BY <2>1, <3>2 DEF EventRecords
    <3> QED BY <2>3, <3>1, <3>2 DEF HandlerDone
  <2>4. cur'.ev \subseteq cur.ev
    BY <2>2, <2>3
  <2>5. \A b \in Entries' : b \in batch \/ b = cur'
    BY <2>1 DEF Entries
  <2> QED BY <2>1, <2>4, <2>5 DEF Undisturbed, Entries
<1>4. CASE SwapPending \/ (\E e \in Ends : DrainOne(e)) \/ DrainDone \/ PollExit
  <2>1. Entries' \subseteq batch
    BY <1>4 DEF SwapPending, DrainOne, DrainDone, PollExit, Entries, Handling
  <2> QED BY <2>1 DEF Undisturbed, Entries
<1> QED BY <1>1, <1>2, <1>3, <1>4 DEF PollStep

\* Undisturbed is kept.
LEMMA UndisturbedNext ==
    ASSUME Held, Undisturbed, hup = {}, ServersOnly', [Next]_vars
    PROVE  Undisturbed'
<1> USE DEF Held, Orderly, IntactInv, RegistryInv, TypeInv, TypeOK
<1>1. CASE \E s \in Sessions : Accept(s) \/ Handshake(s)
  <2>1. PICK s \in Sessions : Accept(s) \/ Handshake(s)
    BY <1>1
  <2>2. UNCHANGED <<ppc, batch, cur, sdpc>>
    BY <2>1, OperatorAside
  <2>3. UNCHANGED enabled_ /\ all_tie_leaders \subseteq all_tie_leaders'
    BY <2>1, HandshakeMoves DEF Tie
  <2> QED BY <2>2, <2>3 DEF Undisturbed, Entries, Handling
<1>2. CASE \E s \in Sessions : TieSteps(s)
  <2>1. PICK s \in Sessions, x \in Ends :
            AddRef(s, x) \/ AddRegister(s, x) \/ AddEpoll(s, x) \/ Ready(s, x)
    BY <1>2 DEF TieSteps
  <2>2. TieSteps(s)
    BY <2>1 DEF TieSteps
  <2>3. UNCHANGED <<ppc, batch, cur, sdpc>>
    BY <2>2, OperatorAside
  <2>4. UNCHANGED all_tie_leaders /\ s \in all_tie_leaders
    BY <2>2, TieMoves DEF Whole
  <2>5. \A e \in Ends : enabled_'[e] => enabled_[e] \/ e = x
    BY <2>1 DEF AddRef, AddRegister, AddEpoll, Ready, OperatorTypeOK
  <2>6. x[1] = s
    BY <2>1, TieInserts
  <2> QED BY <2>3, <2>4, <2>5, <2>6 DEF Undisturbed, Entries, Handling
<1>3. CASE PollStep /\ sdpc["poll"] = "idle"
  <2>1. UNCHANGED <<enabled_, all_tie_leaders>>
    BY <1>3, PollFrame
  <2>2. ~HandleError
    BY DEF HandleError, EntryOK, Undisturbed, Entries, Handling
  <2>3. UNCHANGED sdpc
    BY <1>3, <2>2 DEF PollStep, PollWait, PollNext, HandlerNotEnabled, HandleRead, HandleReadMode,
                      HandleWrite, HandleWriteMode, SwapPending, DrainOne, DrainDone, PollExit
  <2> QED BY <1>3, <2>1, <2>3, NoHangup DEF Undisturbed
<1>4. CASE ShutdownStep("poll")
  BY <1>4 DEF Undisturbed, ShutdownStep, ShutClose, ShutRemove, ShutErase, ShutRelease
<1>5. CASE Aside
  BY <1>5 DEF Aside, Undisturbed, Entries, Handling
<1> QED BY <1>1, <1>2, <1>3, <1>4, <1>5, Kinds

ForwardInv == HangupInv /\ (NobodyHangsUp => Undisturbed /\ InOrder)

\* Any number of sessions lose, double and move no byte while nobody hangs up,
\* no route changes and no signal comes.
THEOREM ForwardsInOrder == Spec => [](NobodyHangsUp => InOrder)
<1>1. Init => ForwardInv
  <2>1. Init => Undisturbed
    BY DEF Init, Undisturbed, Entries, Handling
  <2> QED BY <2>1, HangupInit, OrderInit DEF ForwardInv
<1>2. ForwardInv /\ [Next]_vars => ForwardInv'
  <2> SUFFICES ASSUME ForwardInv, [Next]_vars, NobodyHangsUp' PROVE Undisturbed' /\ InOrder'
    BY HangupNext DEF ForwardInv
  <2>1. ServersOnly'
    BY DEF NobodyHangsUp, ServersOnly
  <2>2. TypeInv /\ ServersOnly
    BY <2>1, PremiseBefore DEF ForwardInv, HangupInv, CountInv
  <2>3. hup = {}
    <3>1. hup \subseteq hup'
      <4>1. CASE Environment
        BY <4>1 DEF Environment, Outside, Arrive, Consume, Hangup, EditRoute, Signal
      <4>2. CASE ~Environment
        BY <4>2, Cases, OperatorFrame, PollFrame, CleanupFrame, ShutFrame, MainFrame, StopFrame
           DEF allButCrash
      <4> QED BY <4>1, <4>2
    <3> QED BY <3>1 DEF NobodyHangsUp
  <2>4. Held /\ Undisturbed /\ InOrder
    BY <2>2, <2>3 DEF ForwardInv, HangupInv, Held, NobodyHangsUp, ServersOnly
  <2>5. Undisturbed'
    BY <2>1, <2>3, <2>4, UndisturbedNext
  <2>6. InOrder'
    BY <2>2, <2>4, UndisturbedFds, OrderNext
  <2> QED BY <2>5, <2>6
<1>3. ForwardInv => (NobodyHangsUp => InOrder)
  BY DEF ForwardInv
<1> QED BY <1>1, <1>2, <1>3, PTL DEF Spec

===============================================================================
