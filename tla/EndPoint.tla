------------------------------- MODULE EndPoint -------------------------------
(***************************************************************************)
(* The forwarding core of vncproxy: EndPoint, tie_fd and cleanup_thread of *)
(* vncproxy.cc on top of PollThread, with every thread that touches them:  *)
(*                                                                         *)
(*   operators  pool threads in VncOperator::run, one per session, that    *)
(*              end in tie_fd (the handshake itself is three steps here);  *)
(*   poll       the loop of PollThread::poll_loop with the handlers;       *)
(*   cleanup    cleanup_thread, which shuts sessions down whose route has  *)
(*              been deleted from the database;                            *)
(*   main       the accept loop and the final cleanup with ~PollThread.    *)
(*                                                                         *)
(* A step is a critical section, a system call or the code between two of  *)
(* them.  The contents of a Marshal is a sequence of bytes.  An EndPoint   *)
(* has the name of its socket; the leader of a session is its client end.  *)
(* After a failed verify()/assert() or a use of a deleted object the       *)
(* process stops: nothing is said about it from there on.                  *)
(***************************************************************************)
EXTENDS PollThread

CONSTANTS
    Keys,       \* forward keys
    KeyOf,      \* KeyOf[s]: the key the client of session s answers with
    MaxEdits,   \* deletions and insertions of routes in a run
    AllowStop   \* may SIGINT or SIGQUIT arrive?

ASSUME EndPointAssumption ==
    /\ KeyOf \in [Sessions -> Keys]
    /\ MaxEdits \in Nat
    /\ AllowStop \in BOOLEAN

leader(s) == <<s, "client">>
follower(s) == <<s, "remote">>
peer_(e) == <<e[1], IF e[2] = "client" THEN "remote" ELSE "client">>

NoEvent == [sock |-> NoEnd, ptr |-> NoEnd, ev |-> {}]
EventRecords == [sock : Ends, ptr : Ends, ev : SUBSET Events]

VARIABLES
    enabled_,         \* EndPoint::enabled_
    buf_,             \* EndPoint::buf_: bytes to be written to this end
    all_tie_leaders,  \* sessions whose leader is in EndPoint::all_tie_leaders
    opc,              \* where the operator of each session is
    ppc,              \* where the poll thread is
    batch,            \* evlist entries not handled yet
    cur,              \* the entry being handled
    removing,         \* remove_poll: the swapped-out pending_remove_
    sdpc,             \* where a thread is in EndPoint::shutdown
    sds,              \* the session it shuts down
    cpc,              \* where the cleanup thread is
    valid,            \* its valid_forward_keys
    outlier,          \* its outlier list
    routes,           \* forward keys in the database
    edits,            \* changes of the database so far
    mpc,              \* where the main thread is
    dtor,             \* poll_set_copy of ~PollThread
    stop,             \* global_stop_flag
    stop_flag_,       \* PollThread::stop_flag_
    missed,           \* history: ends with an event ignored before ready()
    crash             \* why the process aborted

endVars == <<enabled_, buf_, all_tie_leaders>>
pollLocal == <<ppc, batch, cur, removing>>
sdVars == <<sdpc, sds>>
cleanupLocal == <<cpc, valid, outlier>>
dbVars == <<routes, edits>>
mainVars == <<mpc, dtor, stop, stop_flag_>>
vars == <<kernelVars, registryVars, refVars, fd_, endVars, opc, pollLocal, sdVars,
          cleanupLocal, dbVars, mainVars, missed, crash>>
allButCrash == <<kernelVars, registryVars, refVars, fd_, endVars, opc, pollLocal, sdVars,
                 cleanupLocal, dbVars, mainVars, missed>>

Shutters == {"poll", "cleanup"}
OperatorSteps == {"idle", "auth", "connect", "tie", "fail", "ref1", "ins1", "ctl1",
                  "ref2", "ins2", "ctl2", "ready1", "ready2", "done"}
PollSteps == {"wait", "next", "read", "rmode", "write", "wmode", "error", "swap",
              "drain", "exited"}
ShutdownSteps == {"idle", "close1", "remove1", "close2", "remove2", "release2",
                  "erase", "release1"}
CleanupSteps == {"query", "scan", "shut", "exited"}
MainSteps == {"run", "join_cleanup", "join_pool", "copy", "remove", "join_poll", "done"}
Crashes == {"none", "freed", "add", "ctl", "mod", "remove"}

OperatorTypeOK ==
    /\ enabled_ \in [Ends -> BOOLEAN]
    /\ buf_ \in [Ends -> Seq(Bytes)]
    /\ all_tie_leaders \in SUBSET Sessions
    /\ opc \in [Sessions -> OperatorSteps]
    /\ missed \in SUBSET Ends

PollTypeOK ==
    /\ ppc \in PollSteps
    /\ batch \in SUBSET EventRecords
    /\ cur \in EventRecords \cup {NoEvent}
    /\ removing \in SUBSET Ends
    /\ sdpc \in [Shutters -> ShutdownSteps]
    /\ sds \in [Shutters -> Sessions \cup {NoEnd}]

MainTypeOK ==
    /\ cpc \in CleanupSteps
    /\ valid \in SUBSET Keys
    /\ outlier \in SUBSET Sessions
    /\ routes \in SUBSET Keys
    /\ edits \in Nat
    /\ mpc \in MainSteps
    /\ dtor \in SUBSET Ends
    /\ stop \in BOOLEAN
    /\ stop_flag_ \in BOOLEAN
    /\ crash \in Crashes

TypeOK == KernelTypeOK /\ PollThreadTypeOK /\ OperatorTypeOK /\ PollTypeOK /\ MainTypeOK

Init ==
    /\ KernelInit
    /\ PollThreadInit
    /\ enabled_ = [e \in Ends |-> FALSE]
    /\ buf_ = [e \in Ends |-> <<>>]
    /\ all_tie_leaders = {}
    /\ opc = [s \in Sessions |-> "idle"]
    /\ ppc = "wait"
    /\ batch = {}
    /\ cur = NoEvent
    /\ removing = {}
    /\ sdpc = [t \in Shutters |-> "idle"]
    /\ sds = [t \in Shutters |-> NoEnd]
    /\ cpc = "query"
    /\ valid = {}
    /\ outlier = {}
    /\ routes = Keys
    /\ edits = 0
    /\ mpc = "run"
    /\ dtor = {}
    /\ stop = FALSE
    /\ stop_flag_ = FALSE
    /\ missed = {}
    /\ crash = "none"

Live(E) == E \cap freed = {}

Abort(why) == crash' = why /\ UNCHANGED allButCrash

-------------------------------------------------------------------------------
(* Operators.                                                              *)

GoTo(s, step) == opc' = [opc EXCEPT ![s] = step]

\* accept() or connect(): the lowest free descriptor becomes socket e.
OpenSocket(e) ==
    \E fd \in Fds :
        /\ LowestFree(fd)
        /\ file' = [file EXCEPT ![fd] = e]
        /\ fd_' = [fd_ EXCEPT ![e] = fd]

\* main(): accept() and run_async(); the operator then greets the client.  The
\* tests of global_stop_flag precede accept(), which a signal cannot recall.
Accept(s) ==
    /\ mpc = "run"
    /\ opc[s] = "idle"
    /\ OpenSocket(leader(s))
    /\ GoTo(s, "auth")
    /\ UNCHANGED <<socketVars, epollVars, registryVars, refVars, endVars, pollLocal, sdVars,
                   cleanupLocal, dbVars, mainVars, missed, crash>>

\* The client's response matches the key of a record in the database.
Authenticate(s) ==
    /\ opc[s] = "auth"
    /\ KeyOf[s] \in routes
    /\ GoTo(s, "connect")
    /\ UNCHANGED <<kernelVars, registryVars, refVars, fd_, endVars, pollLocal, sdVars,
                   cleanupLocal, dbVars, mainVars, missed, crash>>

ConnectTo(s) ==
    /\ opc[s] = "connect"
    /\ OpenSocket(follower(s))
    /\ GoTo(s, "tie")
    /\ UNCHANGED <<socketVars, epollVars, registryVars, refVars, endVars, pollLocal, sdVars,
                   cleanupLocal, dbVars, mainVars, missed, crash>>

\* ::connect() fails and the next address is tried, or the server's part of the
\* handshake fails: either way the remote descriptor is closed first.
RemoteFails(s) ==
    /\ opc[s] = "tie"
    /\ CloseFds({fd_[follower(s)]})
    /\ \E step \in {"connect", "fail"} : GoTo(s, step)
    /\ UNCHANGED <<socketVars, registryVars, refVars, fd_, endVars, pollLocal, sdVars,
                   cleanupLocal, dbVars, mainVars, missed, crash>>

\* An early return of VncOperator::run: the client's descriptor is closed.
HandshakeFails(s) ==
    /\ opc[s] \in {"auth", "connect", "fail"}
    /\ CloseFds({fd_[leader(s)]})
    /\ GoTo(s, "done")
    /\ UNCHANGED <<socketVars, registryVars, refVars, fd_, endVars, pollLocal, sdVars,
                   cleanupLocal, dbVars, mainVars, missed, crash>>

\* tie_fd(): the two EndPoints are made, tied and entered in all_tie_leaders.
Tie(s) ==
    /\ opc[s] = "tie"
    /\ refcnt_' = [e \in Ends |-> IF e[1] = s THEN 1 ELSE refcnt_[e]]
    /\ all_tie_leaders' = all_tie_leaders \cup {s}
    /\ GoTo(s, "ref1")
    /\ UNCHANGED <<kernelVars, registryVars, freed, fd_, enabled_, buf_, pollLocal, sdVars,
                   cleanupLocal, dbVars, mainVars, missed, crash>>

\* poll->add(ep1) and poll->add(ep2), in three steps each.
AddRef(s, e) ==
    /\ <<opc[s], e>> \in {<<"ref1", leader(s)>>, <<"ref2", follower(s)>>}
    /\ Live({e})
    /\ RefCopy(e)
    /\ GoTo(s, IF opc[s] = "ref1" THEN "ins1" ELSE "ins2")
    /\ UNCHANGED <<kernelVars, registryVars, fd_, endVars, pollLocal, sdVars,
                   cleanupLocal, dbVars, mainVars, missed, crash>>

AddRegister(s, e) ==
    /\ <<opc[s], e>> \in {<<"ins1", leader(s)>>, <<"ins2", follower(s)>>}
    /\ Live({e})
    /\ AddVerify(e)
    /\ AddInsert(e)
    /\ GoTo(s, IF opc[s] = "ins1" THEN "ctl1" ELSE "ctl2")
    /\ UNCHANGED <<kernelVars, refVars, fd_, endVars, pollLocal, sdVars,
                   cleanupLocal, dbVars, mainVars, missed, crash>>

AddEpoll(s, e) ==
    /\ <<opc[s], e>> \in {<<"ctl1", leader(s)>>, <<"ctl2", follower(s)>>}
    /\ EpollAddOK(fd_[e])
    /\ AddCtl(e)
    /\ GoTo(s, IF opc[s] = "ctl1" THEN "ref2" ELSE "ready1")
    /\ UNCHANGED <<file, socketVars, registryVars, refVars, fd_, endVars, pollLocal, sdVars,
                   cleanupLocal, dbVars, mainVars, missed, crash>>

\* ep1->ready() and ep2->ready().
Ready(s, e) ==
    /\ <<opc[s], e>> \in {<<"ready1", leader(s)>>, <<"ready2", follower(s)>>}
    /\ Live({e})
    /\ enabled_' = [enabled_ EXCEPT ![e] = TRUE]
    /\ GoTo(s, IF opc[s] = "ready1" THEN "ready2" ELSE "done")
    /\ UNCHANGED <<kernelVars, registryVars, refVars, fd_, buf_, all_tie_leaders, pollLocal,
                   sdVars, cleanupLocal, dbVars, mainVars, missed, crash>>

\* verify(poll_set_.find(poll) == end), verify(mode_.find(fd) == end)
AddVerifyFails(s, e) ==
    /\ <<opc[s], e>> \in {<<"ins1", leader(s)>>, <<"ins2", follower(s)>>}
    /\ Live({e})
    /\ ~AddVerify(e)
    /\ Abort("add")

\* verify(epoll_ctl(poll_fd_, EPOLL_CTL_ADD, fd, &ev) == 0)
AddEpollFails(s, e) ==
    /\ <<opc[s], e>> \in {<<"ctl1", leader(s)>>, <<"ctl2", follower(s)>>}
    /\ ~EpollAddOK(fd_[e])
    /\ Abort("ctl")

TieSteps(s) ==
    \E e \in Ends : AddRef(s, e) \/ AddRegister(s, e) \/ AddEpoll(s, e) \/ Ready(s, e)

Handshake(s) ==
    Authenticate(s) \/ ConnectTo(s) \/ RemoteFails(s) \/ HandshakeFails(s) \/ Tie(s)

-------------------------------------------------------------------------------
(* EndPoint::shutdown, called on the leader by the poll thread and by the  *)
(* cleanup thread: close, remove, the same for the peer, release the peer, *)
(* erase from all_tie_leaders, release.                                    *)

\* The object the next step of t's shutdown works on.
ShutEnd(t) ==
    IF sdpc[t] \in {"close2", "remove2", "release2"} THEN follower(sds[t]) ELSE leader(sds[t])

ShutUses(t) ==
    CASE sdpc[t] = "idle" -> {}
      [] sdpc[t] \in {"close2", "release1"} -> {leader(sds[t]), follower(sds[t])}
      [] OTHER -> {ShutEnd(t)}

StartShutdown(t, s) ==
    /\ sdpc' = [sdpc EXCEPT ![t] = "close1"]
    /\ sds' = [sds EXCEPT ![t] = s]

ShutClose(t) ==
    /\ sdpc[t] \in {"close1", "close2"}
    /\ Live(ShutUses(t))
    /\ CloseFds({fd_[ShutEnd(t)]})
    /\ sdpc' = [sdpc EXCEPT ![t] = IF @ = "close1" THEN "remove1" ELSE "remove2"]
    /\ UNCHANGED <<socketVars, registryVars, refVars, fd_, endVars, opc, pollLocal, sds,
                   cleanupLocal, dbVars, mainVars, missed, crash>>

ShutRemove(t) ==
    /\ sdpc[t] \in {"remove1", "remove2"}
    /\ Live(ShutUses(t))
    /\ RemoveAssert(ShutEnd(t))
    /\ Remove(ShutEnd(t))
    /\ sdpc' = [sdpc EXCEPT ![t] = IF @ = "remove1" THEN "close2" ELSE "release2"]
    /\ UNCHANGED <<kernelVars, refVars, fd_, endVars, opc, pollLocal, sds,
                   cleanupLocal, dbVars, mainVars, missed, crash>>

\* (mutant) The erase misses the entry.
ShutEraseMisses(t) ==
    /\ sdpc[t] = "erase"
    /\ Live(ShutUses(t))
    /\ sdpc' = [sdpc EXCEPT ![t] = "release1"]
    /\ UNCHANGED <<kernelVars, registryVars, refVars, fd_, endVars, opc, pollLocal, sds,
                   cleanupLocal, dbVars, mainVars, missed, crash>>

ShutErase(t) ==
    /\ sdpc[t] = "erase"
    /\ Live(ShutUses(t))
    /\ all_tie_leaders' = all_tie_leaders \ {sds[t]}
    /\ sdpc' = [sdpc EXCEPT ![t] = "release1"]
    /\ UNCHANGED <<kernelVars, registryVars, refVars, fd_, enabled_, buf_, opc, pollLocal, sds,
                   cleanupLocal, dbVars, mainVars, missed, crash>>

\* release(); the leader's is preceded by the log line that reads peer_->fd_.
ShutRelease(t) ==
    /\ sdpc[t] \in {"release1", "release2"}
    /\ Live(ShutUses(t))
    /\ Release(ShutEnd(t))
    /\ sdpc' = [sdpc EXCEPT ![t] = IF @ = "release2" THEN "erase" ELSE "idle"]
    /\ sds' = [sds EXCEPT ![t] = IF sdpc[t] = "release2" THEN @ ELSE NoEnd]
    /\ UNCHANGED <<kernelVars, registryVars, fd_, endVars, opc, pollLocal,
                   cleanupLocal, dbVars, mainVars, missed, crash>>

ShutdownStep(t) == ShutClose(t) \/ ShutRemove(t) \/ ShutErase(t) \/ ShutRelease(t)

-------------------------------------------------------------------------------
(* The poll thread.                                                        *)

\* Which handler an event set calls first: handle_read, then handle_write,
\* then handle_error.
FirstHandler(ev) ==
    IF "IN" \in ev THEN "read"
    ELSE IF "OUT" \in ev THEN "write"
    ELSE IF "HUP" \in ev THEN "error" ELSE "next"

HandlerEvent == [read |-> "IN", write |-> "OUT", error |-> "HUP"]

\* Leave the current handler for the next one the event asks for.
HandlerDone(handled) ==
    LET rest == cur.ev \ {handled} IN
    /\ ppc' = FirstHandler(rest)
    /\ cur' = IF FirstHandler(rest) = "next" THEN NoEvent ELSE [cur EXCEPT !.ev = rest]

\* epoll_wait, then the test of stop_flag_.  An empty batch is the time-out.
PollWait ==
    /\ ppc = "wait"
    /\ ~stop_flag_
    /\ \E B \in Takes :
          /\ batch' = Reported(B)
          /\ rdy' = rdy \ B
    /\ ppc' = "next"
    /\ UNCHANGED <<file, socketVars, eptr, emask, registryVars, refVars, fd_, endVars, opc,
                   cur, removing, sdVars, cleanupLocal, dbVars, mainVars, missed, crash>>

PollNext ==
    /\ ppc = "next"
    /\ sdpc["poll"] = "idle"
    /\ IF batch = {}
       THEN ppc' = "swap" /\ UNCHANGED <<batch, cur>>
       ELSE \E b \in batch :
                /\ batch' = batch \ {b}
                /\ cur' = b
                /\ ppc' = FirstHandler(b.ev)
    /\ UNCHANGED <<kernelVars, registryVars, refVars, fd_, endVars, opc, removing, sdVars,
                   cleanupLocal, dbVars, mainVars, missed, crash>>

\* A handler called before ready() returns at once; the edge is gone.
HandlerNotEnabled ==
    /\ ppc \in {"read", "write", "error"}
    /\ Live({cur.ptr})
    /\ ~enabled_[cur.ptr]
    /\ HandlerDone(HandlerEvent[ppc])
    /\ missed' = missed \cup {cur.ptr}
    /\ UNCHANGED <<kernelVars, registryVars, refVars, fd_, endVars, opc, batch, removing, sdVars,
                   cleanupLocal, dbVars, mainVars, crash>>

\* handle_read: all that the descriptor has goes to the peer's buffer.
HandleRead ==
    LET e == cur.ptr
        x == file[fd_[e]] IN
    /\ ppc = "read"
    /\ Live({e, peer_(e)})
    /\ enabled_[e]
    /\ IF x # NoEnd /\ sent[x] > rd[x]
       THEN /\ buf_' = [buf_ EXCEPT ![peer_(e)] = @ \o Unread(x)]
            /\ rd' = [rd EXCEPT ![x] = sent[x]]
            /\ ppc' = "rmode"
            /\ UNCHANGED cur
       ELSE HandlerDone("IN") /\ UNCHANGED <<buf_, rd>>
    /\ UNCHANGED <<file, hup, sent, wr, taken, epollVars, registryVars, refVars, fd_, enabled_,
                   all_tie_leaders, opc, batch, removing, sdVars, cleanupLocal, dbVars,
                   mainVars, missed, crash>>

\* ... and poll_->update_mode(peer_, READ | WRITE).
HandleReadMode ==
    /\ ppc = "rmode"
    /\ Live({cur.ptr, peer_(cur.ptr)})
    /\ UpdateModeVerify(peer_(cur.ptr), RW)
    /\ UpdateMode(peer_(cur.ptr), RW)
    /\ HandlerDone("IN")
    /\ UNCHANGED <<file, socketVars, refVars, fd_, endVars, opc, batch, removing, sdVars,
                   cleanupLocal, dbVars, mainVars, missed, crash>>

\* (mutant) What a full socket does not take is dropped.
HandleWriteDrops ==
    LET e == cur.ptr
        x == file[fd_[e]] IN
    /\ ppc = "write"
    /\ Live({e})
    /\ enabled_[e]
    /\ IF x # NoEnd /\ Space(x) > 0
       THEN /\ wr' = [wr EXCEPT ![x] = @ \o SubSeq(buf_[e], 1, IF Len(buf_[e]) > Space(x)
                                                              THEN Space(x) ELSE Len(buf_[e]))]
            /\ buf_' = [buf_ EXCEPT ![e] = <<>>]
       ELSE UNCHANGED <<wr, buf_>>
    /\ ppc' = "wmode"
    /\ UNCHANGED <<file, hup, sent, rd, taken, epollVars, registryVars, refVars, fd_, enabled_,
                   all_tie_leaders, opc, batch, cur, removing, sdVars, cleanupLocal, dbVars,
                   mainVars, missed, crash>>

\* handle_write: write until the buffer is empty or the socket full; a closed
\* descriptor takes nothing, a hung-up connection may refuse.
HandleWrite ==
    LET e == cur.ptr
        x == file[fd_[e]] IN
    /\ ppc = "write"
    /\ Live({e})
    /\ enabled_[e]
    /\ \/ /\ x # NoEnd
          /\ \E n \in 0 .. Len(buf_[e]) :
                /\ n <= Space(x)
                /\ n = Len(buf_[e]) \/ n = Space(x)
                /\ wr' = [wr EXCEPT ![x] = @ \o SubSeq(buf_[e], 1, n)]
                /\ buf_' = [buf_ EXCEPT ![e] = SubSeq(@, n + 1, Len(@))]
       \/ /\ x = NoEnd \/ x \in hup
          /\ UNCHANGED <<wr, buf_>>
    /\ ppc' = "wmode"
    /\ UNCHANGED <<file, hup, sent, rd, taken, epollVars, registryVars, refVars, fd_, enabled_,
                   all_tie_leaders, opc, batch, cur, removing, sdVars, cleanupLocal, dbVars,
                   mainVars, missed, crash>>

\* (mutant) A half-written buffer turns reading off.
ModeAfterWriteOnly(e) == IF buf_[e] # <<>> THEN {"WRITE"} ELSE R

ModeAfterWrite(e) == IF buf_[e] # <<>> THEN RW ELSE R

\* ... and update_mode(this, ...) by what is left in the buffer.
HandleWriteMode ==
    /\ ppc = "wmode"
    /\ Live({cur.ptr})
    /\ UpdateModeVerify(cur.ptr, ModeAfterWrite(cur.ptr))
    /\ UpdateMode(cur.ptr, ModeAfterWrite(cur.ptr))
    /\ HandlerDone("OUT")
    /\ UNCHANGED <<file, socketVars, refVars, fd_, endVars, opc, batch, removing, sdVars,
                   cleanupLocal, dbVars, mainVars, missed, crash>>

\* verify(it != mode_.end()), verify(epoll_ctl(poll_fd_, EPOLL_CTL_MOD, fd, &ev) == 0)
UpdateModeFails ==
    /\ \/ /\ ppc = "rmode"
          /\ Live({cur.ptr, peer_(cur.ptr)})
          /\ ~UpdateModeVerify(peer_(cur.ptr), RW)
       \/ /\ ppc = "wmode"
          /\ Live({cur.ptr})
          /\ ~UpdateModeVerify(cur.ptr, ModeAfterWrite(cur.ptr))
    /\ Abort("mod")

\* handle_error: shut the leader of the session down.
HandleError ==
    /\ ppc = "error"
    /\ Live({cur.ptr})
    /\ enabled_[cur.ptr]
    /\ StartShutdown("poll", cur.ptr[1])
    /\ HandlerDone("HUP")
    /\ UNCHANGED <<kernelVars, registryVars, refVars, fd_, endVars, opc, batch, removing,
                   cleanupLocal, dbVars, mainVars, missed, crash>>

\* End of a round: take the set of removed Pollables ...
SwapPending ==
    /\ ppc = "swap"
    /\ removing' = pending_remove_
    /\ pending_remove_' = {}
    /\ ppc' = "drain"
    /\ UNCHANGED <<kernelVars, poll_set_, mode_, refVars, fd_, endVars, opc, batch, cur, sdVars,
                   cleanupLocal, dbVars, mainVars, missed, crash>>

\* ... and for each drop the epoll entry and the registry's reference.
DrainOne(e) ==
    /\ ppc = "drain"
    /\ e \in removing
    /\ Live({e})
    /\ ForgetFd(e)
    /\ Release(e)
    /\ removing' = removing \ {e}
    /\ UNCHANGED <<file, socketVars, registryVars, fd_, endVars, opc, ppc, batch, cur, sdVars,
                   cleanupLocal, dbVars, mainVars, missed, crash>>

DrainDone ==
    /\ ppc = "drain"
    /\ removing = {}
    /\ ppc' = "wait"
    /\ UNCHANGED <<kernelVars, registryVars, refVars, fd_, endVars, opc, batch, cur, removing,
                   sdVars, cleanupLocal, dbVars, mainVars, missed, crash>>

\* stop_flag_ seen: release what is in poll_set_ and leave.
PollExit ==
    /\ ppc = "wait"
    /\ stop_flag_
    /\ Live(poll_set_)
    /\ refcnt_' = [e \in Ends |-> IF e \in poll_set_ THEN refcnt_[e] - 1 ELSE refcnt_[e]]
    /\ freed' = freed \cup {e \in poll_set_ : refcnt_[e] = 1}
    /\ ppc' = "exited"
    /\ UNCHANGED <<kernelVars, registryVars, fd_, endVars, opc, batch, cur, removing, sdVars,
                   cleanupLocal, dbVars, mainVars, missed, crash>>

PollStep ==
    \/ PollWait \/ PollNext \/ HandlerNotEnabled
    \/ HandleRead \/ HandleReadMode \/ HandleWrite \/ HandleWriteMode \/ HandleError
    \/ SwapPending \/ (\E e \in Ends : DrainOne(e)) \/ DrainDone \/ PollExit

-------------------------------------------------------------------------------
(* The cleanup thread and the database.                                    *)

\* select forward_key from vncproxy
CleanupQuery ==
    /\ cpc = "query"
    /\ ~stop
    /\ valid' = routes
    /\ cpc' = "scan"
    /\ UNCHANGED <<kernelVars, registryVars, refVars, fd_, endVars, opc, pollLocal, sdVars,
                   outlier, dbVars, mainVars, missed, crash>>

\* (mutant) The test of valid_forward_keys is inverted.
CleanupScanInverted ==
    /\ cpc = "scan"
    /\ outlier' = {s \in all_tie_leaders : KeyOf[s] \in valid}
    /\ valid' = {}
    /\ cpc' = "shut"
    /\ UNCHANGED <<kernelVars, registryVars, refVars, fd_, endVars, opc, pollLocal, sdVars,
                   dbVars, mainVars, missed, crash>>

\* EndPoint::cleanup, under all_tie_leaders_m.
CleanupScan ==
    /\ cpc = "scan"
    /\ outlier' = {s \in all_tie_leaders : KeyOf[s] \notin valid}
    /\ valid' = {}
    /\ cpc' = "shut"
    /\ UNCHANGED <<kernelVars, registryVars, refVars, fd_, endVars, opc, pollLocal, sdVars,
                   dbVars, mainVars, missed, crash>>

\* ... then, without the lock, shutdown() of each leader found.
CleanupShutdown(s) ==
    /\ cpc = "shut"
    /\ sdpc["cleanup"] = "idle"
    /\ s \in outlier
    /\ outlier' = outlier \ {s}
    /\ StartShutdown("cleanup", s)
    /\ UNCHANGED <<kernelVars, registryVars, refVars, fd_, endVars, opc, pollLocal,
                   cpc, valid, dbVars, mainVars, missed, crash>>

\* sleep(1) and the test of global_stop_flag.
CleanupSleep ==
    /\ cpc = "shut"
    /\ sdpc["cleanup"] = "idle"
    /\ outlier = {}
    /\ cpc' = "query"
    /\ UNCHANGED <<kernelVars, registryVars, refVars, fd_, endVars, opc, pollLocal, sdVars,
                   valid, outlier, dbVars, mainVars, missed, crash>>

CleanupExit ==
    /\ cpc = "query"
    /\ stop
    /\ cpc' = "exited"
    /\ UNCHANGED <<kernelVars, registryVars, refVars, fd_, endVars, opc, pollLocal, sdVars,
                   valid, outlier, dbVars, mainVars, missed, crash>>

\* An sqlite error skips the round.
CleanupQueryFails ==
    /\ cpc = "query"
    /\ ~stop
    /\ cpc' = "shut"
    /\ UNCHANGED <<kernelVars, registryVars, refVars, fd_, endVars, opc, pollLocal, sdVars,
                   valid, outlier, dbVars, mainVars, missed, crash>>

CleanupStep ==
    \/ CleanupQuery \/ CleanupQueryFails \/ CleanupScan
    \/ (\E s \in Sessions : CleanupShutdown(s)) \/ CleanupSleep \/ CleanupExit

\* The administrator deletes or inserts the record of key k.
EditRoute(k) ==
    /\ edits < MaxEdits
    /\ routes' = IF k \in routes THEN routes \ {k} ELSE routes \cup {k}
    /\ edits' = edits + 1
    /\ UNCHANGED <<kernelVars, registryVars, refVars, fd_, endVars, opc, pollLocal, sdVars,
                   cleanupLocal, mainVars, missed, crash>>

-------------------------------------------------------------------------------
(* The main thread after the accept loop.                                  *)

\* do_stop, the handler of SIGINT and SIGQUIT.
Signal ==
    /\ AllowStop
    /\ ~stop
    /\ stop' = TRUE
    /\ UNCHANGED <<kernelVars, registryVars, refVars, fd_, endVars, opc, pollLocal, sdVars,
                   cleanupLocal, dbVars, mpc, dtor, stop_flag_, missed, crash>>

\* Leave the loop; pthread_join(cleanup_th); delete thpool, which joins the
\* pool's threads; then ~PollThread up to the copy of poll_set_.
MainJoins ==
    /\ \/ mpc = "run" /\ stop /\ mpc' = "join_cleanup"
       \/ mpc = "join_cleanup" /\ cpc = "exited" /\ mpc' = "join_pool"
       \/ mpc = "join_pool" /\ (\A s \in Sessions : opc[s] \in {"idle", "done"}) /\ mpc' = "copy"
    /\ UNCHANGED <<kernelVars, registryVars, refVars, fd_, endVars, opc, pollLocal, sdVars,
                   cleanupLocal, dbVars, dtor, stop, stop_flag_, missed, crash>>

DtorCopy ==
    /\ mpc = "copy"
    /\ dtor' = poll_set_
    /\ mpc' = "remove"
    /\ UNCHANGED <<kernelVars, registryVars, refVars, fd_, endVars, opc, pollLocal, sdVars,
                   cleanupLocal, dbVars, stop, stop_flag_, missed, crash>>

DtorRemove(e) ==
    /\ mpc = "remove"
    /\ e \in dtor
    /\ Live({e})
    /\ RemoveAssert(e)
    /\ Remove(e)
    /\ dtor' = dtor \ {e}
    /\ UNCHANGED <<kernelVars, refVars, fd_, endVars, opc, pollLocal, sdVars,
                   cleanupLocal, dbVars, mpc, stop, stop_flag_, missed, crash>>

\* (mutant) ~PollThread joins without telling the poll thread to stop.
DtorStopSilent ==
    /\ mpc = "remove"
    /\ dtor = {}
    /\ mpc' = "join_poll"
    /\ UNCHANGED <<kernelVars, registryVars, refVars, fd_, endVars, opc, pollLocal, sdVars,
                   cleanupLocal, dbVars, dtor, stop, stop_flag_, missed, crash>>

DtorStop ==
    /\ mpc = "remove"
    /\ dtor = {}
    /\ stop_flag_' = TRUE
    /\ mpc' = "join_poll"
    /\ UNCHANGED <<kernelVars, registryVars, refVars, fd_, endVars, opc, pollLocal, sdVars,
                   cleanupLocal, dbVars, dtor, stop, missed, crash>>

MainDone ==
    /\ mpc = "join_poll"
    /\ ppc = "exited"
    /\ mpc' = "done"
    /\ UNCHANGED <<kernelVars, registryVars, refVars, fd_, endVars, opc, pollLocal, sdVars,
                   cleanupLocal, dbVars, dtor, stop, stop_flag_, missed, crash>>

MainStep == MainJoins \/ DtorCopy \/ (\E e \in Ends : DtorRemove(e)) \/ DtorStop \/ MainDone

-------------------------------------------------------------------------------
\* The objects some thread's next step dereferences.
AboutToUse(e) ==
    \/ \E s \in Sessions : <<opc[s], e>> \in
          {<<"ref1", leader(s)>>, <<"ins1", leader(s)>>, <<"ready1", leader(s)>>,
           <<"ref2", follower(s)>>, <<"ins2", follower(s)>>, <<"ready2", follower(s)>>}
    \/ ppc \in {"read", "rmode", "write", "wmode", "error"} /\ e = cur.ptr
    \/ ppc = "read" /\ enabled_[cur.ptr] /\ e = peer_(cur.ptr)
    \/ ppc = "rmode" /\ e = peer_(cur.ptr)
    \/ ppc = "drain" /\ e \in removing
    \/ \E t \in Shutters : e \in ShutUses(t)
    \/ mpc = "remove" /\ e \in dtor

UseAfterFree ==
    /\ \E e \in freed : AboutToUse(e)
    /\ Abort("freed")

\* The Pollables that remove() is called with next, by a shutdown() or by
\* ~PollThread; assert(mode_.find(poll->fd()) != end), or == end, fails.
ToRemove ==
    {ShutEnd(t) : t \in {u \in Shutters : sdpc[u] \in {"remove1", "remove2"}}}
        \cup (IF mpc = "remove" THEN dtor ELSE {})

RemoveFails ==
    /\ \E e \in ToRemove \ freed : ~RemoveAssert(e)
    /\ Abort("remove")

Failure ==
    \/ UseAfterFree
    \/ UpdateModeFails
    \/ \E s \in Sessions, e \in Ends : AddVerifyFails(s, e) \/ AddEpollFails(s, e)
    \/ RemoveFails

Environment ==
    \/ /\ \E e \in Ends : Outside(e)
       /\ UNCHANGED <<registryVars, refVars, fd_, endVars, opc, pollLocal, sdVars,
                      cleanupLocal, dbVars, mainVars, missed, crash>>
    \/ \E k \in Keys : EditRoute(k)
    \/ Signal

Running ==
    \/ \E s \in Sessions : Accept(s) \/ Handshake(s) \/ TieSteps(s)
    \/ PollStep
    \/ CleanupStep
    \/ \E t \in Shutters : ShutdownStep(t)
    \/ MainStep
    \/ Environment
    \/ Failure

Ended == crash # "none" \/ mpc = "done"

Next ==
    \/ ~Ended /\ Running
    \/ Ended /\ UNCHANGED vars

Spec == Init /\ [][Next]_vars

\* The operators up to tie_fd, alone: what VncOperator implements.
HandshakeNext == (\E s \in Sessions : Accept(s) \/ Handshake(s)) \/ Environment

HandshakeSpec == Init /\ [][HandshakeNext]_vars

-------------------------------------------------------------------------------
(* Fairness: every thread that has a step to take takes it.  The database  *)
(* is not locked at every check for ever, and the parties outside read     *)
(* what is sent to them.  Nothing is assumed about the handshake.          *)

Fairness ==
    /\ WF_vars(~Ended /\ (PollStep \/ ShutdownStep("poll")))
    /\ WF_vars(~Ended /\ (CleanupStep \/ ShutdownStep("cleanup")))
    /\ SF_vars(~Ended /\ CleanupQuery)
    /\ WF_vars(~Ended /\ MainStep)
    /\ WF_vars(~Ended /\ Failure)
    /\ \A s \in Sessions : WF_vars(~Ended /\ TieSteps(s))
    /\ \A e \in Ends : WF_vars(~Ended /\ Consume(e) /\ Environment)

FairSpec == Spec /\ Fairness

\* Every handshake ends: the client and the server answer or hang up, and there
\* are finitely many addresses to try.
HandshakesEnd ==
    \A s \in Sessions :
        /\ WF_vars(~Ended /\ Handshake(s))
        /\ WF_vars(~Ended /\ (HandshakeFails(s) \/ Tie(s)))

-------------------------------------------------------------------------------
(* Safety.                                                                 *)

\* mode_ has an entry for exactly the descriptors of the Pollables in
\* poll_set_, and no two of them share one: the assert at the head of remove()
\* and verify(it != mode_.end()) of update_mode() cannot fail, whatever the
\* other threads do.
ModeMatchesPollSet ==
    /\ \A e \in poll_set_ : mode_[fd_[e]] # Absent
    /\ \A fd \in Fds : mode_[fd] # Absent => \E e \in poll_set_ : fd_[e] = fd
    /\ \A e, f \in poll_set_ : fd_[e] = fd_[f] => e = f

\* add() has returned for end e.
Added(e) ==
    opc[e[1]] \in {"ready1", "ready2", "done"} \cup
                   (IF e[2] = "client" THEN {"ref2", "ins2", "ctl2"} ELSE {})

\* An end that is registered, and whose socket is still open, has its own epoll
\* entry with the interest mode_ records: the late EPOLL_CTL_DEL of an older
\* Pollable never takes away the entry of a new one that got the same
\* descriptor number.
RegistrationIntact ==
    \A e \in poll_set_ :
        Added(e) /\ file[fd_[e]] = e => eptr[e] = e /\ emask[e] = mode_[fd_[e]]

\* Whatever is in all_tie_leaders still exists, so the scan in
\* EndPoint::cleanup never meets a deleted EndPoint.
LeadersLive == \A s \in all_tie_leaders : leader(s) \notin freed

\* What has been written to an end, followed by what waits in its buffer, is
\* exactly what has been read from its peer: no byte is lost, doubled or moved
\* inside the proxy.  (For one session; see README on descriptor reuse.)
InOrder ==
    \A x \in Ends : wr[x] \o buf_[x] = [i \in 1 .. rd[peer_(x)] |-> <<peer_(x), i>>]

\* As long as only servers hang up, no route changes and no signal comes, no
\* deleted EndPoint is used and no system call of the poll thread fails,
\* whichever session gets a closed descriptor next; only add() may meet a
\* descriptor that is still in mode_.
ServerHangupSafe ==
    hup \subseteq Sessions \X {"remote"} /\ edits = 0 /\ ~stop => crash \in {"none", "add"}

\* RefCounted: an EndPoint is deleted by the release() that drops the last
\* reference, so no thread uses or releases one that has been deleted.
NoUseAfterFree == crash # "freed"

\* PollThread::add: verify(mode_.find(fd) == mode_.end()).
AddVerifyHolds == crash # "add"

\* PollThread::remove: assert(mode_.find(poll->fd()) == mode_.end()) for a
\* Pollable that is not registered.
RemoveAssertHolds == crash # "remove"

-------------------------------------------------------------------------------
(* Liveness.                                                               *)

EndsOf(s) == {leader(s), follower(s)}

\* A session whose route stays deleted ends up closed (unless the process has
\* aborted or was told to stop, which closes it too).
Tied(s) == \E e \in EndsOf(s) : refcnt_[e] > 0 /\ IsOpen(e)

DeletedRouteCloses ==
    \A s \in Sessions :
        <>[](KeyOf[s] \notin routes) => <>[](~Tied(s) \/ Ended \/ stop)

\* When an end of a ready session hangs up, both sockets are closed and both
\* EndPoints deleted, unless the hang-up was reported before ready() or the
\* process was told to stop.
HangupReclaims ==
    \A s \in Sessions :
        (enabled_[follower(s)] /\ EndsOf(s) \cap hup # {}) ~>
            \/ EndsOf(s) \subseteq freed /\ \A e \in EndsOf(s) : ~IsOpen(e)
            \/ EndsOf(s) \cap missed # {}
            \/ stop
            \/ crash # "none"

\* tie_fd: what arrives at one end of a ready session is written to the other.
Delivered(x, i) ==
    \/ Len(wr[peer_(x)]) >= i
    \/ {x, peer_(x)} \cap hup # {}
    \/ ~IsOpen(x)
    \/ Ended

Forwarded ==
    \A x \in Ends : \A i \in 1 .. MaxBytes[x] :
        (enabled_[follower(x[1])] /\ sent[x] >= i) ~> Delivered(x, i)

\* The same, when no event was reported before ready().
ForwardedUnlessMissed ==
    \A x \in Ends : \A i \in 1 .. MaxBytes[x] :
        (enabled_[follower(x[1])] /\ sent[x] >= i) ~>
            (Delivered(x, i) \/ {x, peer_(x)} \cap missed # {})

\* After SIGINT or SIGQUIT the process ends, if the handshakes do.
StopQuits == HandshakesEnd => (stop ~> Ended)

===============================================================================
