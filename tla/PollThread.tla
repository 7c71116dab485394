------------------------------ MODULE PollThread ------------------------------
(***************************************************************************)
(* PollMgr::PollThread of polling.cc: the registry of Pollables (poll_set_,*)
(* mode_, pending_remove_) and the reference counts of RefCounted          *)
(* (utils.h) it takes and drops.  The program makes one PollMgr with the   *)
(* default of one thread, so fd % n_ is always that thread.                *)
(*                                                                         *)
(* The operators here are the bodies of add(), remove(), update_mode(),    *)
(* ref_copy() and release(); module EndPoint composes them into the steps  *)
(* of the threads that call them.  A critical section of PollThread::m_ is *)
(* one step.  Each verify()/assert() is a predicate that the caller's step *)
(* tests: the build does not define NDEBUG, so a failure aborts.           *)
(***************************************************************************)
EXTENDS Kernel, Integers

\* mode_ is a std::map; a descriptor it does not contain has mode Absent.
Absent == {}

VARIABLES
    poll_set_,        \* the registered Pollables
    mode_,            \* mode_[fd]
    pending_remove_,  \* removed Pollables the poll loop has not released yet
    refcnt_,          \* RefCounted::refcnt_ of each Pollable
    freed,            \* Pollables that `delete this` has destroyed
    fd_               \* Pollable::fd(), NoFd before the socket exists

registryVars == <<poll_set_, mode_, pending_remove_>>
refVars == <<refcnt_, freed>>

PollThreadTypeOK ==
    /\ poll_set_ \in SUBSET Ends
    /\ mode_ \in [Fds -> {Absent, R, RW}]
    /\ pending_remove_ \in SUBSET Ends
    /\ refcnt_ \in [Ends -> Int]
    /\ freed \in SUBSET Ends
    /\ fd_ \in [Ends -> Fds \cup {NoFd}]

PollThreadInit ==
    /\ poll_set_ = {}
    /\ mode_ = [fd \in Fds |-> Absent]
    /\ pending_remove_ = {}
    /\ refcnt_ = [e \in Ends |-> 0]
    /\ freed = {}
    /\ fd_ = [e \in Ends |-> NoFd]

-------------------------------------------------------------------------------
\* (mutant) add() that takes no reference.
NoRefCopy(e) == UNCHANGED <<refcnt_, freed>>

RefCopy(e) ==
    /\ refcnt_' = [refcnt_ EXCEPT ![e] = @ + 1]
    /\ UNCHANGED freed

\* release(): the thread that takes the count to zero deletes the object.
Release(e) ==
    /\ refcnt_' = [refcnt_ EXCEPT ![e] = @ - 1]
    /\ freed' = IF refcnt_[e] = 1 THEN freed \cup {e} ELSE freed

\* (mutant) add() that does not look at mode_.
AddVerifyPollSetOnly(e) == e \notin poll_set_

\* add(), critical section.
AddVerify(e) == e \notin poll_set_ /\ mode_[fd_[e]] = Absent

AddInsert(e) ==
    /\ poll_set_' = poll_set_ \cup {e}
    /\ mode_' = [mode_ EXCEPT ![fd_[e]] = RW]
    /\ UNCHANGED pending_remove_

\* add(), the epoll_ctl(ADD) after it.
AddCtl(e) == EpollSet(fd_[e], e, RW)

\* remove().  The insertion into pending_remove_ has a lock of its own, but
\* only the poll loop's swap looks at that set and it commutes with the first
\* critical section, so the two are one step.
RemoveAssert(e) == (e \in poll_set_) <=> (mode_[fd_[e]] # Absent)

\* (mutant) remove() that forgets pending_remove_.
RemoveUnqueued(e) ==
    /\ poll_set_' = poll_set_ \ {e}
    /\ mode_' = IF e \in poll_set_ THEN [mode_ EXCEPT ![fd_[e]] = Absent] ELSE mode_
    /\ UNCHANGED pending_remove_

Remove(e) ==
    IF e \in poll_set_
    THEN /\ poll_set_' = poll_set_ \ {e}
         /\ mode_' = [mode_ EXCEPT ![fd_[e]] = Absent]
         /\ pending_remove_' = pending_remove_ \cup {e}
    ELSE UNCHANGED registryVars

\* update_mode(): nothing for a Pollable that is not registered, and no system
\* call when the mode does not change.
ChangesMode(e, m) == e \in poll_set_ /\ mode_[fd_[e]] # m

UpdateModeVerify(e, m) ==
    ChangesMode(e, m) => mode_[fd_[e]] # Absent /\ EpollModOK(fd_[e])

\* (mutant) update_mode() that records the mode but does not call epoll_ctl.
UpdateModeSilent(e, m) ==
    /\ mode_' = IF ChangesMode(e, m) THEN [mode_ EXCEPT ![fd_[e]] = m] ELSE mode_
    /\ UNCHANGED <<poll_set_, pending_remove_, epollVars>>

UpdateMode(e, m) ==
    /\ IF ChangesMode(e, m)
       THEN /\ mode_' = [mode_ EXCEPT ![fd_[e]] = m]
            /\ EpollSet(fd_[e], e, m)
       ELSE UNCHANGED <<mode_, epollVars>>
    /\ UNCHANGED <<poll_set_, pending_remove_>>

\* (mutant) The poll loop deletes the epoll entry whoever it belongs to now.
ForgetFdAlways(e) == EpollDel(fd_[e])

\* End of the poll loop, for one removed Pollable: unless the descriptor has
\* been registered again in the meantime, take it out of epoll.
ForgetFd(e) ==
    IF mode_[fd_[e]] = Absent THEN EpollDel(fd_[e]) ELSE UNCHANGED epollVars

===============================================================================
