------------------------------ MODULE ThreadPool ------------------------------
(***************************************************************************)
(* Queue and ThreadPool of utils.h and utils.cc.  One thread owns the pool *)
(* (main): it calls run_async and then the destructor.  Each pool thread   *)
(* pops from a queue of its own.  A critical section of Queue::m_ is one   *)
(* step; pthread_cond_wait is the two steps around its wait, and may wake  *)
(* up without a signal.                                                    *)
(***************************************************************************)
EXTENDS Integers, Sequences

CONSTANTS
    N,      \* n_, the number of threads
    Jobs,   \* Runnables
    NULL    \* the termination token

ASSUME PoolAssumption ==
    /\ N \in Nat \ {0}
    /\ NULL \notin Jobs

Threads == 0 .. N - 1
Entries == Jobs \cup {NULL}

VARIABLES
    q_,     \* q_[t]: the list in the queue of thread t
    tpc,    \* where thread t is
    job,    \* job[t]: the j of run_thread
    new,    \* Runnables nobody has submitted
    ran,    \* Runnables that have run and been deleted
    mpc,    \* where main is
    i       \* the loop variable of the destructor

vars == <<q_, tpc, job, new, ran, mpc, i>>

ThreadSteps == {"pop", "wait", "woken", "run", "exited"}
MainSteps == {"submit", "token", "join", "destroyed"}

TypeOK ==
    /\ q_ \in [Threads -> Seq(Entries)]
    /\ tpc \in [Threads -> ThreadSteps]
    /\ job \in [Threads -> Entries]
    /\ new \in SUBSET Jobs
    /\ ran \in SUBSET Jobs
    /\ mpc \in MainSteps
    /\ i \in 0 .. N

Init ==
    /\ q_ = [t \in Threads |-> <<>>]
    /\ tpc = [t \in Threads |-> "pop"]
    /\ job = [t \in Threads |-> NULL]
    /\ new = Jobs
    /\ ran = {}
    /\ mpc = "submit"
    /\ i = 0

-------------------------------------------------------------------------------
\* (mutant) push() that does not signal.
PushUnsignalled(t, e) ==
    /\ q_' = [q_ EXCEPT ![t] = Append(@, e)]
    /\ UNCHANGED tpc

\* Queue::push: append, and signal the thread that waits.
Push(t, e) ==
    /\ q_' = [q_ EXCEPT ![t] = Append(@, e)]
    /\ tpc' = [tpc EXCEPT ![t] = IF @ = "wait" THEN "woken" ELSE @]

\* run_async(j): rand() % n_ picks the thread.
RunAsync(j) ==
    /\ mpc = "submit"
    /\ j \in new
    /\ \E t \in Threads : Push(t, j)
    /\ new' = new \ {j}
    /\ UNCHANGED <<job, ran, mpc, i>>

\* ~ThreadPool: a token for each thread, then a join of each.
Destroy ==
    /\ mpc = "submit"
    /\ mpc' = "token"
    /\ UNCHANGED <<q_, tpc, job, new, ran, i>>

\* (mutant) One token too many.
PushTokenOnceMore ==
    /\ mpc = "token"
    /\ i <= N
    /\ IF i < N THEN Push(i, NULL) ELSE UNCHANGED <<q_, tpc>>
    /\ i' = i + 1
    /\ UNCHANGED <<job, new, ran, mpc>>

\* (mutant) All tokens go to the first thread.
PushTokenFirst ==
    /\ mpc = "token"
    /\ i < N
    /\ Push(0, NULL)
    /\ i' = i + 1
    /\ UNCHANGED <<job, new, ran, mpc>>

PushToken ==
    /\ mpc = "token"
    /\ i < N
    /\ Push(i, NULL)
    /\ i' = i + 1
    /\ UNCHANGED <<job, new, ran, mpc>>

TokensPushed ==
    /\ mpc = "token"
    /\ i = N
    /\ mpc' = "join"
    /\ i' = 0
    /\ UNCHANGED <<q_, tpc, job, new, ran>>

Join ==
    /\ mpc = "join"
    /\ i < N
    /\ tpc[i] = "exited"
    /\ i' = i + 1
    /\ UNCHANGED <<q_, tpc, job, new, ran, mpc>>

\* (mutant) The queues are deleted before the threads have left.
JoinedEarly ==
    /\ mpc = "join"
    /\ mpc' = "destroyed"
    /\ UNCHANGED <<q_, tpc, job, new, ran, i>>

\* delete[] q_
Joined ==
    /\ mpc = "join"
    /\ i = N
    /\ mpc' = "destroyed"
    /\ UNCHANGED <<q_, tpc, job, new, ran, i>>

Destructor == PushToken \/ TokensPushed \/ Join \/ Joined
Main == (\E j \in Jobs : RunAsync(j)) \/ Destroy \/ Destructor

-------------------------------------------------------------------------------
\* Queue::pop: while (q_.empty()) pthread_cond_wait(..) ...
Wait(t) ==
    /\ tpc[t] \in {"pop", "woken"}
    /\ q_[t] = <<>>
    /\ tpc' = [tpc EXCEPT ![t] = "wait"]
    /\ UNCHANGED <<q_, job, new, ran, mpc, i>>

SpuriousWakeup(t) ==
    /\ tpc[t] = "wait"
    /\ tpc' = [tpc EXCEPT ![t] = "woken"]
    /\ UNCHANGED <<q_, job, new, ran, mpc, i>>

\* (mutant) front() without pop_front().
PopKeeps(t) ==
    /\ tpc[t] \in {"pop", "woken"}
    /\ q_[t] # <<>>
    /\ job' = [job EXCEPT ![t] = Head(q_[t])]
    /\ tpc' = [tpc EXCEPT ![t] = IF Head(q_[t]) = NULL THEN "exited" ELSE "run"]
    /\ UNCHANGED <<q_, new, ran, mpc, i>>

\* ... then take the first entry; run_thread leaves when it is the token.
Pop(t) ==
    /\ tpc[t] \in {"pop", "woken"}
    /\ q_[t] # <<>>
    /\ q_' = [q_ EXCEPT ![t] = Tail(@)]
    /\ job' = [job EXCEPT ![t] = Head(q_[t])]
    /\ tpc' = [tpc EXCEPT ![t] = IF Head(q_[t]) = NULL THEN "exited" ELSE "run"]
    /\ UNCHANGED <<new, ran, mpc, i>>

\* (mutant) A thread leaves after its first job.
RunAndLeave(t) ==
    /\ tpc[t] = "run"
    /\ ran' = ran \cup {job[t]}
    /\ job' = [job EXCEPT ![t] = NULL]
    /\ tpc' = [tpc EXCEPT ![t] = "exited"]
    /\ UNCHANGED <<q_, new, mpc, i>>

\* j->run() returns; delete j.
RunAndDelete(t) ==
    /\ tpc[t] = "run"
    /\ ran' = ran \cup {job[t]}
    /\ job' = [job EXCEPT ![t] = NULL]
    /\ tpc' = [tpc EXCEPT ![t] = "pop"]
    /\ UNCHANGED <<q_, new, mpc, i>>

Thread(t) == Wait(t) \/ SpuriousWakeup(t) \/ Pop(t) \/ RunAndDelete(t)

Ended == mpc = "destroyed" /\ \A t \in Threads : tpc[t] = "exited"

Next == Main \/ (\E t \in Threads : Thread(t)) \/ (Ended /\ UNCHANGED vars)

Spec == Init /\ [][Next]_vars

\* Every thread is scheduled, every run() returns, and a destructor that was
\* called goes on.  Nothing obliges main to submit a job or to call it.
Fairness ==
    /\ \A t \in Threads : WF_vars(Wait(t) \/ Pop(t)) /\ WF_vars(RunAndDelete(t))
    /\ WF_vars(Destructor)

FairSpec == Spec /\ Fairness

-------------------------------------------------------------------------------
InQueue(t, e) == \E k \in 1 .. Len(q_[t]) : q_[t][k] = e

\* No wake-up is lost: a thread sleeps in pthread_cond_wait only while its queue
\* is empty, because push() signals before it releases the mutex.
NoLostWakeup == \A t \in Threads : tpc[t] = "wait" => q_[t] = <<>>

\* When the destructor deletes the queues no thread can touch them any more,
\* and every job that was submitted has run and been deleted.
DestructorDrains ==
    mpc = "destroyed" =>
        /\ \A t \in Threads : tpc[t] = "exited" /\ q_[t] = <<>>
        /\ Jobs = new \cup ran

\* A job has been submitted or not, is queued once, runs once: no run_async is
\* lost, no Runnable runs twice or after it was deleted.
JobState(j) ==
    CASE j \in new -> "new"
      [] \E t \in Threads : tpc[t] = "run" /\ job[t] = j -> "running"
      [] \E t \in Threads : InQueue(t, j) -> "queued"
      [] OTHER -> "finished"

JP == INSTANCE JobPool WITH
          state <- [j \in Jobs |-> JobState(j)], open <- (mpc # "destroyed")

RunsEachJobOnce == JP!Spec

\* A job that was submitted runs, and a destructor that was called returns.
SubmittedJobsRun == \A j \in Jobs : (j \notin new) ~> (j \in ran)
DestructorReturns == (mpc = "token") ~> (mpc = "destroyed")

===============================================================================
