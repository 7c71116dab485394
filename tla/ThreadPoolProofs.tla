--------------------------- MODULE ThreadPoolProofs ---------------------------
(***************************************************************************)
(* Theorems about ThreadPool, for any number of threads and any Runnables. *)
(***************************************************************************)
EXTENDS ThreadPool, TLAPS

\* The destructor has pushed the token of thread t.
Tokened(t) == mpc \in {"join", "destroyed"} \/ (mpc = "token" /\ t < i)

\* The token is the last entry of its queue: nothing is pushed behind it.
TokenLast ==
    \A t \in Threads : \A k \in 1 .. Len(q_[t]) : q_[t][k] = NULL => k = Len(q_[t])

TokenFromDestructor ==
    \A t \in Threads : tpc[t] = "exited" \/ InQueue(t, NULL) => Tokened(t)

\* A thread leaves with its queue empty ...
ExitedEmpty == \A t \in Threads : tpc[t] = "exited" => q_[t] = <<>>

\* ... and is joined after it left.
JoinedExited ==
    \A t \in Threads : mpc = "destroyed" \/ (mpc = "join" /\ t < i) => tpc[t] = "exited"

RunningJob == \A t \in Threads : tpc[t] = "run" => job[t] \in Jobs

InThread(t, j) == (tpc[t] = "run" /\ job[t] = j) \/ InQueue(t, j)

\* A submitted job that has not run is in some thread's hands or queue.
NoJobLost == \A j \in Jobs \ new : j \in ran \/ \E t \in Threads : InThread(t, j)

PoolInv ==
    /\ TypeOK
    /\ NoLostWakeup
    /\ TokenLast
    /\ TokenFromDestructor
    /\ ExitedEmpty
    /\ JoinedExited
    /\ RunningJob
    /\ NoJobLost

-------------------------------------------------------------------------------
\* Entries of a queue after push() and after pop().
LEMMA Pushed ==
    ASSUME NEW s \in Seq(Entries), NEW e \in Entries
    PROVE  /\ Append(s, e) \in Seq(Entries)
           /\ Len(Append(s, e)) = Len(s) + 1
           /\ Append(s, e)[Len(s) + 1] = e
           /\ \A k \in 1 .. Len(s) : Append(s, e)[k] = s[k]
OBVIOUS

\* pop_front().
LEMMA Popped ==
    ASSUME NEW s \in Seq(Entries), s # <<>>
    PROVE  /\ Tail(s) \in Seq(Entries)
           /\ Head(s) \in Entries
           /\ Head(s) = s[1]
           /\ Len(s) \in Nat \ {0}
           /\ Len(Tail(s)) = Len(s) - 1
           /\ \A k \in 1 .. Len(Tail(s)) : Tail(s)[k] = s[k + 1]
OBVIOUS

\* The invariant holds initially.
LEMMA PoolInit == Init => PoolInv
BY PoolAssumption
   DEF Init, PoolInv, TypeOK, NoLostWakeup, TokenLast, TokenFromDestructor, ExitedEmpty,
       JoinedExited, RunningJob, NoJobLost, InQueue, Threads, Entries, ThreadSteps, MainSteps

\* A push by main keeps everything that is not about the token.
LEMMA PushKeeps ==
    ASSUME PoolInv, NEW t \in Threads, NEW e \in Entries, Push(t, e), tpc[t] # "exited",
           UNCHANGED <<job, ran>>
    PROVE  /\ q_' \in [Threads -> Seq(Entries)]
           /\ tpc' \in [Threads -> ThreadSteps]
           /\ NoLostWakeup'
           /\ ExitedEmpty'
           /\ RunningJob'
           /\ \A u \in Threads : tpc'[u] = "exited" <=> tpc[u] = "exited"
           /\ \A u \in Threads, j \in Jobs : InThread(u, j) => InThread(u, j)'
           /\ InQueue(t, e)'
           /\ \A u \in Threads, x \in Entries :
                  InQueue(u, x)' => InQueue(u, x) \/ (u = t /\ x = e)
<1> USE DEF PoolInv, TypeOK, Push, InThread, InQueue
<1> DEFINE s == q_[t]
<1>1. s \in Seq(Entries)
  OBVIOUS
<1>2. /\ q_'[t] = Append(s, e)
      /\ \A u \in Threads \ {t} : q_'[u] = q_[u]
      /\ Append(s, e) \in Seq(Entries)
      /\ Len(Append(s, e)) = Len(s) + 1
      /\ Append(s, e)[Len(s) + 1] = e
      /\ \A k \in 1 .. Len(s) : Append(s, e)[k] = s[k]
      /\ Len(s) \in Nat
  BY <1>1, Pushed
<1>3. q_' \in [Threads -> Seq(Entries)]
  BY <1>2
<1>4. tpc' \in [Threads -> ThreadSteps]
  BY DEF ThreadSteps
<1>5. /\ tpc'[t] # "wait"
      /\ \A u \in Threads : tpc'[u] = "exited" <=> tpc[u] = "exited"
      /\ \A u \in Threads : tpc'[u] = "run" <=> tpc[u] = "run"
      /\ \A u \in Threads \ {t} : tpc'[u] = tpc[u]
  OBVIOUS
<1>6. NoLostWakeup'
  BY <1>2, <1>5 DEF NoLostWakeup
<1>7. ExitedEmpty'
  BY <1>2, <1>5 DEF ExitedEmpty
<1>8. RunningJob'
  BY <1>5 DEF RunningJob
<1>9. \A u \in Threads, j \in Jobs : InThread(u, j) => InThread(u, j)'
  <2> SUFFICES ASSUME NEW u \in Threads, NEW j \in Jobs, InThread(u, j)
               PROVE  InThread(u, j)'
    OBVIOUS
  <2>1. CASE tpc[u] = "run" /\ job[u] = j
    BY <2>1, <1>5
  <2>2. CASE InQueue(u, j)
    <3>1. PICK k \in 1 .. Len(q_[u]) : q_[u][k] = j
      BY <2>2
    <3>2. k \in 1 .. Len(q_'[u]) /\ q_'[u][k] = j
      BY <3>1, <1>2
    <3> QED BY <3>2
  <2> QED BY <2>1, <2>2
<1>10. InQueue(t, e)'
  BY <1>2
<1>11. \A u \in Threads, x \in Entries : InQueue(u, x)' => InQueue(u, x) \/ (u = t /\ x = e)
  BY <1>2
<1> QED BY <1>3, <1>4, <1>5, <1>6, <1>7, <1>8, <1>9, <1>10, <1>11

\* main's steps.
LEMMA MainKeeps == PoolInv /\ Main => PoolInv'
<1> SUFFICES ASSUME PoolInv, Main PROVE PoolInv'
  OBVIOUS
<1> USE PoolAssumption DEF PoolInv
<1>1. CASE \E j \in Jobs : RunAsync(j)
  <2>1. PICK j \in Jobs, t \in Threads :
            mpc = "submit" /\ j \in new /\ Push(t, j) /\ new' = new \ {j}
            /\ UNCHANGED <<job, ran, mpc, i>>
    BY <1>1 DEF RunAsync
  <2>2. /\ tpc[t] # "exited" /\ ~InQueue(t, NULL)
        /\ \A u \in Threads : ~Tokened(u)
    BY <2>1 DEF TokenFromDestructor, Tokened
  <2>3. j \in Entries /\ j # NULL /\ NULL \in Entries
    BY DEF Entries
  <2>4. /\ q_' \in [Threads -> Seq(Entries)] /\ tpc' \in [Threads -> ThreadSteps]
        /\ NoLostWakeup' /\ ExitedEmpty' /\ RunningJob'
        /\ \A u \in Threads : tpc'[u] = "exited" <=> tpc[u] = "exited"
        /\ \A u \in Threads, x \in Jobs : InThread(u, x) => InThread(u, x)'
        /\ InQueue(t, j)'
        /\ \A u \in Threads, x \in Entries :
               InQueue(u, x)' => InQueue(u, x) \/ (u = t /\ x = j)
    BY <2>1, <2>2, <2>3, PushKeeps
  <2>5. TypeOK'
    BY <2>1, <2>4 DEF TypeOK
  <2>6. \A u \in Threads : ~InQueue(u, NULL)' /\ tpc'[u] # "exited"
    BY <2>2, <2>3, <2>4 DEF TokenFromDestructor
  <2>7. TokenLast' /\ TokenFromDestructor' /\ JoinedExited'
    BY <2>1, <2>6 DEF TokenLast, TokenFromDestructor, JoinedExited, InQueue
  <2>8. NoJobLost'
    BY <2>1, <2>4 DEF NoJobLost, InThread
  <2> QED BY <2>4, <2>5, <2>7, <2>8
<1>2. CASE PushToken
  <2>1. i \in Threads /\ i \in Int /\ NULL \in Entries
    BY <1>2 DEF PushToken, TypeOK, Threads, Entries
  <2>2. tpc[i] # "exited" /\ ~InQueue(i, NULL)
    BY <1>2, <2>1 DEF TokenFromDestructor, Tokened, PushToken
  <2>3. /\ q_' \in [Threads -> Seq(Entries)] /\ tpc' \in [Threads -> ThreadSteps]
        /\ NoLostWakeup' /\ ExitedEmpty' /\ RunningJob'
        /\ \A u \in Threads : tpc'[u] = "exited" <=> tpc[u] = "exited"
        /\ \A u \in Threads, x \in Jobs : InThread(u, x) => InThread(u, x)'
        /\ \A u \in Threads, x \in Entries :
               InQueue(u, x)' => InQueue(u, x) \/ (u = i /\ x = NULL)
    BY <1>2, <2>1, <2>2, PushKeeps DEF PushToken
  <2>4. TypeOK'
    BY <1>2, <2>3 DEF TypeOK, PushToken
  <2>5. TokenLast'
    <3> SUFFICES ASSUME NEW u \in Threads, NEW k \in 1 .. Len(q_'[u]), q_'[u][k] = NULL
                 PROVE  k = Len(q_'[u])
      BY DEF TokenLast
    <3>1. CASE u = i
      <4>1. /\ q_'[i] = Append(q_[i], NULL) /\ q_[i] \in Seq(Entries)
            /\ \A x \in 1 .. Len(q_[i]) : q_[i][x] # NULL
        BY <1>2, <2>1, <2>2 DEF PushToken, Push, TypeOK, InQueue
      <4>2. /\ Len(q_'[i]) = Len(q_[i]) + 1
            /\ \A x \in 1 .. Len(q_[i]) : q_'[i][x] = q_[i][x]
        BY <4>1, <2>1, Pushed
      <4> QED BY <3>1, <4>1, <4>2
    <3>2. CASE u # i
      BY <3>2, <1>2, <2>1 DEF PushToken, Push, TokenLast, TypeOK
    <3> QED BY <3>1, <3>2
  <2>6. TokenFromDestructor'
    BY <1>2, <2>1, <2>3 DEF TokenFromDestructor, Tokened, PushToken, Entries, Threads
  <2>7. JoinedExited' /\ NoJobLost'
    BY <1>2, <2>3 DEF JoinedExited, NoJobLost, PushToken
  <2> QED BY <2>3, <2>4, <2>5, <2>6, <2>7
<1>3. CASE Destroy \/ TokensPushed \/ Join \/ Joined
  <2>1. UNCHANGED <<q_, tpc, job, new, ran>>
    BY <1>3 DEF Destroy, TokensPushed, Join, Joined
  <2>2. TypeOK'
    BY <1>3 DEF TypeOK, MainSteps, Destroy, TokensPushed, Join, Joined
  <2>3. /\ NoLostWakeup' /\ TokenLast' /\ ExitedEmpty' /\ RunningJob' /\ NoJobLost'
    BY <2>1 DEF NoLostWakeup, TokenLast, ExitedEmpty, RunningJob, NoJobLost, InThread, InQueue
  <2>4. TokenFromDestructor'
    BY <1>3, <2>1 DEF TokenFromDestructor, Tokened, InQueue, Threads, TypeOK,
                      Destroy, TokensPushed, Join, Joined
  <2>5. JoinedExited'
    BY <1>3, <2>1 DEF JoinedExited, Threads, TypeOK, Destroy, TokensPushed, Join, Joined
  <2> QED BY <2>2, <2>3, <2>4, <2>5
<1> QED BY <1>1, <1>2, <1>3 DEF Main, Destructor

\* The steps of pool thread t.
LEMMA ThreadKeeps ==
    ASSUME PoolInv, NEW t \in Threads, Thread(t)
    PROVE  PoolInv'
<1> USE PoolAssumption DEF PoolInv
<1>1. CASE Wait(t) \/ SpuriousWakeup(t)
  <2>1. /\ UNCHANGED <<q_, job, new, ran, mpc, i>>
        /\ \A u \in Threads : tpc'[u] = "exited" <=> tpc[u] = "exited"
        /\ \A u \in Threads : tpc'[u] = "run" <=> tpc[u] = "run"
    BY <1>1 DEF Wait, SpuriousWakeup, TypeOK
  <2>2. TypeOK' /\ NoLostWakeup'
    BY <1>1 DEF TypeOK, NoLostWakeup, ThreadSteps, Wait, SpuriousWakeup
  <2>3. /\ TokenLast' /\ TokenFromDestructor' /\ ExitedEmpty' /\ JoinedExited'
        /\ RunningJob' /\ NoJobLost'
    BY <2>1 DEF TokenLast, TokenFromDestructor, ExitedEmpty, JoinedExited, RunningJob,
                NoJobLost, InThread, InQueue, Tokened
  <2> QED BY <2>2, <2>3
<1>2. CASE Pop(t)
  <2> DEFINE s == q_[t]
  <2>1. /\ s \in Seq(Entries) /\ s # <<>>
        /\ q_'[t] = Tail(s) /\ \A u \in Threads \ {t} : q_'[u] = q_[u] /\ tpc'[u] = tpc[u] /\ job'[u] = job[u]
        /\ job'[t] = Head(s)
        /\ tpc'[t] = IF Head(s) = NULL THEN "exited" ELSE "run"
        /\ tpc[t] \in {"pop", "woken"}
        /\ UNCHANGED <<new, ran, mpc, i>>
    BY <1>2 DEF Pop, TypeOK
  <2>2. /\ Tail(s) \in Seq(Entries)
        /\ Head(s) \in Entries
        /\ Head(s) = s[1]
        /\ Len(s) \in Nat \ {0}
        /\ Len(Tail(s)) = Len(s) - 1
        /\ \A k \in 1 .. Len(Tail(s)) : Tail(s)[k] = s[k + 1]
    BY <2>1, Popped
  <2> HIDE DEF s
  <2>3. TypeOK'
    BY <1>2, <2>1, <2>2 DEF TypeOK, Pop, ThreadSteps, Entries, s
  <2>4. NoLostWakeup'
    BY <2>1 DEF NoLostWakeup
  <2>5. TokenLast'
    <3> SUFFICES ASSUME NEW u \in Threads, NEW k \in 1 .. Len(q_'[u]), q_'[u][k] = NULL
                 PROVE  k = Len(q_'[u])
      BY DEF TokenLast
    <3>1. CASE u = t
      <4>1. k + 1 \in 1 .. Len(s) /\ s[k + 1] = NULL
        BY <3>1, <2>1, <2>2
      <4> QED BY <4>1, <3>1, <2>1, <2>2 DEF TokenLast, s
    <3>2. CASE u # t
      BY <3>2, <2>1 DEF TokenLast
    <3> QED BY <3>1, <3>2
  <2>6. \A u \in Threads, x \in Entries : InQueue(u, x)' => InQueue(u, x)
    <3> SUFFICES ASSUME NEW u \in Threads, NEW x \in Entries, NEW k \in 1 .. Len(q_'[u]),
                        q_'[u][k] = x
                 PROVE  InQueue(u, x)
      BY DEF InQueue
    <3>1. CASE u = t
      <4>1. k + 1 \in 1 .. Len(s) /\ s[k + 1] = x
        BY <3>1, <2>1, <2>2
      <4> QED BY <4>1, <3>1 DEF InQueue, s
    <3>2. CASE u # t
      BY <3>2, <2>1 DEF InQueue
    <3> QED BY <3>1, <3>2
  <2>7. Head(s) = NULL => InQueue(t, NULL) /\ Tail(s) = <<>>
    BY <2>1, <2>2 DEF TokenLast, InQueue, s
  <2>8. TokenFromDestructor'
    BY <2>1, <2>6, <2>7 DEF TokenFromDestructor, Tokened, Entries
  <2>9. ExitedEmpty' /\ JoinedExited'
    BY <2>1, <2>7 DEF ExitedEmpty, JoinedExited
  <2>10. RunningJob'
    BY <2>1, <2>2 DEF RunningJob, Entries
  <2>11. NoJobLost'
    <3> SUFFICES ASSUME NEW j \in Jobs \ new, j \notin ran, NEW u \in Threads, InThread(u, j)
                 PROVE  InThread(u, j)'
      BY <2>1 DEF NoJobLost
    <3>1. CASE u # t
      BY <3>1, <2>1 DEF InThread, InQueue
    <3>2. CASE u = t
      <4>1. PICK k \in 1 .. Len(s) : s[k] = j
        BY <3>2, <2>1 DEF InThread, InQueue, s
      <4>2. CASE k = 1
        BY <4>1, <4>2, <3>2, <2>1, <2>2 DEF InThread
      <4>3. CASE k # 1
        <5>1. k - 1 \in 1 .. Len(Tail(s)) /\ Tail(s)[k - 1] = j
          BY <4>1, <4>3, <2>2
        <5> QED BY <5>1, <3>2, <2>1 DEF InThread, InQueue
      <4> QED BY <4>2, <4>3
    <3> QED BY <3>1, <3>2
  <2> QED BY <2>3, <2>4, <2>5, <2>8, <2>9, <2>10, <2>11
<1>3. CASE RunAndDelete(t)
  <2>1. TypeOK' /\ RunningJob'
    BY <1>3 DEF TypeOK, RunningJob, RunAndDelete, ThreadSteps, Entries
  <2>2. /\ NoLostWakeup' /\ TokenLast' /\ TokenFromDestructor' /\ ExitedEmpty' /\ JoinedExited'
    BY <1>3 DEF NoLostWakeup, TokenLast, TokenFromDestructor, ExitedEmpty, JoinedExited,
                RunAndDelete, TypeOK, InQueue, Tokened
  <2>3. NoJobLost'
    BY <1>3 DEF NoJobLost, RunAndDelete, InThread, InQueue, TypeOK
  <2> QED BY <2>1, <2>2, <2>3
<1> QED BY <1>1, <1>2, <1>3 DEF Thread

\* Steps that change nothing.
LEMMA PoolStutters == PoolInv /\ UNCHANGED vars => PoolInv'
BY DEF PoolInv, vars, TypeOK, NoLostWakeup, TokenLast, TokenFromDestructor, ExitedEmpty,
       JoinedExited, RunningJob, NoJobLost, InThread, InQueue, Tokened

\* PoolInv is an invariant of the pool.
THEOREM PoolInvariant == Spec => []PoolInv
<1>1. Init => PoolInv
  BY PoolInit
<1>2. PoolInv /\ [Next]_vars => PoolInv'
  BY MainKeeps, ThreadKeeps, PoolStutters DEF Next
<1> QED BY <1>1, <1>2, PTL DEF Spec

\* Every queue holds jobs and tokens only, and the destructor's loop variable
\* stays in its range, whatever the number of threads.
THEOREM PoolTypeCorrect == Spec => []TypeOK
<1>1. PoolInv => TypeOK
  BY DEF PoolInv
<1> QED BY <1>1, PoolInvariant, PTL

\* No wake-up is lost, whatever the number of threads.
THEOREM PoolNoLostWakeup == Spec => []NoLostWakeup
<1>1. PoolInv => NoLostWakeup
  BY DEF PoolInv
<1> QED BY <1>1, PoolInvariant, PTL

\* When ~ThreadPool frees the queues, all threads have left and every job that
\* was handed to run_async has run.
THEOREM PoolDrains == Spec => []DestructorDrains
<1>1. PoolInv => DestructorDrains
  BY DEF PoolInv, TypeOK, JoinedExited, ExitedEmpty, NoJobLost, InThread, InQueue,
         DestructorDrains
<1> QED BY <1>1, PoolInvariant, PTL

-------------------------------------------------------------------------------
(* ThreadPool implements JobPool.  A job is in one place at a time: not    *)
(* submitted, at one position of one queue, in the hands of one thread, or *)
(* run.                                                                    *)

Away == \A j \in Jobs, t \in Threads : InThread(t, j) => j \notin new \cup ran

NotRunYet == new \cap ran = {}

Runs(t, j) == tpc[t] = "run" /\ job[t] = j

RunOnce ==
    \A t, u \in Threads, j \in Jobs :
        Runs(t, j) => ~InQueue(u, j) /\ (Runs(u, j) => u = t)

QueuedOnce ==
    \A t, u \in Threads : \A k \in 1 .. Len(q_[t]), l \in 1 .. Len(q_[u]) :
        q_[t][k] = q_[u][l] /\ q_[t][k] # NULL => t = u /\ k = l

OnePlace == Away /\ NotRunYet /\ RunOnce /\ QueuedOnce

OnceInv == PoolInv /\ OnePlace

\* Every job is new initially.
LEMMA OnceInit == Init => OnceInv
BY PoolInit
   DEF Init, OnceInv, OnePlace, Away, NotRunYet, RunOnce, Runs, QueuedOnce, InThread, InQueue, Threads

\* A push: only a job that was new gets a place.
LEMMA PushOnce ==
    ASSUME OnceInv, NEW t \in Threads, NEW e \in new \cup {NULL}, Push(t, e), tpc[t] # "exited",
           new' = new \ {e}, UNCHANGED <<job, ran>>
    PROVE  OnePlace'
<1> USE DEF OnceInv, PoolInv, OnePlace
<1>1. e \in Entries
  BY DEF TypeOK, Entries
<1>2. /\ \A u \in Threads, x \in Entries : InQueue(u, x)' => InQueue(u, x) \/ (u = t /\ x = e)
      /\ \A u \in Threads : tpc'[u] = "run" <=> tpc[u] = "run"
  BY <1>1, PushKeeps DEF Push, TypeOK
<1>3. /\ q_[t] \in Seq(Entries) /\ Len(q_[t]) \in Nat
      /\ q_'[t] = Append(q_[t], e) /\ \A u \in Threads \ {t} : q_'[u] = q_[u]
      /\ Len(q_'[t]) = Len(q_[t]) + 1
      /\ q_'[t][Len(q_[t]) + 1] = e
      /\ \A k \in 1 .. Len(q_[t]) : q_'[t][k] = q_[t][k]
  BY <1>1, Pushed DEF Push, TypeOK
<1>4. \A u \in Threads, j \in Jobs : InThread(u, j)' => InThread(u, j) \/ (u = t /\ j = e)
  BY <1>2 DEF InThread, Entries
<1>5. e \notin ran /\ \A u \in Threads : e # NULL => ~InThread(u, e)
  BY PoolAssumption DEF NotRunYet, Away, TypeOK
<1>6. Away' /\ NotRunYet'
  BY <1>4, <1>5, PoolAssumption DEF Away, NotRunYet
<1>7. RunOnce'
  <2>1. \A r \in Threads, j \in Jobs : Runs(r, j)' => Runs(r, j)
    BY <1>2 DEF Runs
  <2>2. \A r \in Threads, j \in Jobs : Runs(r, j) => j # e
    BY <1>5, PoolAssumption DEF InThread, Runs
  <2> QED BY <1>2, <2>1, <2>2 DEF RunOnce, Entries
<1>8. QueuedOnce'
  <2> SUFFICES ASSUME NEW r \in Threads, NEW u \in Threads,
                      NEW k \in 1 .. Len(q_'[r]), NEW l \in 1 .. Len(q_'[u]),
                      q_'[r][k] = q_'[u][l], q_'[r][k] # NULL
               PROVE  r = u /\ k = l
    BY DEF QueuedOnce
  <2>1. \A x \in Threads : \A y \in 1 .. Len(q_'[x]) :
            \/ y \in 1 .. Len(q_[x]) /\ q_'[x][y] = q_[x][y]
            \/ x = t /\ y = Len(q_[t]) + 1 /\ q_'[x][y] = e
    <3> TAKE x \in Threads
    <3>1. CASE x = t
      BY <1>3, <3>1
    <3>2. CASE x # t
      BY <1>3, <3>2
    <3> QED BY <3>1, <3>2
  <2>2. \A x \in Threads : \A y \in 1 .. Len(q_[x]) : q_[x][y] = e => e = NULL
    BY <1>5 DEF InThread, InQueue
  <2>3. CASE k \in 1 .. Len(q_[r]) /\ q_'[r][k] = q_[r][k]
    <3>1. CASE l \in 1 .. Len(q_[u]) /\ q_'[u][l] = q_[u][l]
      <4>1. QueuedOnce
        OBVIOUS
      <4>2. q_[r][k] = q_[u][l] /\ q_[r][k] # NULL
        BY <2>3, <3>1
      <4> QED BY ONLY <4>1, <4>2, <2>3, <3>1, r \in Threads, u \in Threads DEF QueuedOnce
    <3>2. CASE u = t /\ l = Len(q_[t]) + 1 /\ q_'[u][l] = e
      BY <2>2, <2>3, <3>2
    <3> QED BY <2>1, <3>1, <3>2
  <2>4. CASE r = t /\ k = Len(q_[t]) + 1 /\ q_'[r][k] = e
    BY <2>1, <2>2, <2>4
  <2> QED BY <2>1, <2>3, <2>4
<1> QED BY <1>6, <1>7, <1>8

\* A pop: the head of one queue, and nothing else, changes its place.
LEMMA PopOnce ==
    ASSUME OnceInv, NEW t \in Threads, Pop(t)
    PROVE  OnePlace'
<1> USE DEF OnceInv, PoolInv, OnePlace
<1> DEFINE s == q_[t]
           Shift(u) == IF u = t THEN 1 ELSE 0
<1>1. /\ s \in Seq(Entries) /\ s # <<>>
      /\ q_'[t] = Tail(s) /\ job'[t] = Head(s) /\ tpc[t] # "run"
      /\ \A u \in Threads \ {t} : q_'[u] = q_[u] /\ tpc'[u] = tpc[u] /\ job'[u] = job[u]
      /\ tpc'[t] = IF Head(s) = NULL THEN "exited" ELSE "run"
      /\ UNCHANGED <<new, ran>>
  BY DEF Pop, TypeOK
<1>2. /\ Head(s) = s[1] /\ Len(s) \in Nat \ {0} /\ Len(Tail(s)) = Len(s) - 1
      /\ \A k \in 1 .. Len(Tail(s)) : Tail(s)[k] = s[k + 1]
  BY <1>1, Popped
<1>3. \A u \in Threads : \A k \in 1 .. Len(q_'[u]) :
          k \in Nat /\ k + Shift(u) \in 1 .. Len(q_[u]) /\ q_'[u][k] = q_[u][k + Shift(u)]
  <2> TAKE u \in Threads
  <2>1. CASE u = t
    <3>1. q_'[u] = Tail(s) /\ q_[u] = s /\ Shift(u) = 1
      BY <1>1, <2>1
    <3> HIDE DEF s, Shift
    <3> QED BY ONLY <1>2, <3>1
  <2>2. CASE u # t
    <3>1. q_'[u] = q_[u] /\ Shift(u) = 0 /\ Len(q_[u]) \in Nat
      BY <1>1, <2>2 DEF TypeOK
    <3> QED BY <3>1
  <2> QED BY <2>1, <2>2
<1>4. \A u \in Threads : \A x : InQueue(u, x)' => InQueue(u, x)
  BY <1>3 DEF InQueue
<1>5. InQueue(t, Head(s))
  BY <1>2 DEF InQueue
<1>6. \A u \in Threads : \A x : x # NULL /\ x = Head(s) => ~InQueue(u, x)'
  <2> SUFFICES ASSUME NEW u \in Threads, NEW k \in 1 .. Len(q_'[u]),
                      q_'[u][k] = Head(s), Head(s) # NULL
               PROVE  FALSE
    BY DEF InQueue
  <2>1. k + Shift(u) \in 1 .. Len(q_[u]) /\ q_[u][k + Shift(u)] = s[1] /\ 1 \in 1 .. Len(s)
    BY <1>2, <1>3
  <2>2. u = t /\ k + Shift(u) = 1
    BY <2>1, <1>2 DEF QueuedOnce
  <2> QED BY <2>2, <1>3
<1>7. Away'
  BY <1>1, <1>4, <1>5 DEF Away, InThread
<1>8. RunOnce'
  <2>1. \A r \in Threads \ {t}, j \in Jobs : Runs(r, j)' => Runs(r, j)
    BY <1>1 DEF Runs
  <2>2. \A j \in Jobs : Runs(t, j)' => j = Head(s) /\ j # NULL
    BY <1>1, PoolAssumption DEF Runs
  <2>3. \A r \in Threads : ~Runs(r, Head(s)) \/ Head(s) \notin Jobs
    BY <1>5 DEF RunOnce
  <2> QED BY <2>1, <2>2, <2>3, <1>4, <1>6 DEF RunOnce
<1>9. QueuedOnce'
  <2> SUFFICES ASSUME NEW r \in Threads, NEW u \in Threads,
                      NEW k \in 1 .. Len(q_'[r]), NEW l \in 1 .. Len(q_'[u]),
                      q_'[r][k] = q_'[u][l], q_'[r][k] # NULL
               PROVE  r = u /\ k = l
    BY DEF QueuedOnce
  <2>1. /\ k + Shift(r) \in 1 .. Len(q_[r]) /\ q_[r][k + Shift(r)] = q_'[r][k] /\ k \in Nat
        /\ l + Shift(u) \in 1 .. Len(q_[u]) /\ q_[u][l + Shift(u)] = q_'[u][l] /\ l \in Nat
    BY <1>3
  <2> HIDE DEF Shift
  <2>2. r = u /\ k + Shift(r) = l + Shift(u)
    BY <2>1 DEF QueuedOnce
  <2> QED BY <2>1, <2>2 DEF Shift
<1> QED BY <1>1, <1>7, <1>8, <1>9 DEF NotRunYet

\* OnceInv is inductive.
LEMMA OnceStep == OnceInv /\ [Next]_vars => OnceInv'
<1> SUFFICES ASSUME OnceInv, [Next]_vars PROVE OnceInv'
  OBVIOUS
<1>1. PoolInv'
  BY MainKeeps, ThreadKeeps, PoolStutters DEF Next, OnceInv
<1>2. ASSUME UNCHANGED <<q_, tpc, job, new, ran>> PROVE OnePlace'
  BY <1>2 DEF OnceInv, OnePlace, Away, NotRunYet, RunOnce, QueuedOnce, InThread, InQueue, Runs
<1>3. ASSUME NEW j \in Jobs, RunAsync(j) PROVE OnePlace'
  <2>1. PICK t \in Threads : mpc = "submit" /\ j \in new /\ Push(t, j) /\ new' = new \ {j}
                             /\ UNCHANGED <<job, ran>>
    BY <1>3 DEF RunAsync
  <2>2. tpc[t] # "exited"
    BY <2>1 DEF OnceInv, PoolInv, TokenFromDestructor, Tokened
  <2> QED BY <2>1, <2>2, PushOnce
<1>4. ASSUME PushToken PROVE OnePlace'
  <2>1. i \in Threads /\ tpc[i] # "exited"
    BY <1>4, PoolAssumption DEF OnceInv, PoolInv, TypeOK, TokenFromDestructor, Tokened, PushToken, Threads
  <2>2. new' = new \ {NULL} /\ Push(i, NULL) /\ UNCHANGED <<job, ran>>
    BY <1>4, PoolAssumption DEF PushToken, OnceInv, PoolInv, TypeOK
  <2> QED BY <2>1, <2>2, PushOnce
<1>5. ASSUME NEW t \in Threads, RunAndDelete(t) PROVE OnePlace'
  <2>1. PICK j \in Jobs : Runs(t, j) /\ InThread(t, j)
    BY <1>5 DEF OnceInv, PoolInv, RunningJob, RunAndDelete, Runs, InThread
  <2>2. /\ ran' = ran \cup {j} /\ UNCHANGED <<q_, new>>
        /\ \A u \in Threads, x \in Jobs : Runs(u, x)' <=> Runs(u, x) /\ u # t
    BY <1>5, <2>1 DEF OnceInv, PoolInv, TypeOK, RunAndDelete, Runs
  <2>3. \A u \in Threads, x \in Jobs :
            /\ InQueue(u, x)' <=> InQueue(u, x)
            /\ InThread(u, x)' => InThread(u, x) /\ x # j
    BY <2>1, <2>2 DEF OnceInv, OnePlace, RunOnce, InThread, Runs, InQueue
  <2>4. Away' /\ NotRunYet'
    BY <2>1, <2>2, <2>3 DEF OnceInv, OnePlace, Away, NotRunYet
  <2>5. RunOnce' /\ QueuedOnce'
    BY <2>2, <2>3 DEF OnceInv, OnePlace, RunOnce, QueuedOnce
  <2> QED BY <2>4, <2>5 DEF OnePlace
<1>6. ASSUME NEW t \in Threads, Wait(t) \/ SpuriousWakeup(t) PROVE OnePlace'
  <2>1. /\ UNCHANGED <<q_, job, new, ran>>
        /\ \A u \in Threads : tpc'[u] = "run" <=> tpc[u] = "run"
    BY <1>6 DEF Wait, SpuriousWakeup, OnceInv, PoolInv, TypeOK
  <2> QED BY <2>1 DEF OnceInv, OnePlace, Away, NotRunYet, RunOnce, QueuedOnce, InThread,
                      InQueue, Runs
<1>7. OnePlace'
  <2>1. CASE Main
    BY <2>1, <1>2, <1>3, <1>4
       DEF Main, Destructor, Destroy, TokensPushed, Join, Joined
  <2>2. CASE \E t \in Threads : Thread(t)
    BY <2>2, <1>5, <1>6, PopOnce DEF Thread
  <2>3. CASE UNCHANGED vars
    BY <2>3, <1>2 DEF vars
  <2> QED BY <2>1, <2>2, <2>3 DEF Next
<1> QED BY <1>1, <1>7 DEF OnceInv

\* Every Runnable is in one place at a time, whatever the numbers of threads and
\* of Runnables.
THEOREM PoolOnePlace == Spec => []OnceInv
BY OnceInit, OnceStep, PTL DEF Spec

\* What JobState says of a job that is in one place.
StateIsPlace ==
    \A j \in Jobs :
        /\ JobState(j) = "new" <=> j \in new
        /\ JobState(j) = "running" <=> \E t \in Threads : Runs(t, j)
        /\ JobState(j) = "queued" <=> \E t \in Threads : InQueue(t, j)
        /\ JobState(j) = "finished" <=> j \in ran
        /\ JobState(j) \in {"new", "running", "queued", "finished"}

\* The phase of a job says where it is.
LEMMA StatePlaces == OnceInv => StateIsPlace
<1> SUFFICES ASSUME OnceInv, NEW j \in Jobs
             PROVE  /\ JobState(j) = "new" <=> j \in new
                    /\ JobState(j) = "running" <=> \E t \in Threads : Runs(t, j)
                    /\ JobState(j) = "queued" <=> \E t \in Threads : InQueue(t, j)
                    /\ JobState(j) = "finished" <=> j \in ran
                    /\ JobState(j) \in {"new", "running", "queued", "finished"}
  BY DEF StateIsPlace
<1>1. /\ \A t \in Threads : InThread(t, j) <=> Runs(t, j) \/ InQueue(t, j)
      /\ j \in new \/ j \in ran \/ \E t \in Threads : InThread(t, j)
      /\ \A t \in Threads : InThread(t, j) => j \notin new /\ j \notin ran
      /\ ~(j \in new /\ j \in ran)
      /\ \A t, u \in Threads : Runs(t, j) => ~InQueue(u, j)
  BY DEF OnceInv, PoolInv, OnePlace, NoJobLost, Away, NotRunYet, RunOnce, InThread, Runs
<1>2. CASE j \in new
  BY <1>1, <1>2 DEF JobState, Runs
<1>3. CASE \E t \in Threads : Runs(t, j)
  <2>1. j \notin new /\ j \notin ran /\ ~\E t \in Threads : InQueue(t, j)
    BY <1>1, <1>3
  <2> QED BY <2>1, <1>3 DEF JobState, Runs
<1>4. CASE \E t \in Threads : InQueue(t, j)
  <2>1. j \notin new /\ j \notin ran /\ ~\E t \in Threads : Runs(t, j)
    BY <1>1, <1>4
  <2> QED BY <2>1, <1>4 DEF JobState, Runs
<1>5. CASE j \in ran
  <2>1. j \notin new /\ ~(\E t \in Threads : Runs(t, j)) /\ ~(\E t \in Threads : InQueue(t, j))
    BY <1>1, <1>5
  <2> QED BY <2>1, <1>5 DEF JobState, Runs
<1> QED BY <1>1, <1>2, <1>3, <1>4, <1>5

\* A step that does not touch job x leaves its state alone.
LEMMA SameState ==
    ASSUME StateIsPlace, StateIsPlace', NEW x \in Jobs,
           x \in new' <=> x \in new,
           x \in ran' <=> x \in ran,
           \A t \in Threads : Runs(t, x)' <=> Runs(t, x)
    PROVE  JobState(x)' = JobState(x)
<1>1. /\ JobState(x)' = "new" <=> JobState(x) = "new"
      /\ JobState(x)' = "finished" <=> JobState(x) = "finished"
      /\ JobState(x)' = "running" <=> JobState(x) = "running"
  BY DEF StateIsPlace
<1>2. /\ JobState(x) \in {"new", "running", "queued", "finished"}
      /\ JobState(x)' \in {"new", "running", "queued", "finished"}
  BY DEF StateIsPlace
<1> QED BY <1>1, <1>2

\* Every step of the pool is a step of JobPool or a stutter.
LEMMA StepRefines ==
    ASSUME OnceInv, OnceInv', StateIsPlace, StateIsPlace', [Next]_vars
    PROVE  [JP!Next]_<<[j \in Jobs |-> JobState(j)], mpc # "destroyed">>
<1> DEFINE Stutter == UNCHANGED <<[j \in Jobs |-> JobState(j)], mpc # "destroyed">>
<1>1. ASSUME UNCHANGED <<new, ran, mpc>>, \A t \in Threads, x \in Jobs : Runs(t, x)' <=> Runs(t, x)
      PROVE  Stutter
  <2>1. \A x \in Jobs : JobState(x)' = JobState(x)
    BY <1>1, SameState
  <2>2. [j \in Jobs |-> JobState(j)]' = [j \in Jobs |-> JobState(j)]
    BY <2>1
  <2>3. (mpc # "destroyed")' = (mpc # "destroyed")
    BY <1>1
  <2> QED BY <2>2, <2>3
<1>2. ASSUME NEW j \in Jobs, RunAsync(j) PROVE JP!Submit(j)
  <2>1. PICK t \in Threads : /\ mpc = "submit" /\ j \in new /\ Push(t, j) /\ new' = new \ {j}
                             /\ UNCHANGED <<job, ran, mpc>>
    BY <1>2 DEF RunAsync
  <2>2. \A u \in Threads, x \in Jobs : Runs(u, x)' <=> Runs(u, x)
    BY <2>1 DEF Push, Runs, OnceInv, PoolInv, TypeOK
  <2>3. \A x \in Jobs \ {j} : JobState(x)' = JobState(x)
    BY <2>1, <2>2, SameState
  <2>4. JobState(j) = "new" /\ JobState(j)' = "queued"
    <3>1. j \notin new' /\ j \notin ran' /\ \A u \in Threads : ~Runs(u, j)'
      BY <2>1, <2>2 DEF OnceInv, OnePlace, NotRunYet, Away, InThread, Runs
    <3> QED BY <3>1, <2>1 DEF StateIsPlace
  <2> QED BY <2>1, <2>3, <2>4 DEF JP!Submit, JP!Move
<1>3. ASSUME NEW t \in Threads, Pop(t) PROVE JP!Next \/ Stutter
  <2>1. /\ q_[t] \in Seq(Entries) /\ q_[t] # <<>> /\ tpc[t] \notin {"run", "exited"}
        /\ tpc'[t] = (IF Head(q_[t]) = NULL THEN "exited" ELSE "run")
        /\ job'[t] = Head(q_[t])
        /\ \A u \in Threads \ {t} : tpc'[u] = tpc[u] /\ job'[u] = job[u]
        /\ UNCHANGED <<new, ran, mpc>>
    BY <1>3 DEF Pop, OnceInv, PoolInv, TypeOK
  <2>2. /\ \A u \in Threads \ {t}, x \in Jobs : Runs(u, x)' <=> Runs(u, x)
        /\ \A x \in Jobs : ~Runs(t, x) /\ (Runs(t, x)' <=> x = Head(q_[t]))
    BY <2>1, PoolAssumption DEF Runs
  <2>3. CASE Head(q_[t]) = NULL
    BY <2>1, <2>2, <2>3, <1>1, PoolAssumption
  <2>4. CASE Head(q_[t]) # NULL
    <3>1. PICK j \in Jobs : j = Head(q_[t])
      BY <2>1, <2>4, Popped DEF Entries
    <3>2. \A x \in Jobs \ {j} : JobState(x)' = JobState(x)
      BY <2>1, <2>2, <3>1, SameState
    <3>3. InQueue(t, j)
      BY <2>1, <3>1, Popped DEF InQueue
    <3>4. JobState(j) = "queued" /\ JobState(j)' = "running"
      BY <2>2, <3>1, <3>3 DEF StateIsPlace
    <3>5. mpc # "destroyed"
      BY <2>1 DEF OnceInv, PoolInv, JoinedExited
    <3>6. JP!Start(j)
      BY <2>1, <3>2, <3>4, <3>5 DEF JP!Start, JP!Move
    <3> QED BY <3>6 DEF JP!Next
  <2> QED BY <2>3, <2>4
<1>4. ASSUME NEW t \in Threads, RunAndDelete(t) PROVE JP!Next
  <2>1. PICK j \in Jobs : Runs(t, j)
    BY <1>4 DEF OnceInv, PoolInv, RunningJob, RunAndDelete, Runs
  <2>2. /\ ran' = ran \cup {j} /\ UNCHANGED <<new, mpc>> /\ tpc[t] = "run"
        /\ \A u \in Threads, x \in Jobs : Runs(u, x)' <=> Runs(u, x) /\ u # t
        /\ \A x \in Jobs : Runs(t, x) => x = j
    BY <1>4, <2>1 DEF OnceInv, PoolInv, TypeOK, RunAndDelete, Runs
  <2>3. \A x \in Jobs \ {j} : JobState(x)' = JobState(x)
    BY <2>2, SameState
  <2>4. JobState(j) = "running" /\ JobState(j)' = "finished"
    BY <2>1, <2>2 DEF StateIsPlace
  <2>5. mpc # "destroyed"
    BY <2>2 DEF OnceInv, PoolInv, JoinedExited
  <2>6. JP!Finish(j)
    BY <2>2, <2>3, <2>4, <2>5 DEF JP!Finish, JP!Move
  <2> QED BY <2>6 DEF JP!Next
<1>5. ASSUME NEW t \in Threads, Wait(t) \/ SpuriousWakeup(t) PROVE Stutter
  <2>1. UNCHANGED <<new, ran, mpc>> /\ \A u \in Threads, x \in Jobs : Runs(u, x)' <=> Runs(u, x)
    BY <1>5 DEF Wait, SpuriousWakeup, Runs, OnceInv, PoolInv, TypeOK
  <2> QED BY <2>1, <1>1
<1>6. ASSUME PushToken PROVE Stutter
  <2>1. UNCHANGED <<new, ran, mpc>> /\ \A u \in Threads, x \in Jobs : Runs(u, x)' <=> Runs(u, x)
    BY <1>6 DEF PushToken, Push, Runs, OnceInv, PoolInv, TypeOK
  <2> QED BY <2>1, <1>1
<1>7. ASSUME UNCHANGED <<tpc, job, new, ran>> PROVE UNCHANGED [j \in Jobs |-> JobState(j)]
  <2>1. \A u \in Threads, x \in Jobs : Runs(u, x)' <=> Runs(u, x)
    BY <1>7 DEF Runs
  <2>2. \A x \in Jobs : JobState(x)' = JobState(x)
    BY <1>7, <2>1, SameState
  <2> QED BY <2>2
<1>8. ASSUME Destroy \/ TokensPushed \/ Join PROVE Stutter
  <2>1. UNCHANGED <<tpc, job, new, ran>> /\ mpc # "destroyed" /\ mpc' # "destroyed"
    BY <1>8 DEF Destroy, TokensPushed, Join
  <2> QED BY <2>1, <1>7
<1>9. ASSUME Joined PROVE JP!Destroyed
  <2>1. UNCHANGED <<tpc, job, new, ran>> /\ mpc' = "destroyed"
    BY <1>9 DEF Joined
  <2>2. \A t \in Threads, x \in Jobs : ~InThread(t, x)'
    BY <2>1 DEF OnceInv, PoolInv, JoinedExited, ExitedEmpty, InThread, InQueue, TypeOK
  <2>3. \A x \in Jobs : JobState(x) \in {"new", "finished"}
    BY <1>7, <2>1, <2>2 DEF StateIsPlace, InThread, Runs
  <2> QED BY <1>7, <2>1, <2>3 DEF JP!Destroyed
<1>10. CASE Main
  BY <1>10, <1>2, <1>6, <1>8, <1>9
     DEF Main, Destructor, JP!Next
<1>11. CASE \E t \in Threads : Thread(t)
  BY <1>11, <1>3, <1>4, <1>5 DEF Thread
<1>12. CASE UNCHANGED vars
  <2>1. UNCHANGED <<tpc, job, new, ran, mpc>>
    BY <1>12 DEF vars
  <2> QED BY <1>7, <2>1
<1> QED BY <1>10, <1>11, <1>12 DEF Next

\* The pool runs each job exactly once: ThreadPool, whatever the numbers of
\* threads and of Runnables, implements JobPool.
THEOREM PoolImplementsJobPool == Spec => RunsEachJobOnce
<1>1. Init => JP!Init
  BY StatePlaces, OnceInit DEF Init, JP!Init, StateIsPlace
<1>2. OnceInv /\ OnceInv' /\ [Next]_vars
          => [JP!Next]_<<[j \in Jobs |-> JobState(j)], mpc # "destroyed">>
  <2>1. OnceInv' => StateIsPlace'
    BY StatePlaces, PTL
  <2> QED BY <2>1, StatePlaces, StepRefines
<1> QED BY <1>1, <1>2, PoolOnePlace, PTL DEF Spec, RunsEachJobOnce, JP!Spec

===============================================================================
