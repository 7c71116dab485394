# A TLA+ model of vncproxy

vncproxy accepts VNC clients, asks each for a password, looks the password up
in an sqlite table (`forward_key -> dest_addr, dest_passwd`), connects to the
VNC server found there and then copies bytes in both directions until one side
hangs up or the record is deleted. This directory specifies the handshake, the
forwarding core and the libraries of that program, checks them with TLC and
proves part of them with TLAPS.

Line numbers below are those of the sources in the repository's root.

## 1. The system

### Components

| component | state | operations | module |
|---|---|---|---|
| `PollMgr::PollThread` (polling.cc) | `poll_set_`, `mode_`, `pending_remove_`, the epoll instance, `stop_flag_` | `add`, `remove`, `update_mode` (any thread), `poll_loop` (its own thread), destructor | `PollThread`, `EndPoint` |
| `RefCounted` (utils.h) | `refcnt_` | `ref_copy`, `release` (deletes at zero) | `PollThread` |
| `EndPoint`, `tie_fd` (vncproxy.cc) | `fd_`, `peer_`, `leader_`, `enabled_`, `buf_`; static `all_tie_leaders` | `tie`, `ready`, `handle_read/write/error`, `shutdown`, static `cleanup` | `EndPoint` |
| `VncOperator`, `vnc_auth_callback`, `connect_to` (vncproxy.cc) | the two descriptors, `challenge`, `response`, `auth_info`; `global_m` | `run`: handshake with the client, look-up, connection, handshake with the server, `tie_fd` | `VncOperator` (messages), `EndPoint` (its effect) |
| `cleanup_thread` and the route table | the set of valid keys | every second: query, `EndPoint::cleanup` | `EndPoint` |
| `main`, `do_stop` | `global_stop_flag` | accept loop, joins, `~PollThread` | `EndPoint` |
| `Queue`, `ThreadPool` (utils.h, utils.cc) | one list, mutex and condition variable per thread | `push`, `pop`, `run_async`, `run_thread`, destructor | `ThreadPool` |
| `Chunk`, `Marshal` (marshal.h, marshal.cc) | list of chunks, write counter, bookmarks | `write`, `read`, `peek`, `read_from_fd`, `write_to_fd`, `read_from_marshal`, `set_bookmark`, `write_bookmark` | `Marshal` |
| d3des.c | the key register `KnL` | `rfbDesKey`, `rfbUseKey`, `rfbCPKey`, `rfbDes` | `Des` (bits), `VncOperator` (symbolic) |
| the operators `<<` and `>>` of marshal.h | the bytes of a Marshal | `write_i32`, `write_string`, `<<`, `>>`, `get_write_counter_and_reset` | `Marshalling` |
| `bind_on`, `Log`, `Counter` | - | pure I/O, text, or no caller | not modelled |
| the kernel (not code of the repository) | descriptor table, sockets, epoll | `accept`, `connect`, `close`, `read`, `write`, `epoll_*` | `Kernel` (external) |

### How they interact

`main` accepts a client and gives a `VncOperator` to the pool. A pool thread
runs the handshake with blocking sockets: it challenges the client, looks for a
record whose key gives the client's response (under `global_m`, since sqlite's
callback and the answers to servers share the key register of d3des.c),
connects to the record's server and goes through the server's handshake up to
the SecurityResult, which it leaves to the server. Then `tie_fd` makes two EndPoints,
enters the leader in `all_tie_leaders`, registers both with the poll thread and
enables them. From then on the poll thread calls the handlers: `handle_read`
appends to the *peer's* buffer and asks for WRITE events on the peer,
`handle_write` empties the buffer, `handle_error` shuts the session down.
`cleanup_thread` shuts a session down when its key is no longer in the table.
A shutdown closes the descriptors, takes both EndPoints out of the registry and
drops the session's own references; the registry's references are dropped by
the poll loop at the end of its round. On a signal, `main` joins the cleanup
thread, then the pool, then destroys the poll manager.

### What is hard here

- A session is shared by three threads (operator, poll thread, cleanup thread)
  and its lifetime is a reference count of two: one for the session, one for
  the registry. The operator holds none while it is inside `tie_fd`.
- Descriptor numbers are reused as soon as they are closed, `mode_` is keyed by
  them, and the poll loop's `EPOLL_CTL_DEL` comes a round late.
- epoll is edge-triggered: an event that is ignored is not reported again.
- `shutdown()` may be started by two threads, or twice by one.
- `write()` may take part of a buffer, at any time.
- The process stops while all of this goes on.
- In the handshake a `recv` that returns 0 or a part counts as success: buffers
  keep what they held before.
- All handshakes share one DES key register and one mutex, and the database may
  change between the look-up and the connection.
- The proxy takes part in half of two handshakes and has to leave both parties
  at the message that the other one is about to send.

PROJECT.json lists each of these at its line, with the properties that cover it.

### What makes each component correct

- Registry: `mode_` and `poll_set_` agree (`ModeMatchesPollSet`), and so does
  epoll (`RegistrationIntact`), across reuse of descriptor numbers.
- Sessions: bytes are neither lost nor moved (`InOrder`) and do get through
  (`ForwardedUnlessMissed`); a session that ends is closed and given back
  (`HangupReclaims`, `DeletedRouteCloses`); nothing that `all_tie_leaders`
  holds has been deleted (`LeadersLive`).
- Process: it ends after a signal (`StopQuits`).
- Handshake: a client gets only to the server whose key it has proved to know
  (`RoutedByAnswer`), and does get there (`RefusedOnlyUnknown`); a server gets
  the answer to its own challenge (`ServerAnswered`); both parties are in step
  when they are tied (`InSync`); descriptors are closed on every way out
  (`OwnDescriptors`); it comes to an end (`HandshakesFinish`).
- DES: it is the standard's cipher (`IsStandardDes`), invertible (`Decrypts`)
  and blind to the top bit of a key byte (`TopBitsIgnored`).
- Pool: a job runs exactly once, the destructor waits for all, nobody sleeps on
  a non-empty queue.
- Marshal: it is a queue of bytes, whatever the chunk boundaries.

## 2. The modules

    Kernel          descriptors, sockets, epoll (external)
      PollThread    the registry and the reference counts: operators
        EndPoint    the threads, as steps over those operators
          MCEndPoint        constants for TLC
          EndPointProofs        mode_, epoll, all_tie_leaders, the order of bytes
            HangupProofs        what hang-ups of servers can do
          VncOperator       the handshake -- implements EndPoint's
            MCVncOperator
            VncOperatorProofs   the key register
              HandshakeProofs   descriptors, messages; implements EndPoint
    Des             d3des.c on bits, checked against StandardDes
      MCDes, DesProofs
    ThreadPool      Queue, ThreadPool    -- implements JobPool
      MCThreadPool, ThreadPoolProofs
    Marshal         Chunk, Marshal       -- implements ByteQueue
      MCMarshal
      MarshalProofs         the asserts, the chunks, the bookmark
        ByteQueueProofs     implements ByteQueue
    Marshalling     << and >>, over a queue of bytes
      MCMarshalling

**Kernel.** A session `s` has two ends, `<<s, "client">>` and
`<<s, "remote">>`; an end names a socket and also the EndPoint made for it.
`file[fd]` says which socket a descriptor number refers to. `Arrive`, `Consume`
and `Hangup` are what the parties outside do. epoll is a registration per
socket (`eptr`, `emask`) and a ready list (`rdy`) that new edges, and `ADD` or
`MOD` of a ready socket, extend, and that `epoll_wait` empties: EPOLLET.
Registrations go with the socket when its descriptor is closed.

**PollThread.** The bodies of `add`, `remove`, `update_mode`, `ref_copy` and
`release` as operators. Each critical section of `m_` is one step of the thread
that calls it. A `verify` or `assert` is a predicate (`AddVerify`,
`RemoveAssert`, `UpdateModeVerify`): when it is false the step of the thread is
a failure action, which sets `crash`. The build does not define NDEBUG, so both
macros are active.

**EndPoint.** One program counter per thread:

| thread | counter | steps |
|---|---|---|
| operator of session s | `opc[s]` | `Accept`, `Authenticate`, `ConnectTo`, `HandshakeFails`, `Tie`, `AddRef`, `AddRegister`, `AddEpoll`, `Ready` |
| poll thread | `ppc` | `PollWait`, `PollNext`, `HandleRead`, `HandleReadMode`, `HandleWrite`, `HandleWriteMode`, `HandleError`, `SwapPending`, `DrainOne`, `PollExit` |
| cleanup thread | `cpc` | `CleanupQuery`, `CleanupScan`, `CleanupShutdown`, `CleanupSleep`, `CleanupExit` |
| poll or cleanup inside `shutdown()` | `sdpc[t]` | `ShutClose`, `ShutRemove`, `ShutErase`, `ShutRelease` |
| main | `mpc` | `MainJoins`, `DtorCopy`, `DtorRemove`, `DtorStop`, `MainDone` |

`Failure` holds the aborts and `UseAfterFree`: a thread is about to use a
deleted EndPoint. Both end the behaviour, since nothing can be said about the
process after them. `missed` is a history variable (an event was ignored because
`ready()` had not been called); no step of the program reads it.

**VncOperator.** `step[s]` names the call that the operator of session `s` makes
next; `challenge`, `response`, `key`, `rows`, `row` and `addrs` are its local
variables. The channel to a party is what each side
has sent and how much the other has read. The parties are actions of their own:
`Greet` (a server speaks first), `Reply`, `Hangup`. `reg` is the key register,
`global_m` the mutex; a look-up is `LockQuery`, then `RowKey` and `RowCompare`
for each record, and `QueryReturns` or `QueryFails`. The DES of `Des` is
symbolic here: a ciphertext is the pair of key and challenge.
`EP == INSTANCE EndPoint WITH ...` is the refinement mapping: `Phase(s)` is the
step of EndPoint's handshake that the operator is in, so `Authenticate` is the
moment a record matches, `ConnectTo` the moment `socket()` returns (a socket
that does not connect is then closed again by `RemoteFails`), and an operator
that has tied is at `"ref1"`, with its two EndPoints made and not registered.
The rest of EndPoint's variables keep their initial values: nothing but the
handshake runs.

| EndPoint | VncOperator |
|---|---|
| `"auth"` | everything before a record matches |
| `"connect"` | the look-up after the match, `resolve`, `socket` |
| `"tie"` | `connect` and the handshake with the server |
| `"fail"` | `closec` after the server's descriptor was closed |
| `"ref1"` | tied |

**Des.** A byte or a word is the set of the positions of its one bits: `^` is
the symmetric difference, shifts move positions, and a word has `LongBits` = 64
bits, as `unsigned long` has where the program is built. The tables are the
code's; the entries of an SP table have one bits at four positions only, so
`Table` writes them as four positions and sixty-four digits. The state is the
register, an array kept by a caller and the last blocks; `holds` and `under`
are history: which key and mode the register holds. **StandardDes** is the
published cipher on sequences of bits, written from the standard, and tested
with the validation set of d3des.c:410-413 by an assumption of `MCDes`.

**ThreadPool.** `Push`, `Wait`, `Pop` are the critical sections of `Queue::m_`;
spurious wake-ups are steps. **JobPool** is what the rest of the program relies
on: a job goes new, queued, running, finished, and the destructor returns when
none is left. `JobState` is the refinement mapping.

**Marshal.** A chunk is its size, the bytes written so far and the read index.
A call with a loop is a start, a step per iteration and a return, so that every
short read, short write and chunk boundary is its own step. **ByteQueue** is the
queue it implements; `Queue` maps a call that is half done to the queue before
it, so a call takes effect when it returns.

**Marshalling.** `Write(T, v)` is the bytes that `<<` appends for a value of
type `T`, `Read(T, b)` what `>>` makes of the bytes `b`: a value and the rest,
or a `verify` that failed. The types nest as the templates do. A Marshal is a
sequence of bytes here, which `IsByteQueue` allows. Values are put into one
Marshal, their bytes are moved to another in pieces (`read_from_marshal`), and
the values are got from that one at any time, so that `>>` also meets a value
that is there only in part.

### Abstractions

- The contents of a buffer inside `EndPoint` is a sequence; that `Marshal` is
  such a sequence is what `IsByteQueue` shows.
- The read loop of `handle_read` is one step (it runs until EAGAIN), so is the
  write loop of `handle_write`; each is separate from the `update_mode` after
  it, because the cleanup thread can come between.
- `remove()`'s two critical sections are one step: only the poll loop's swap
  looks at `pending_remove_`, and nothing it does in between is observable. The
  `EPOLL_CTL_DEL` of the drain and the `release()` after it are one step, as are
  `epoll_wait` and the test of `stop_flag_`, and the verify and the insertion of
  `add()` (one critical section).
- The lock of an EndPoint protects its buffer, which only the poll thread
  touches; it does not appear in the model.
- In `EndPoint` the handshake is reduced to its effect on descriptors and to
  the key the client knows (`KeyOf`); `VncOperator` implements that. A socket in its handshake is in blocking mode; a poll
  thread that reads it by mistake (after a reuse of descriptor numbers) would
  block, where the model reads what is there.
- The database changes at most `MaxEdits` times; the one-second sleep is a step
  without duration.
- `delete` of an EndPoint happens in the `release()` that drops the last
  reference.
- VncOperator: a send or a receive is of a whole message. A `recv` is short only
  when the party has hung up, which is what MSG_WAITALL promises; the buffer then
  holds old bytes, so a version may match or not, a response to a fresh challenge
  is wrong, the types may be any, and the challenge may still be the client's. A
  send or a receive may fail once the party has hung up.
- VncOperator: parties follow RFB 3.8, except those of `HangupEnds`, which may
  send a wrong version or a wrong password and hang up anywhere. A server offers
  at most as many types as the buffer holds. Keys and passwords have at most
  eight characters, challenges never repeat, and two keys never encrypt a
  challenge alike.
- VncOperator: the database changes between queries (sqlite locks out writers
  during one), and cleanup_thread's own use of `global_m` is a stutter: its query
  touches nothing that a handshake reads.
- Des: one call at a time, which is what `global_m` gives.
- Marshalling: an i64 or a double is eight bytes, copied as they are; keys of a
  map are numbers; a value is read as the type it was written as, a vector or a
  list as either. Lengths are therefore lengths that were written, never bytes
  of something else.
- Marshal: one call at a time (it is documented as not thread safe); `write` is
  called with n > 0 and a bookmark is written before its Marshal is read, as its
  interface intends.

## 3. The runs

`tlc -config X.cfg M` in this directory; M is `MCEndPoint`,
`MCVncOperator`, `MCDes`, `MCThreadPool`, `MCMarshal` or `MCMarshalling`.

| run | cfg | bounds | shows |
|---|---|---|---|
| registry | EndPoint_registry | 2 sessions, 3 descriptor numbers, both parties of the first session and the server of the second may hang up | `ModeMatchesPollSet`, `RegistrationIntact`, `ServerHangupSafe` |
| forward | EndPoint_forward | 1 session, 2 bytes from the server and 1 from the client, sockets of 1 byte, one event per `epoll_wait`, either end may hang up | `TypeOK`, `InOrder`, `ForwardedUnlessMissed` |
| ends | EndPoint_ends | 1 session, either end may hang up, 1 route change, a signal | `LeadersLive`, `DeletedRouteCloses`, `HangupReclaims`, `StopQuits` |
| handshake | VncOperator_handshake | 2 sessions, 3 descriptor numbers, 2 records (one with a password), 1 address, 1 change of the database; the parties of the first session err and hang up | `TypeOK`, `RoutedByAnswer`, `RefusedOnlyUnknown`, `ServerAnswered`, `InSync`, `OwnDescriptors`, `ImplementsEndPoint`, `HandshakesFinish` |
| des | Des_standard | 5 calls, the key and block of the validation set and a short password, any output as the next input | `SixBitGroups`, `IsStandardDes`, `TopBitsIgnored`, `Decrypts` |
| jobs | ThreadPool_jobs | 2 threads, 3 jobs | `NoLostWakeup`, `DestructorDrains`, `RunsEachJobOnce`, `SubmittedJobsRun`, `DestructorReturns` |
| marshal | Marshal_two | 2 Marshals, chunks of 2 bytes, 3 bytes supplied, calls of up to 3 | `AssertsHold`, `OnlyLastHasRoom`, `BookmarkPoints`, `IsByteQueue` |
| marshalling | Marshalling_values | any two of 15 values, with every type, moved in pieces | `ReadsWhatWasWritten`, `AbortsOnlyWhenShort` |
| v_ready, v_add, v_double, v_edge | EndPoint_v_* | 1 or 2 sessions | section 4 |

**Why the bounds are enough to be interesting.** One session has all the threads
that ever meet on it; two sessions on three descriptor numbers force the second
to take over numbers of the first, in every order of close, remove, accept and
drain. Two bytes through a socket that holds one make every write of the second
partial. One route change is the deletion; two would only repeat a round of
the cleanup thread. Bytes on the one hand and route changes and signals on the
other are in runs of their own (`forward`, `ends`), since together they are more
than a liveness check can cover; `ends` still runs the read handlers, which a
hang-up wakes. Three jobs on two threads put two jobs in one queue and a
token behind them. Two handshakes meet on the register, the mutex and the last free descriptor;
the first session can go wrong everywhere, the second never errs, so that what
happens to it is the proxy's doing. One change of the database puts a deletion
before, between or after the look-ups. A DES call has no memory but the
register, and five calls set, keep, replace and restore it around two
encryptions; a table entry or a bit that is wrong changes the sixteen rounds of
nearly every block. Chunks of two bytes put every call on, before and across a
chunk boundary, and three bytes fill one chunk and begin another, so that
`read_from_marshal` hands over a chunk whole and copies from the next. Two
values in a row are enough for the first to displace the second; the fifteen
are the extremes of an i32, empty and nested containers and a string whose bytes
look like a length.

**Fairness.** `FairSpec` says that the poll thread, the cleanup thread, main,
and an operator that is inside `tie_fd` are scheduled (they are threads that
never block there), that a party outside reads what is sent to it, and that the
database is not locked at every check for ever (strong fairness of
`CleanupQuery`, whose alternative is the sqlite error that skips a round).
Nothing is assumed about the parties hanging up, sending or finishing a
handshake. In `VncOperator`, operators are scheduled, `global_m` is granted to
one that waits (each takes it at most twice, and the cleanup thread sleeps
between its queries), and parties that are there read and answer: with that,
`HandshakesFinish` holds, and discharges the premise of `StopQuits` for
parties that talk. `StopQuits` needs the last as a premise (`HandshakesEnd`): `main`
joins the pool's threads, and a client that says nothing keeps one of them in
`recv` for as long as it likes. In `ThreadPool`, threads are scheduled and
`run()` returns; nobody has to submit a job or call the destructor.

**Premises inside properties.** `ServerHangupSafe` speaks of histories in which
only servers hang up, no route changes and no signal comes: a shutdown by the
poll thread alone, of a session of which one end is reported, is the protocol
that works. `ForwardedUnlessMissed` excuses a session with an event that came
before `ready()`, and `HangupReclaims` one whose hang-up did. `InOrder` holds
for one session, and for any number as long as nobody hangs up (section 5); with
two, a session that the poll thread has shut down and whose client's event comes
later in the same round reads whatever socket its number has become
(section 4, v_double).

## 4. Where the code does not do what it says

Each violation run checks one property that a comment or an assertion of the
code states, and TLC shows a shortest behaviour that breaks it.

- **v_ready** (`NoUseAfterFree`, utils.h:79-84). `ep1->ready()`; the client
  hangs up; the poll thread shuts the session down, drains `pending_remove_` and
  deletes both EndPoints; `ep2->ready()` writes to a deleted one
  (vncproxy.cc:165-166).
- **v_add** (`AddVerifyHolds`, polling.cc:215). `shutdown()` closes before it
  removes (vncproxy.cc:95-96): a new connection gets the number while `mode_`
  still has it, and `add()` of the new session aborts.
- **v_double** (`RemoveAssertHolds`, polling.cc:268). Both ends hang up and are
  reported in one round; `handle_error` runs for each and the session is shut
  down twice (vncproxy.cc:115-126). The second `close` hits a number that
  belongs to a new session, and `remove()` finds it in `mode_`.
- **v_edge** (`Forwarded`, vncproxy.cc:154). The event that reports a byte is
  handled between `add()` and `ready()`, ignored (vncproxy.cc:63), and never
  repeated.

Further behaviours of the same family, without a run of their own:

- `tie()` makes the leader visible to the cleanup thread before `poll->add()`
  has taken the registry's reference (vncproxy.cc:160-163). If the route is
  deleted just then, the shutdown drops the only reference (`crash = "freed"`
  in `ends`).
- The cleanup thread closes a descriptor between `read` and `update_mode` of the
  poll thread, and `verify(epoll_ctl(EPOLL_CTL_MOD) == 0)` (polling.cc:349)
  aborts (`crash = "mod"` in `ends`).
- `~PollThread` moves everything to `pending_remove_` before it sets
  `stop_flag_`, and the loop leaves without draining it, so "release anything
  registered in pollmgr" (polling.cc:197) finds nothing to release.
- A client or server that hangs up in the middle of a message does not end the
  handshake: the proxy goes on with old bytes (vncproxy.cc:342-387, 442-489)
  until a send fails or a comparison does, or ties a dead socket, which the poll
  thread then reports. `RoutedByAnswer` and `OwnDescriptors` hold all the same;
  `ServerAnswered` excuses a server that hung up.
- The validation set at the end of d3des.c is that of the unchanged library: its
  key has to be mirrored byte by byte before this file reproduces the cipher,
  because `bytebit` is reversed (d3des.c:4-5).

## 5. What is proved

Proofs are checked by `tlapm`; the theorems hold for every value of the
constants that satisfies the assumption of its module (`KernelAssumption`,
`EndPointAssumption`, `VncOperatorAssumption`, `PoolAssumption`,
`MarshalAssumption`, `DesAssumption`): any number of sessions, descriptors,
threads, jobs, records and bytes, where the runs have two or three. None of them
assumes fairness.

| property | theorem | module |
|---|---|---|
| `TypeOK` | `TypeCorrect`, `TypeCorrect`, `PoolTypeCorrect` | EndPointProofs, VncOperatorProofs, ThreadPoolProofs |
| `ModeMatchesPollSet` | `ModeMatches` | EndPointProofs |
| `RegistrationIntact` | `RegistrationKept` | EndPointProofs |
| `LeadersLive` | `LeadersExist` | EndPointProofs |
| `InOrder` | `BytesInOrder`, `OneSessionInOrder`, `ForwardsInOrder` | EndPointProofs, HangupProofs |
| `ServerHangupSafe` | `ServerHangups` | HangupProofs |
| `RoutedByAnswer`, `ServerAnswered` | `RoutedSafe`, `AnsweredSafe` | VncOperatorProofs |
| `OwnDescriptors`, `InSync`, `RefusedOnlyUnknown` | `DescriptorsOwned`, `TiedInSync`, `RefusedSafe` | HandshakeProofs |
| `ImplementsEndPoint` | `HandshakeImplementsEndPoint` | HandshakeProofs |
| `NoLostWakeup`, `DestructorDrains` | `PoolNoLostWakeup`, `PoolDrains` | ThreadPoolProofs |
| `RunsEachJobOnce` | `PoolImplementsJobPool` | ThreadPoolProofs |
| `AssertsHold`, `OnlyLastHasRoom`, `BookmarkPoints` | `MarshalAsserts`, `MarshalPacked`, `MarshalBookmarks` | MarshalProofs |
| `IsByteQueue` | `MarshalImplementsByteQueue` | ByteQueueProofs |
| `SixBitGroups`, `TopBitsIgnored` | `WordsInGroups`, `SevenBitKeys` | DesProofs |
| `Decrypts`, `IsStandardDes` | `DecryptsBack`, `StandardCipher` | DesProofs |

**EndPointProofs.** Nothing is assumed about who hangs up or shuts down.

- `TypeCorrect`. The types of the variables do not depend on each other alone:
  `file[fd_[e]]` is defined only for an end that has a descriptor, and the
  handlers use `cur.ptr`. `TypeInv` therefore ties control to data: a thread in
  a handler has an event (`ControlInv`), a thread in `shutdown()` has a session,
  and an end whose operator is past `accept` or `connect_to`, or that is
  registered or enabled, has a descriptor (`FdInv`).
- `ModeMatches`. The hard case is that `mode_` is keyed by a number that the
  kernel hands out again. The strengthening `RegisteredLate` says that an end is
  registered only once its operator has passed the insertion, so no step that
  gives an end its descriptor touches a registered one; then `AddVerify` at
  insertion and the fact that `remove` erases both entries in one critical
  section carry the invariant, however late the kernel and epoll learn of it. It
  follows that the assertion at polling.cc:264 and `verify(it != mode_.end())` at
  polling.cc:290 cannot fail.
- `RegistrationKept`, from `IntactInv`. The danger is the `EPOLL_CTL_DEL` of the
  drain, which names a number that may belong to a younger EndPoint.
  `FilesOwned` says that an open descriptor is the one its socket's EndPoint
  knows, so closing a number makes the premise of `RegistrationIntact` false for
  the one who loses it. `StageInv` says that what is listed in `pending_remove_`
  is in no other stage, `ReadyLate` and `HandlerReady` that `update_mode()` is
  called only for ends that are through `add()`, `TiedInv` that only a tied
  session is ever shut down, and `Plain` that until `epoll_ctl(ADD)` `mode_`
  says what it will be called with.
- `LeadersExist`, from `CountInv`. `RegistryRefs(e)` is one while `add()` has
  taken the registry's reference or the end is in one of the registry's sets.
  `LeaderInv`: a leader in `all_tie_leaders` has that one and its own, which
  `release()` drops only after the erase; so two threads in `shutdown()` of one
  session may drop the peer twice, but never a leader that the scan can meet.
  `StopInv` is what `~PollThread` contributes: nothing is added after its copy
  of `poll_set_`.
- `NothingLeft`: `Spec => [](stop_flag_ => poll_set_ = {})`, the reason why the
  `release()` calls behind the poll loop release nothing (section 4).
- `BytesInOrder`: `Spec /\ []NoTakeover => []InOrder`. `NoTakeover` says that a
  ready EndPoint's descriptor is its own socket's or closed. It does not hold of
  every behaviour (v_double), so two settings in which it is an invariant are
  proved as well. `OneSessionInOrder`: if there is one session, the setting of
  the run `forward`, `InOrder` holds whatever hangs up, is deleted or stopped,
  also when two threads close its descriptors twice; the strengthening is that
  the client's socket is open throughout the handshake (`ClientOpen`), so that
  `connect` gets another number (`Apart`).

**HangupProofs.**

- `ServerHangups`, from `HangupInv`. The property's premise, `ServersOnly`, can
  only be lost (`PremiseBefore`), so the invariant is stated under it. With it,
  only the poll thread shuts sessions down (`Quiet`), after the operator is gone
  (`FollowerLast`), once for each session and with both ends still registered
  (`Whole`, `ShutState`), because one event per EndPoint and round, for an
  EndPoint that is registered or not yet drained, is all there is (`EntryOK`).
  Then every reference has an owner (`Counted`), so nothing that a thread is
  about to use has been deleted, and whoever holds a descriptor holds his own
  (`OwnFile`, `OwnEntry`), so `epoll_ctl` finds it. What is left is the verify
  of `add()`, the subject of v_add.
- `ForwardsInOrder`: while nobody hangs up, no route changes and no signal
  comes, `InOrder` holds for any number of sessions (`NobodyHangsUp` implies
  `NoTakeover`, since nobody is shut down).

**VncOperatorProofs.** The three theorems follow from `Invariant`, `Spec => []IInv`.

`RoutedSafe` and `AnsweredSafe` speak of messages; why they hold is a matter of
the key register, of which they say nothing. `IInv` adds, for each session
(`SessionInv`): between the steps that set the register and use it, it holds
`global_m` and the register has the key that it has put there (`LockInv`); past
the look-up a record has matched, and `connect_to` has an address to try
(`KeyInv`); until the look-up ends, the challenge in its array is its own, and
the response is what the client has sent or no ciphertext at all (`ClientInv`);
unless the server has hung up, what is encrypted for it is its own challenge, and
no response is sent before `"answer"` (`ServerInv`). No challenge comes from a
party but the one it belongs to (`ChallengeInv`). The lemma `OthersKeep` is
mutual exclusion: a session whose own variables stay as they are keeps its
invariant as long as the one that moves changes the register only with the mutex
in its hands. Each action then has to show only what it does to its own session
(`SendKeeps`, `ClientKeeps`, `AnswerKeeps`, ...).

**HandshakeProofs.**

- `DescriptorsOwned`. Which sockets an operator holds is a function of where it
  is in `run()` (`Held`); `FdInv` says that `fd_` on `Held` and the open part of
  the descriptor table are inverse to each other, so each of the early returns
  has to close exactly what leaves `Held`.
- `TiedInSync`. `TalkInv` says for every position in `run()` which messages have
  gone each way on both connections, unless the party has hung up; at `"tied"`
  it says what `InSync` asks: nothing unread, and which message was the last.
- `RefusedSafe`. `AskInv` says which records the look-up has visited
  (`Visited`) and that none of them matched (`NoMatch`); a client that has
  answered with a key of the database is then one that a row still to come will
  match.
- `HandshakeImplementsEndPoint`: `Spec => EP!HandshakeSpec`, the refinement of
  section 2. Opening and closing descriptors, the match and `tie_fd` are steps
  of EndPoint (`EPGoTo` and a lemma each), a party's hang-up is EndPoint's, a change
  of the database its `EditRoute`, and every message in between leaves `Phase`
  as it is (`EPStutter`). `FdInv` is needed to show that what is closed is what
  EndPoint's step closes.

**ThreadPoolProofs.**

- `PoolNoLostWakeup`, `PoolDrains` and `PoolTypeCorrect`, from `PoolInv`.
  `DestructorDrains` is not inductive: why is a queue empty when its thread has
  left? `PoolInv` adds that a queue contains at most one termination token, that
  it is the last entry, that a thread has left only with an empty queue and after
  its token was pushed, that the destructor's loop variable tells which queues
  have theirs, and that every job is new, in a queue, held by a thread, or has
  run.
- `PoolImplementsJobPool`: `Spec => JP!Spec`. That a job is *somewhere* is not
  enough for `JobState` to be a function of its place: `OnceInv` adds that it is
  in one place only, once in one queue or in the hands of one thread. A push is
  then `JobPool`'s submission, a pop its start, the deletion its finish, and the
  return of the destructor `Destroyed`; tokens and wake-ups are stutters.

**MarshalProofs.**

- `MarshalAsserts` and `MarshalPacked`, from `MarshalInv`: every chunk satisfies
  the asserts on its indexes and is not read out, and all but the last are full.
  The loops of the calls are steps, so the invariant also holds between the
  iterations of a call.
- `MarshalBookmarks`, from `BookInv`. A reserved byte is a `Hole`, and
  `BookmarkPoints` says that the holes are exactly where the bookmark points.
  `Marks` adds that no running call reads the Marshal of the bookmark, and that
  `set_bookmark` reserves in its own; a call that adds bytes makes the lists of
  chunks grow at their end only (`Grown`), so nothing the bookmark points to moves.

**ByteQueueProofs.** `Spec => BQ!Spec`: the chunks are a detail of
representation.

- The contents of a Marshal is `FlattenSeq` of what is unread in each chunk, and
  what a recursive definition gives for a list of any length needs induction over
  data. The library's induction theorems take an operator and cannot be used;
  the section *Induction* proves a version about a *set* of numbers instead
  (`Induction`, from the existence of a least number) and with it that the
  recursive array in `FlattenSeq` exists. From there `FlattenSeq` distributes over
  `Append`, over the head and over concatenation of lists (`FlattenCons`,
  `ListBytesJoin`, ...), and the rest of the proof never unfolds it again.
- `MarshalQueueInvariant`, from `QueueInv == BookInv /\ CallEffect /\ MarkPlaces`.
  A call of Marshal is one step of `ByteQueue`, taken when it returns, but its
  loops change the list chunk by chunk. `CallEffect` says where the bytes are in
  between: what a read has collected, followed by what the list still holds, is
  the contents before the call; what a peek has copied is a prefix of it; what a
  transfer has left in the source and put in the destination are the two parts.
  So the last iteration leaves the result the queue operation gives.
- `MarkPlaces` is the hard half. `write_bookmark` writes through pointers into
  chunks, `ByteQueue` fills an interval of a queue. Every byte of a list has a
  *place*, a chunk and an index in it; `PlacesOK` says that `Places` lists one for
  each byte of the contents, in order, and none twice. `MarkPlaces` says that the
  bookmark's pointers are consecutive entries of `Places`, so what is written
  through them fills an interval of the queue. What is added at the end of a list
  moves no place, and by `BookInv` no other call runs on that Marshal meanwhile.

**DesProofs.** For every key, every block and both widths of a long.

- `WordsInGroups` and `SevenBitKeys`, from `RegisterInv`: the register and the
  array kept by a caller are schedules of the keys that the history variables
  name. The rest is about `Cooked`: the masks and shifts of `cookey` put six bits
  in a byte (`GroupsOfSix`), and `pc1` never picks bit 7 (`Pc1Picks`, for which
  the solver goes through the table).
- `DecryptsBack`, from `BlockInv`, which adds that `to` is what `from` was
  enciphered to with the schedule that `under` names. Half a pass of the rounds
  is undone by half a pass with the same two words of the key, whatever `fval` is
  (`HalfRoundBack`); the schedule of one mode is that of the other backwards
  (`SchedulesReversed`); the permutations before and behind the rounds undo each
  other up to an exchange of the words (`InitialFinal`, `FinalInitial`). Where a
  word has 64 bits, what the rotations of `FinalPermutation` shift above the 32nd
  never comes back (`FinalIs`, with `SwapLow`: no swap looks at it).
- `StandardCipher`, also from `BlockInv`: each part of `desfunc` is the
  standard's, bit by bit. `At(n)` says where the code has bit n of a half, rotated
  by one as it keeps it, and `HoldsBoth` that two words have the halves of a block.
  - The SP tables (`BoxPlaces`): every entry has the four bits of the standard's
    box where P takes them. The digits of a table are a box's numbers with their
    bits reordered, in the order of the index and not of row and column
    (`Box1` ... `Box8`, each 64 cases for the solver).
  - `fval` (`FvalIsCipher`): rotating half the word by four shows the boxes the
    bits that the standard's expansion takes twice (`ExpansionAt`), and no two
    boxes put a bit in one place (`PlacesApart`).
  - The keys (`ScheduleIs`): `pc1`, `totrot` and `pc2` give the standard's key of a
    round (`RotatedBit`), and `cookey` puts each of its bits where the box that
    wants it will look (`CookedBits`).
  - The initial permutation (`InitialIsIP`): number a bit by the word it is in
    and five binary digits. Every swap of `InitialPermutation` exchanges the
    number of the word with a digit (`SwapDigits`, and `SwapLastDigit` for the
    last one, between two rotations), so what all of them do is a permutation of six
    digits, two of them complemented, which is the formula of IP. The final
    permutation needs no argument of its own: it is what IP takes back to the
    exchanged words (`InitialFinal`), and IP reaches every bit (`IPReaches`).
  - The rounds (`RoundHolds`): the code changes the two words in turn where the
    standard exchanges the halves, so after an odd number of half passes the words
    are the standard's halves the other way round.

**Only model-checked**, and why:

- every liveness property (`ForwardedUnlessMissed`, `DeletedRouteCloses`,
  `HangupReclaims`, `StopQuits`, `HandshakesFinish`, `SubmittedJobsRun`,
  `DestructorReturns`): they rest on fairness, that is on ENABLED, which the
  prover does not handle;
- `ReadsWhatWasWritten` and `AbortsOnlyWhenShort`: `Write` and `Read` recurse
  over the type of a value.

The violations of section 4 have no theorem; `NoUseAfterFree`, `AddVerifyHolds`,
`RemoveAssertHolds` and `Forwarded` are false.

## 6. What is not modelled

- The kqueue branch (another platform) and a `PollMgr` with several threads,
  which nothing makes.
- That a record deleted and inserted again between two rounds of the cleanup
  thread goes unnoticed: the program's own README gives it as a limit.
- Memory limits: buffers grow without bound, as in the code.
- The parsing of addresses, `bind_on`, start-up, help text, logging,
  `Counter`, `set_nonblocking`, the build files.
- The accept loop's `select`: a client is accepted whenever main is in its loop,
  also once after a signal, since the tests of `global_stop_flag` come before
  `accept()`.

## 7. Plan

1. *(done)* Kernel, PollThread, EndPoint, ThreadPool, Marshal, the runs and the
   first proofs.
2. *(done)* `VncOperator`, with EndPoint's handshake as its abstraction and its
   theorems; `Des`, against the standard; `Marshalling`.
3. *(done)* Proofs of every invariant that the runs check but those of
   `Marshalling`, of the three refinements (`EndPoint`'s handshake, `JobPool`,
   `ByteQueue`), of DES, and of the registry, the reference counts and the order
   of bytes for any number of sessions.
4. `InOrder` for any number of sessions with hang-ups, up to the first descriptor
   that is taken over; the reference account of `HangupProofs` without its
   premise, for the followers as well as the leaders.
