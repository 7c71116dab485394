--------------------------- MODULE HandshakeProofs ---------------------------
(***************************************************************************)
(* More proofs about VncOperator: that an operator closes every descriptor *)
(* it opens, and no other; that it and the two parties agree on which      *)
(* message comes next; that a client with a key of the database is not     *)
(* refused; and that all of it implements the handshake of EndPoint.       *)
(***************************************************************************)
EXTENDS VncOperatorProofs

-------------------------------------------------------------------------------
(* The invariants.                                                         *)

\* The sockets an operator holds: the client's until run() returns or tie_fd
\* takes it over, the server's from socket() to close() or tie_fd.
HasClient(s) == step[s] \notin {"idle", "done"}
HasRemote(s) == step[s] \in {"connect", "tied"} \cup ServerSteps

Held == {e \in Ends : IF e[2] = "client" THEN HasClient(e[1]) ELSE HasRemote(e[1])}

\* fd_ and the open part of the descriptor table are inverse to each other.
FdInv ==
    /\ \A e \in Held : fd_[e] \in Fds /\ file[fd_[e]] = e
    /\ \A fd \in Fds : file[fd] # NoEnd => file[fd] \in Held /\ fd_[file[fd]] = fd

\* The server's connection is there from connect() to close(clnt_).
Connected == ServerSteps \cup {"tied"}

UpInv(s) ==
    /\ step[s] \in Connected => remote(s) \in up
    /\ step[s] \notin Connected \cup {"closec"} => remote(s) \notin up

\* How many messages the client has been sent, and how many have been received
\* from one that does not hang up, when the operator is at a step.
ClientSaid(at) ==
    CASE at \in {"idle", "greet"} -> 0
      [] at \in {"version", "offer"} -> 1
      [] at \in {"type", "challenge"} -> 2
      [] OTHER -> 3

ClientGot(at) ==
    CASE at \in {"idle", "greet", "version"} -> 0
      [] at \in {"offer", "type"} -> 1
      [] at \in {"challenge", "response"} -> 2
      [] OTHER -> 3

ClientGets == <<"version", "types", "challenge">>
ClientSends == <<"version", "type", "response">>

\* The dialogue with the client: it answers each message once it has read it,
\* and its answers are received in order, all but those it did not send
\* before it hung up.
ClientTalk(s) ==
    LET e == clnt_(s) IN
    step[s] \notin {"closec", "done"} =>
        /\ Len(said[e]) = ClientSaid(step[s])
        /\ \A i \in DOMAIN said[e] : said[e][i].kind = ClientGets[i]
        /\ Len(told[e]) = heard[e]
        /\ \A i \in DOMAIN told[e] : told[e][i].kind = ClientSends[i]
        /\ got[e] <= ClientGot(step[s])
        /\ got[e] < ClientGot(step[s]) => e \in hup /\ got[e] = Len(told[e])

\* How many messages a server has been sent and how many have been received
\* from it: there are two ways to "tie".
ServerAt(at) ==
    CASE at = "sversion" -> {<<0, 0>>}
      [] at = "agree" -> {<<0, 1>>}
      [] at = "count" -> {<<1, 1>>}
      [] at = "types" -> {<<1, 2>>}
      [] at \in {"none", "vnc"} -> {<<1, 3>>}
      [] at = "schallenge" -> {<<2, 3>>}
      [] at \in {"slock", "sdes", "answer"} -> {<<2, 4>>}
      [] OTHER -> {<<2, 3>>, <<3, 4>>}

ServerGets == <<"version", "type", "response">>
ServerSends == <<"version", "count", "types", "challenge">>

\* A server speaks first, answers the version with two messages and the choice
\* of the type "vnc" with one.
ServerTold(e) ==
    /\ heard[e] = 0 => Len(told[e]) <= 1
    /\ heard[e] = 1 => Len(told[e]) = 3
    /\ heard[e] > 1 => Len(told[e]) = IF said[e][2].val = "vnc" THEN 4 ELSE 3

\* The dialogue with a server that has not hung up.
ServerTalk(s) ==
    LET e == remote(s) IN
    step[s] \in Connected \ {"closer"} /\ e \notin hup =>
        /\ <<Len(said[e]), got[e]>> \in ServerAt(step[s])
        /\ \A i \in DOMAIN said[e] : said[e][i].kind = ServerGets[i]
        /\ Len(said[e]) = 2 =>
               said[e][2].val = IF step[s] \in {"tie", "tied"} THEN "none" ELSE "vnc"
        /\ Len(said[e]) = 3 => said[e][2].val = "vnc"
        /\ \A i \in DOMAIN told[e] : told[e][i].kind = ServerSends[i]
        /\ ServerTold(e)

\* Nothing has passed on a connection that is not there.
Silent(s) ==
    step[s] \notin Connected =>
        /\ said[remote(s)] = <<>> /\ told[remote(s)] = <<>>
        /\ heard[remote(s)] = 0 /\ got[remote(s)] = 0

TalkInv(s) == UpInv(s) /\ ClientTalk(s) /\ ServerTalk(s) /\ Silent(s)

\* During the look-up the response is the client's, if it has sent one; no
\* record visited so far has its key, unless the database has changed.
LookUpSteps == {"lock", "row", "des", "refuse"}

ResponseInv(s) ==
    step[s] \in LookUpSteps =>
        \/ Len(told[clnt_(s)]) = 3 /\ response[s] = told[clnt_(s)][3].val
        \/ Len(told[clnt_(s)]) < 3 /\ clnt_(s) \in hup

Visited(s) == IF step[s] = "refuse" THEN Keys ELSE Keys \ rows[s]

NoMatch(s) ==
    step[s] \in {"row", "des", "refuse"} /\ key[s] = NoWord /\ edits = 0 =>
        \A k \in Visited(s) : response[s] # Answer(k, clnt_(s))

RowsInv(s) ==
    /\ step[s] \in {"row", "des"} => rows[s] \subseteq routes
    /\ step[s] = "des" => row[s] \in rows[s] /\ key[s] = NoWord
    /\ step[s] = "refuse" => key[s] = NoWord
    /\ step[s] = "idle" => key[s] = NoWord

\* A client answers with its own key or with none.
OwnKey(s) ==
    \A r \in Values(told[clnt_(s)], "response") : r = Junk \/ r.key = KeyOf[s]

Ask(s) == ResponseInv(s) /\ NoMatch(s) /\ RowsInv(s) /\ OwnKey(s)

AskInv == (\A s \in Sessions : Ask(s)) /\ (edits = 0 => routes = Keys)

-------------------------------------------------------------------------------
(* Steps.                                                                  *)

\* The steps of run() before there is a remote descriptor.
EarlySteps == ClientSteps \cup {"resolve", "socket"}

\* The actions of an operator that leave the descriptors alone.
PlainStep(s) ==
    \/ SendToClient(s) \/ SendToServer(s) \/ SendFails(s) \/ RecvFails(s)
    \/ RecvVersion(s, clnt_(s), "version", "offer") \/ RecvType(s) \/ RecvResponse(s)
    \/ LookUp(s) \/ Lock(s)
    \/ Resolve(s) \/ SocketFails(s) \/ ConnectSucceeds(s) \/ GiveUp(s)
    \/ RecvVersion(s, remote(s), "sversion", "agree") \/ RecvCount(s) \/ RecvTypes(s)
    \/ RecvChallenge(s) \/ AnswerDes(s) \/ Tie(s)

\* Where they lead.
LEMMA PlainMove ==
    ASSUME step \in [Sessions -> Steps], NEW s \in Sessions, PlainStep(s)
    PROVE  /\ UNCHANGED fdVars
           /\ \E next \in Steps :
                 /\ GoTo(s, next)
                 /\ \/ step[s] \in EarlySteps /\ next \in EarlySteps \cup {"closec"}
                    \/ step[s] = "connect" /\ next = "sversion"
                    \/ step[s] \in ServerSteps \ {"tie", "closer"} /\ next \in ServerSteps
                    \/ step[s] = "tie" /\ next = "tied"
<1> DEFINE Leads(next) == /\ GoTo(s, next)
                          /\ \/ step[s] \in EarlySteps /\ next \in EarlySteps \cup {"closec"}
                             \/ step[s] = "connect" /\ next = "sversion"
                             \/ step[s] \in ServerSteps \ {"tie", "closer"} /\ next \in ServerSteps
                             \/ step[s] = "tie" /\ next = "tied"
<1>0. EarlySteps \cup {"closec", "sversion", "tied"} \cup ServerSteps \subseteq Steps
  BY DEF EarlySteps, Steps, ConnectSteps, ServerSteps
<1> SUFFICES UNCHANGED fdVars /\ \E next \in EarlySteps \cup {"closec", "sversion", "tied"}
                                                 \cup ServerSteps : Leads(next)
  BY <1>0
<1>1. CASE SendToClient(s) \/ RecvVersion(s, clnt_(s), "version", "offer") \/ RecvType(s)
           \/ RecvResponse(s)
  BY <1>1 DEF SendToClient, SendMessage, RecvVersion, RecvType, RecvResponse, EarlySteps,
     ClientSteps, OnError, ServerSteps
<1>2. CASE SendToServer(s) \/ RecvVersion(s, remote(s), "sversion", "agree") \/ RecvCount(s)
           \/ RecvChallenge(s) \/ LockAnswer(s) \/ AnswerDes(s)
  BY <1>2 DEF SendToServer, SendMessage, RecvVersion, RecvCount, RecvChallenge, LockAnswer,
     AnswerDes, OnError, ServerSteps
<1>3. CASE SendFails(s) \/ RecvFails(s)
  BY <1>3 DEF SendFails, RecvFails, OnError, EarlySteps, ClientSteps, ServerSteps
<1>4. CASE LookUp(s) \/ LockQuery(s)
  BY <1>4 DEF LookUp, LockQuery, RowKey, RowCompare, QueryReturns, QueryFails, EarlySteps,
     ClientSteps
<1>5. CASE Resolve(s) \/ GiveUp(s) \/ ConnectSucceeds(s)
  BY <1>5 DEF Resolve, GiveUp, ConnectSucceeds, EarlySteps, ClientSteps
<1>6. CASE SocketFails(s)
  <2>1. GoTo(s, "socket") BY <1>6 DEF SocketFails, GoTo
  <2> QED BY <1>6, <2>1 DEF SocketFails, EarlySteps
<1>7. CASE RecvTypes(s)
  <2>1. \A types : Choice(s, types) \in {"none", "vnc", "closer"} BY DEF Choice
  <2> QED BY <1>7, <2>1 DEF RecvTypes, ServerSteps
<1>8. CASE Tie(s)
  BY <1>8 DEF Tie
<1> QED BY <1>1, <1>2, <1>3, <1>4, <1>5, <1>6, <1>7, <1>8 DEF PlainStep, Lock

\* All the actions of a session.
LEMMA SessionSteps ==
    ASSUME NEW s \in Sessions, Accept(s) \/ Operator(s) \/ Lock(s)
    PROVE  \/ PlainStep(s)
           \/ Accept(s) \/ Socket(s) \/ ConnectFails(s) \/ CloseRemote(s) \/ CloseClient(s)
BY DEF Operator, PlainStep, ConnectTo

-------------------------------------------------------------------------------
(* Descriptors.                                                            *)

\* The sockets held, by session.
LEMMA HeldEnds ==
    \A s \in Sessions : /\ clnt_(s) \in Held <=> HasClient(s)
                        /\ remote(s) \in Held <=> HasRemote(s)
BY DEF Held, clnt_, remote, Ends, Sides

\* A step of a session concerns the sockets of that session only.
LEMMA HeldStep ==
    ASSUME step \in [Sessions -> Steps], NEW s \in Sessions, NEW next \in Steps, GoTo(s, next)
    PROVE  /\ \A e \in Ends \ {clnt_(s), remote(s)} : e \in Held' <=> e \in Held
           /\ clnt_(s) \in Held' <=> next \notin {"idle", "done"}
           /\ remote(s) \in Held' <=> next \in {"connect", "tied"} \cup ServerSteps
<1>1. step'[s] = next /\ \A t \in Sessions \ {s} : step'[t] = step[t]
  BY GoToStep
<1>2. ASSUME NEW e \in Ends \ {clnt_(s), remote(s)} PROVE e \in Held' <=> e \in Held
  <2>1. e[1] \in Sessions \ {s} BY DEF Ends, Sides, clnt_, remote
  <2> QED BY <1>1, <2>1 DEF Held, HasClient, HasRemote
<1> QED BY <1>1, <1>2 DEF Held, HasClient, HasRemote, clnt_, remote, Ends, Sides

\* accept() and socket() add one.
LEMMA OpenKeeps ==
    ASSUME FdTypes, FdInv, NEW e \in Ends \ Held, OpenSocket(e), Held' = Held \cup {e}
    PROVE  FdInv'
<1>1. PICK fd \in Fds : /\ file[fd] = NoEnd
                        /\ file' = [file EXCEPT ![fd] = e]
                        /\ fd_' = [fd_ EXCEPT ![e] = fd]
  BY DEF OpenSocket, EP!LowestFree
<1>2. /\ file'[fd] = e /\ \A g \in Fds \ {fd} : file'[g] = file[g]
      /\ fd_'[e] = fd /\ \A x \in Ends \ {e} : fd_'[x] = fd_[x]
  BY <1>1 DEF FdTypes
<1>3. Held \subseteq Ends /\ \A x \in Ends : x # NoEnd BY EndsOfSession DEF Held
<1> QED BY <1>1, <1>2, <1>3 DEF FdInv

\* close() takes one away.
LEMMA CloseKeeps ==
    ASSUME FdTypes, FdInv, NEW e \in Held, Close(e), Held' = Held \ {e}
    PROVE  FdInv'
<1>1. /\ fd_[e] \in Fds /\ file[fd_[e]] = e
      /\ file' = [file EXCEPT ![fd_[e]] = NoEnd] /\ fd_' = fd_
  BY DEF FdInv, Close
<1>2. file'[fd_[e]] = NoEnd /\ \A g \in Fds \ {fd_[e]} : file'[g] = file[g]
  BY <1>1 DEF FdTypes
<1> QED BY <1>1, <1>2 DEF FdInv

\* Every step keeps FdInv: descriptors are opened and closed one at a time.
LEMMA FdStep == ASSUME IInv, FdInv, [Next]_vars PROVE FdInv'
<1> USE EndsOfSession
<1>0. FdTypes /\ step \in [Sessions -> Steps] /\ Held \subseteq Ends
  BY DEF IInv, TypeInv, Held
<1>1. ASSUME UNCHANGED fdVars, Held' = Held PROVE FdInv'
  BY <1>1 DEF FdInv, fdVars
<1>2. ASSUME NEW s \in Sessions, PlainStep(s) PROVE FdInv'
  <2>1. PICK next \in Steps :
           /\ GoTo(s, next)
           /\ \/ step[s] \in EarlySteps /\ next \in EarlySteps \cup {"closec"}
              \/ step[s] = "connect" /\ next = "sversion"
              \/ step[s] \in ServerSteps \ {"tie", "closer"} /\ next \in ServerSteps
              \/ step[s] = "tie" /\ next = "tied"
    BY <1>0, <1>2, PlainMove
  <2>2. /\ HasClient(s) /\ next \notin {"idle", "done"}
        /\ HasRemote(s) <=> next \in {"connect", "tied"} \cup ServerSteps
    BY <2>1 DEF HasClient, HasRemote, EarlySteps, ClientSteps, ServerSteps
  <2>3. \A e \in Ends : e \in Held' <=> e \in Held
    BY <1>0, <2>1, <2>2, HeldStep, HeldEnds
  <2>4. Held' \subseteq Ends BY DEF Held
  <2>5. Held' = Held BY <1>0, <2>3, <2>4
  <2> QED BY <1>0, <1>1, <1>2, <2>5, PlainMove
<1>3. ASSUME NEW s \in Sessions, NEW e \in {clnt_(s), remote(s)}, NEW next \in Steps,
             GoTo(s, next),
             e = clnt_(s) => (HasRemote(s) <=> next \in {"connect", "tied"} \cup ServerSteps),
             e = remote(s) => (HasClient(s) <=> next \notin {"idle", "done"})
      PROVE  \A x \in Ends \ {e} : x \in Held' <=> x \in Held
  BY <1>0, <1>3, HeldStep, HeldEnds
<1>4. Held' \subseteq Ends BY DEF Held
<1>5. ASSUME NEW s \in Sessions, Accept(s) PROVE FdInv'
  <2>1. /\ clnt_(s) \notin Held /\ ~HasRemote(s) /\ "greet" \in Steps
        /\ "greet" \notin {"connect", "tied"} \cup ServerSteps
    BY <1>5, HeldEnds DEF Accept, HasClient, HasRemote, ServerSteps, Steps, ClientSteps
  <2>2. GoTo(s, "greet") /\ OpenSocket(clnt_(s)) BY <1>5 DEF Accept
  <2>3. clnt_(s) \in Held' BY <1>0, <2>1, <2>2, HeldStep
  <2>4. \A x \in Ends \ {clnt_(s)} : x \in Held' <=> x \in Held BY <1>3, <2>1, <2>2
  <2>5. Held' = Held \cup {clnt_(s)} BY <1>0, <1>4, <2>3, <2>4
  <2> QED BY <1>0, <2>1, <2>2, <2>5, OpenKeeps
<1>6. ASSUME NEW s \in Sessions, Socket(s) PROVE FdInv'
  <2>1. remote(s) \notin Held /\ HasClient(s) /\ "connect" \in Steps
    BY <1>6, HeldEnds DEF Socket, HasClient, HasRemote, ServerSteps, Steps, ConnectSteps
  <2>2. GoTo(s, "connect") /\ OpenSocket(remote(s)) BY <1>6 DEF Socket
  <2>3. remote(s) \in Held' BY <1>0, <2>1, <2>2, HeldStep
  <2>4. \A x \in Ends \ {remote(s)} : x \in Held' <=> x \in Held BY <1>3, <2>1, <2>2
  <2>5. Held' = Held \cup {remote(s)} BY <1>0, <1>4, <2>3, <2>4
  <2> QED BY <1>0, <2>1, <2>2, <2>5, OpenKeeps
<1>7. ASSUME NEW s \in Sessions, ConnectFails(s) \/ CloseRemote(s) PROVE FdInv'
  <2>1. PICK next \in {"socket", "closec"} : GoTo(s, next) /\ Close(remote(s))
    BY <1>7 DEF ConnectFails, CloseRemote
  <2>2. /\ remote(s) \in Held /\ HasClient(s) /\ next \in Steps
        /\ next \notin {"connect", "tied"} \cup ServerSteps
    BY <1>7, HeldEnds DEF ConnectFails, CloseRemote, HasClient, HasRemote, ServerSteps,
       Steps, ConnectSteps
  <2>3. remote(s) \notin Held' BY <1>0, <2>1, <2>2, HeldStep
  <2>4. \A x \in Ends \ {remote(s)} : x \in Held' <=> x \in Held BY <1>3, <2>1, <2>2
  <2>5. Held' = Held \ {remote(s)} BY <1>0, <1>4, <2>3, <2>4
  <2> QED BY <1>0, <2>1, <2>2, <2>5, CloseKeeps
<1>8. ASSUME NEW s \in Sessions, CloseClient(s) PROVE FdInv'
  <2>1. GoTo(s, "done") /\ Close(clnt_(s)) /\ step[s] = "closec" BY <1>8 DEF CloseClient
  <2>2. /\ clnt_(s) \in Held /\ ~HasRemote(s) /\ "done" \in Steps
        /\ "done" \notin {"connect", "tied"} \cup ServerSteps
    BY <2>1, HeldEnds DEF HasClient, HasRemote, ServerSteps, Steps
  <2>3. clnt_(s) \notin Held' BY <1>0, <2>1, <2>2, HeldStep
  <2>4. \A x \in Ends \ {clnt_(s)} : x \in Held' <=> x \in Held BY <1>3, <2>1, <2>2
  <2>5. Held' = Held \ {clnt_(s)} BY <1>0, <1>4, <2>3, <2>4
  <2> QED BY <1>0, <2>1, <2>2, <2>5, CloseKeeps
<1>9. ASSUME UNCHANGED <<fdVars, step>> PROVE FdInv'
  BY <1>9 DEF FdInv, fdVars, Held, HasClient, HasRemote
<1>10. CASE UNCHANGED vars
  BY <1>9, <1>10 DEF vars
<1>11. CASE (\E e \in Ends : Greet(e) \/ Reply(e) \/ Hangup(e)) \/ \E k \in Edited : EditRoute(k)
  BY <1>9, <1>11 DEF Greet, Reply, Hangup, EditRoute
<1> QED BY <1>2, <1>5, <1>6, <1>7, <1>8, <1>10, <1>11, SessionSteps DEF Next

\* No descriptor is open initially.
LEMMA FdInit == Init => FdInv
BY DEF Init, FdInv, Held, HasClient, HasRemote, ServerSteps, Ends, Sides

\* FdInv is an invariant, on top of IInv.
LEMMA FdInvariant == Spec => [](IInv /\ FdInv)
<1>1. Init => IInv /\ FdInv BY InitInv, FdInit
<1>2. IInv /\ FdInv /\ [Next]_vars => (IInv /\ FdInv)' BY StepInv, FdStep
<1> QED BY <1>1, <1>2, PTL DEF Spec

\* Whatever fails where, an operator works on its own descriptors only, and
\* both are closed when run() returns without tie_fd.
THEOREM DescriptorsOwned == Spec => []OwnDescriptors
<1>1. FdInv => OwnDescriptors
  <2> SUFFICES ASSUME FdInv, NEW s \in Sessions
               PROVE  /\ step[s] \notin {"idle", "done"} => file[fd_[clnt_(s)]] = clnt_(s)
                      /\ step[s] \in {"connect", "tied"} \cup ServerSteps =>
                             file[fd_[remote(s)]] = remote(s)
                      /\ step[s] \in {"idle", "done"} => ~EP!IsOpen(clnt_(s))
                      /\ step[s] \in {"idle", "done", "closec"} => ~EP!IsOpen(remote(s))
    BY DEF OwnDescriptors
  <2>1. \A e \in Ends : EP!IsOpen(e) => e \in Held
    BY EndsOfSession DEF FdInv, EP!IsOpen, EP!Fds, Fds
  <2> QED BY <2>1, HeldEnds, EndsOfSession DEF FdInv, HasClient, HasRemote, ServerSteps
<1> QED BY <1>1, FdInvariant, PTL

-------------------------------------------------------------------------------
(* Messages: what a step leaves alone.                                     *)

\* The connection of end e, in a step.
Same(e) ==
    /\ said'[e] = said[e] /\ told'[e] = told[e]
    /\ heard'[e] = heard[e] /\ got'[e] = got[e]

\* The dialogue with the client does not move.
LEMMA ClientStays ==
    ASSUME NEW s \in Sessions, ClientTalk(s), Same(clnt_(s)), hup \subseteq hup',
           \/ step'[s] \in {"closec", "done"}
           \/ /\ step[s] \notin {"closec", "done"}
              /\ ClientSaid(step'[s]) = ClientSaid(step[s])
              /\ ClientGot(step'[s]) = ClientGot(step[s])
    PROVE  ClientTalk(s)'
BY DEF ClientTalk, Same

\* There is no connection with the server.
LEMMA ServerAbsent ==
    ASSUME NEW s \in Sessions, UpInv(s), Silent(s), Same(remote(s)),
           remote(s) \in up' => remote(s) \in up,
           step[s] \notin Connected \cup {"closec"}, step'[s] \notin Connected
    PROVE  UpInv(s)' /\ ServerTalk(s)' /\ Silent(s)'
BY DEF UpInv, ServerTalk, Silent, Same

\* The dialogue with the server does not move, or has come to an end.
LEMMA ServerStays ==
    ASSUME NEW s \in Sessions, UpInv(s), ServerTalk(s), Same(remote(s)), hup \subseteq hup',
           remote(s) \in up => remote(s) \in up',
           step[s] \in Connected, step'[s] \in Connected,
           \/ step'[s] = "closer"
           \/ /\ step[s] # "closer"
              /\ ServerAt(step'[s]) = ServerAt(step[s])
              /\ step[s] \in {"tie", "tied"} <=> step'[s] \in {"tie", "tied"}
    PROVE  UpInv(s)' /\ ServerTalk(s)' /\ Silent(s)'
<1>1. UpInv(s)' /\ Silent(s)' BY DEF UpInv, Silent
<1>2. CASE step'[s] = "closer" BY <1>1, <1>2 DEF ServerTalk
<1>3. CASE step'[s] # "closer" /\ remote(s) \in hup'
  BY <1>1, <1>3 DEF ServerTalk
<1>4. CASE step'[s] # "closer" /\ remote(s) \notin hup'
  <2>1. /\ <<Len(said[remote(s)]), got[remote(s)]>> \in ServerAt(step[s])
        /\ \A i \in DOMAIN said[remote(s)] : said[remote(s)][i].kind = ServerGets[i]
        /\ Len(said[remote(s)]) = 2 =>
               said[remote(s)][2].val = IF step[s] \in {"tie", "tied"} THEN "none" ELSE "vnc"
        /\ Len(said[remote(s)]) = 3 => said[remote(s)][2].val = "vnc"
        /\ \A i \in DOMAIN told[remote(s)] : told[remote(s)][i].kind = ServerSends[i]
        /\ ServerTold(remote(s))
    BY <1>4 DEF ServerTalk
  <2>2. ServerTold(remote(s))' BY <2>1 DEF ServerTold, Same
  <2>3. ServerTalk(s)' BY <1>4, <2>1, <2>2 DEF ServerTalk, Same
  <2> QED BY <1>1, <2>3
<1> QED BY <1>2, <1>3, <1>4

\* A session nobody touches.
LEMMA TalkStays ==
    ASSUME NEW t \in Sessions, TalkInv(t), step'[t] = step[t],
           Same(clnt_(t)), Same(remote(t)), hup \subseteq hup',
           remote(t) \in up' <=> remote(t) \in up
    PROVE  TalkInv(t)'
<1>1. UpInv(t)' BY DEF TalkInv, UpInv
<1>2. Silent(t)' BY DEF TalkInv, Silent, Same
<1>3. ClientTalk(t)'
  <2>1. CASE step[t] \in {"closec", "done"} BY <2>1 DEF ClientTalk
  <2>2. CASE step[t] \notin {"closec", "done"} BY <2>2, ClientStays DEF TalkInv
  <2> QED BY <2>1, <2>2
<1>4. ServerTalk(t)'
  <2>1. CASE step[t] \in Connected \ {"closer"} BY <2>1, ServerStays DEF TalkInv
  <2>2. CASE step[t] \notin Connected \ {"closer"} BY <2>2 DEF ServerTalk
  <2> QED BY <2>1, <2>2
<1> QED BY <1>1, <1>2, <1>3, <1>4 DEF TalkInv

\* A step of session s that changes the connection of one end of it at most.
LEMMA OthersTalk ==
    ASSUME step \in [Sessions -> Steps], \A t \in Sessions : TalkInv(t), hup \subseteq hup',
           NEW s \in Sessions, NEW next \in Steps, GoTo(s, next),
           NEW e \in {clnt_(s), remote(s)}, \A x \in Ends \ {e} : Same(x),
           \A t \in Sessions \ {s} : remote(t) \in up' <=> remote(t) \in up,
           TalkInv(s)'
    PROVE  \A t \in Sessions : TalkInv(t)'
<1> SUFFICES ASSUME NEW t \in Sessions \ {s} PROVE TalkInv(t)'
  OBVIOUS
<1>1. step'[t] = step[t] BY GoToStep
<1>2. Same(clnt_(t)) /\ Same(remote(t)) BY EndsOfSession
<1> QED BY <1>1, <1>2, TalkStays

-------------------------------------------------------------------------------
(* Messages: the client's part.                                            *)

\* The steps of the client's part that send and receive.
LEMMA ClientSendTable ==
    /\ ClientSaid("version") = ClientSaid("greet") + 1 /\ ClientGot("version") = ClientGot("greet")
    /\ ClientSaid("type") = ClientSaid("offer") + 1 /\ ClientGot("type") = ClientGot("offer")
    /\ ClientSaid("response") = ClientSaid("challenge") + 1
    /\ ClientGot("response") = ClientGot("challenge")
    /\ ClientGets[ClientSaid("version")] = "version"
    /\ ClientGets[ClientSaid("type")] = "types"
    /\ ClientGets[ClientSaid("response")] = "challenge"
BY DEF ClientGets, ClientSaid, ClientGot

\* A recv from the client moves on by one message of the client.
LEMMA ClientReceiveTable ==
    \A pair \in {<<"version", "offer">>, <<"type", "challenge">>, <<"response", "lock">>} :
        /\ ClientSaid(pair[2]) = ClientSaid(pair[1])
        /\ ClientGot(pair[2]) = ClientGot(pair[1]) + 1
        /\ ClientGot(pair[1]) \in Nat
BY DEF ClientSaid, ClientGot

\* A message sent is the next of ClientGets.
LEMMA ClientSend ==
    ASSUME WireTypes, step \in [Sessions -> Steps], NEW s \in Sessions, ClientTalk(s),
           NEW m, NEW next \in Steps, Send(clnt_(s), m), GoTo(s, next), UNCHANGED <<partyVars, got>>,
           step[s] \notin {"closec", "done"},
           ClientSaid(next) = ClientSaid(step[s]) + 1, ClientGot(next) = ClientGot(step[s]),
           m.kind = ClientGets[ClientSaid(next)]
    PROVE  ClientTalk(s)'
<1> DEFINE e == clnt_(s)
<1>0. e \in Ends /\ step'[s] = next BY EndsOfSession, GoToStep
<1>1. said[e] \in Seq(Messages) /\ told[e] \in Seq(Messages) /\ said'[e] = Append(said[e], m)
  BY <1>0 DEF WireTypes, Send
<1>2. /\ Len(said'[e]) = Len(said[e]) + 1
      /\ said'[e][Len(said[e]) + 1] = m
      /\ \A i \in DOMAIN said[e] : said'[e][i] = said[e][i]
      /\ DOMAIN said'[e] = DOMAIN said[e] \cup {Len(said[e]) + 1}
  BY <1>1
<1>3. UNCHANGED <<hup, told, heard, got>> BY DEF partyVars
<1>4. /\ Len(said[e]) = ClientSaid(step[s])
      /\ \A i \in DOMAIN said[e] : said[e][i].kind = ClientGets[i]
      /\ Len(told[e]) = heard[e]
      /\ \A i \in DOMAIN told[e] : told[e][i].kind = ClientSends[i]
      /\ got[e] <= ClientGot(step[s])
      /\ got[e] < ClientGot(step[s]) => e \in hup /\ got[e] = Len(told[e])
  BY DEF ClientTalk
<1>5. \A i \in DOMAIN said'[e] : said'[e][i].kind = ClientGets[i]
  BY <1>2, <1>4
<1> HIDE DEF e
<1>6. /\ Len(said'[e]) = ClientSaid(step'[s])
      /\ \A i \in DOMAIN said'[e] : said'[e][i].kind = ClientGets[i]
      /\ Len(told'[e]) = heard'[e]
      /\ \A i \in DOMAIN told'[e] : told'[e][i].kind = ClientSends[i]
      /\ got'[e] <= ClientGot(step'[s])
      /\ got'[e] < ClientGot(step'[s]) => e \in hup' /\ got'[e] = Len(told'[e])
  BY <1>0, <1>2, <1>3, <1>4, <1>5
<1> QED BY <1>6 DEF ClientTalk, e

\* What is received is the next of ClientSends; a recv() that comes short
\* shows that the client has hung up and has sent nothing else.
LEMMA ClientReceive ==
    ASSUME WireTypes, step \in [Sessions -> Steps], NEW s \in Sessions, ClientTalk(s),
           NEW kind, Receives(clnt_(s), kind) \/ ReceivesShort(clnt_(s)),
           NEW next \in Steps, GoTo(s, next), UNCHANGED <<partyVars, said>>,
           step[s] \notin {"closec", "done"}, ClientGot(step[s]) \in Nat,
           next # "closec" => /\ ClientSaid(next) = ClientSaid(step[s])
                              /\ ClientGot(next) = ClientGot(step[s]) + 1
    PROVE  /\ ClientTalk(s)'
           /\ Receives(clnt_(s), kind) => got[clnt_(s)] = ClientGot(step[s])
<1> DEFINE e == clnt_(s)
<1>0. e \in Ends /\ step'[s] = next BY EndsOfSession, GoToStep
<1>1. said[e] \in Seq(Messages) /\ told[e] \in Seq(Messages) /\ got[e] \in Nat
  BY <1>0 DEF WireTypes
<1>2. UNCHANGED <<hup, told, heard, said>> BY DEF partyVars
<1>3. /\ Len(said[e]) = ClientSaid(step[s])
      /\ \A i \in DOMAIN said[e] : said[e][i].kind = ClientGets[i]
      /\ Len(told[e]) = heard[e]
      /\ \A i \in DOMAIN told[e] : told[e][i].kind = ClientSends[i]
      /\ got[e] <= ClientGot(step[s])
      /\ got[e] < ClientGot(step[s]) => e \in hup /\ got[e] = Len(told[e])
  BY DEF ClientTalk
<1>4. \/ got[e] < Len(told[e]) /\ got'[e] = got[e] + 1
      \/ e \in hup /\ got[e] = Len(told[e]) /\ got'[e] = got[e]
  BY <1>0, <1>1 DEF WireTypes, Receives, ReceivesShort
<1>5. Receives(e, kind) => got[e] = ClientGot(step[s])
  BY <1>1, <1>3 DEF Receives
<1> HIDE DEF e
<1>6. CASE next = "closec" BY <1>0, <1>5, <1>6 DEF ClientTalk, e
<1>7. CASE next # "closec"
  <2>1. /\ got'[e] <= ClientGot(next)
        /\ got'[e] < ClientGot(next) => e \in hup' /\ got'[e] = Len(told'[e])
    BY <1>1, <1>2, <1>3, <1>4, <1>7
  <2> QED BY <1>0, <1>2, <1>3, <1>5, <1>7, <2>1 DEF ClientTalk, e
<1> QED BY <1>6, <1>7

\* Send() and recv() change one connection.
LEMMA SendSame ==
    ASSUME WireTypes, NEW e \in Ends, NEW m, Send(e, m), UNCHANGED <<partyVars, got>>
    PROVE  \A x \in Ends \ {e} : Same(x)
BY DEF WireTypes, Send, Same, partyVars

\* A recv on one descriptor leaves every other connection as it was.
LEMMA ReceiveSame ==
    ASSUME WireTypes, NEW e \in Ends, NEW kind, Receives(e, kind) \/ ReceivesShort(e),
           UNCHANGED <<partyVars, said>>
    PROVE  \A x \in Ends \ {e} : Same(x)
BY DEF WireTypes, Receives, ReceivesShort, Same, partyVars

\* The messages exchanged with the client.
LEMMA ClientTalks ==
    ASSUME IInv, \A t \in Sessions : TalkInv(t), NEW s \in Sessions,
           \/ SendToClient(s) \/ RecvVersion(s, clnt_(s), "version", "offer")
           \/ RecvType(s) \/ RecvResponse(s)
    PROVE  \A t \in Sessions : TalkInv(t)'
<1> USE EndsOfSession
<1>0. WireTypes /\ step \in [Sessions -> Steps] /\ TalkInv(s) BY DEF IInv, TypeInv
<1>1. /\ ClientSteps \cup {"closec"} \subseteq Steps
      /\ ClientSteps \cap Connected = {} /\ "closec" \notin Connected
      /\ ClientSteps \cap {"closec", "done"} = {}
  BY DEF Steps, ClientSteps, Connected, ServerSteps
<1>2. ASSUME NEW next \in ClientSteps \cup {"closec"}, GoTo(s, next), step[s] \in ClientSteps,
             \A x \in Ends \ {clnt_(s)} : Same(x), UNCHANGED <<up, hup>>,
             ClientTalk(s)'
      PROVE  \A t \in Sessions : TalkInv(t)'
  <2>1. step'[s] = next BY <1>0, <1>1, <1>2, GoToStep
  <2>2. UpInv(s)' /\ ServerTalk(s)' /\ Silent(s)'
    BY <1>0, <1>1, <1>2, <2>1, ServerAbsent DEF TalkInv
  <2>3. TalkInv(s)' BY <1>2, <2>2 DEF TalkInv
  <2> QED BY <1>0, <1>1, <1>2, <2>3, OthersTalk
<1>3. ASSUME NEW from \in ClientSteps, NEW m, NEW next \in ClientSteps \cup {"closec"},
             SendMessage(s, from, clnt_(s), m, next),
             next # "closec" => /\ ClientSaid(next) = ClientSaid(from) + 1
                                /\ ClientGot(next) = ClientGot(from)
                                /\ m.kind = ClientGets[ClientSaid(next)]
      PROVE  \A t \in Sessions : TalkInv(t)'
  <2>1. /\ step[s] = from /\ Send(clnt_(s), m) /\ GoTo(s, next) /\ UNCHANGED <<partyVars, got>>
    BY <1>3 DEF SendMessage
  <2>2. ClientTalk(s)'
    <3>1. CASE next = "closec"
      <4>1. step'[s] = "closec" BY <1>0, <1>1, <2>1, <3>1, GoToStep
      <4> QED BY <4>1 DEF ClientTalk
    <3>2. CASE next # "closec"
      BY <1>0, <1>1, <1>3, <2>1, <3>2, ClientSend DEF TalkInv
    <3> QED BY <3>1, <3>2
  <2>3. \A x \in Ends \ {clnt_(s)} : Same(x) BY <1>0, <2>1, SendSame
  <2> QED BY <1>2, <1>3, <2>1, <2>2, <2>3 DEF partyVars
<1>4. ASSUME NEW kind, NEW next \in ClientSteps \cup {"closec"}, GoTo(s, next),
             step[s] \in ClientSteps, ClientGot(step[s]) \in Nat,
             Receives(clnt_(s), kind) \/ ReceivesShort(clnt_(s)), UNCHANGED <<partyVars, said>>,
             next # "closec" => /\ ClientSaid(next) = ClientSaid(step[s])
                                /\ ClientGot(next) = ClientGot(step[s]) + 1
      PROVE  \A t \in Sessions : TalkInv(t)'
  <2>1. ClientTalk(s)' BY <1>0, <1>1, <1>4, ClientReceive DEF TalkInv
  <2>2. \A x \in Ends \ {clnt_(s)} : Same(x) BY <1>0, <1>4, ReceiveSame
  <2> QED BY <1>2, <1>4, <2>1, <2>2 DEF partyVars
<1>5. CASE SendToClient(s)
  <2>1. /\ Msg("version", TRUE).kind = "version"
        /\ Msg("types", {"vnc"}).kind = "types"
        /\ Msg("challenge", clnt_(s)).kind = "challenge"
    BY DEF Msg
  <2>2. {"greet", "version", "offer", "type", "challenge", "response", "refuse"} \subseteq ClientSteps
    BY DEF ClientSteps
  <2>3. SendMessage(s, "greet", clnt_(s), Msg("version", TRUE), "version")
          => \A t \in Sessions : TalkInv(t)'
    BY ONLY <1>3, <2>1, <2>2, ClientSendTable
  <2>4. SendMessage(s, "offer", clnt_(s), Msg("types", {"vnc"}), "type")
          => \A t \in Sessions : TalkInv(t)'
    BY ONLY <1>3, <2>1, <2>2, ClientSendTable
  <2>5. SendMessage(s, "challenge", clnt_(s), Msg("challenge", clnt_(s)), "response")
          => \A t \in Sessions : TalkInv(t)'
    BY ONLY <1>3, <2>1, <2>2, ClientSendTable
  <2>6. SendMessage(s, "refuse", clnt_(s), Msg("result", "fail"), "closec")
          => \A t \in Sessions : TalkInv(t)'
    BY ONLY <1>3, <2>2
  <2> QED BY <1>5, <2>3, <2>4, <2>5, <2>6 DEF SendToClient
<1>6. CASE RecvVersion(s, clnt_(s), "version", "offer")
  <2>1. {"version", "offer"} \subseteq ClientSteps BY DEF ClientSteps
  <2>2. PICK next \in {"offer", "closec"} : GoTo(s, next)
    BY <1>6 DEF RecvVersion, OnError, ServerSteps
  <2>3. /\ Receives(clnt_(s), "version") \/ ReceivesShort(clnt_(s))
        /\ UNCHANGED <<partyVars, said>> /\ step[s] = "version"
    BY <1>6 DEF RecvVersion
  <2>4. /\ ClientSaid("offer") = ClientSaid("version")
        /\ ClientGot("offer") = ClientGot("version") + 1 /\ ClientGot("version") \in Nat
    BY ClientReceiveTable
  <2> QED BY ONLY <1>4, <2>1, <2>2, <2>3, <2>4
<1>7. CASE RecvType(s)
  <2>1. {"type", "challenge"} \subseteq ClientSteps BY DEF ClientSteps
  <2>2. /\ Receives(clnt_(s), "type") \/ ReceivesShort(clnt_(s))
        /\ UNCHANGED <<partyVars, said>> /\ step[s] = "type" /\ GoTo(s, "challenge")
    BY <1>7 DEF RecvType
  <2>3. /\ ClientSaid("challenge") = ClientSaid("type")
        /\ ClientGot("challenge") = ClientGot("type") + 1 /\ ClientGot("type") \in Nat
    BY ClientReceiveTable
  <2> QED BY ONLY <1>4, <2>1, <2>2, <2>3
<1>8. CASE RecvResponse(s)
  <2>1. {"response", "lock"} \subseteq ClientSteps BY DEF ClientSteps
  <2>2. /\ Receives(clnt_(s), "response") \/ ReceivesShort(clnt_(s))
        /\ UNCHANGED <<partyVars, said>> /\ step[s] = "response" /\ GoTo(s, "lock")
    BY <1>8 DEF RecvResponse
  <2>3. /\ ClientSaid("lock") = ClientSaid("response")
        /\ ClientGot("lock") = ClientGot("response") + 1 /\ ClientGot("response") \in Nat
    BY ClientReceiveTable
  <2> QED BY ONLY <1>4, <2>1, <2>2, <2>3
<1> QED BY <1>5, <1>6, <1>7, <1>8

-------------------------------------------------------------------------------
(* Messages: the server's part.                                            *)

\* Where the dialogue with the server is at each call of run().
LEMMA ServerTable ==
    /\ ServerAt("sversion") = {<<0, 0>>} /\ ServerAt("agree") = {<<0, 1>>}
    /\ ServerAt("count") = {<<1, 1>>} /\ ServerAt("types") = {<<1, 2>>}
    /\ ServerAt("none") = {<<1, 3>>} /\ ServerAt("vnc") = {<<1, 3>>}
    /\ ServerAt("schallenge") = {<<2, 3>>} /\ ServerAt("slock") = {<<2, 4>>}
    /\ ServerAt("sdes") = {<<2, 4>>} /\ ServerAt("answer") = {<<2, 4>>}
    /\ ServerAt("tie") = {<<2, 3>>, <<3, 4>>} /\ ServerAt("tied") = {<<2, 3>>, <<3, 4>>}
BY DEF ServerAt

\* Past the look-up the client's part is over.
LEMMA ClientWaits ==
    \A at \in Connected \cup {"row", "des", "lock", "refuse", "resolve", "socket", "connect"} :
        ClientSaid(at) = 3 /\ ClientGot(at) = 3 /\ at \notin {"closec", "done"}
BY DEF Connected, ServerSteps, ClientSaid, ClientGot

\* The dialogue with a server, of the conjuncts of ServerTalk.
LEMMA ServerSend ==
    ASSUME WireTypes, step \in [Sessions -> Steps], NEW s \in Sessions, ServerTalk(s),
           NEW m, NEW next \in Connected, Send(remote(s), m), GoTo(s, next),
           next \in Steps, UNCHANGED <<partyVars, got>>,
           step[s] \in Connected \ {"closer", "tie", "tied"},
           NEW n \in {0, 1, 2}, NEW g \in Nat,
           ServerAt(step[s]) = {<<n, g>>}, <<n + 1, g>> \in ServerAt(next),
           m.kind = ServerGets[n + 1],
           n = 1 => m.val = IF next \in {"tie", "tied"} THEN "none" ELSE "vnc"
    PROVE  ServerTalk(s)'
<1> DEFINE e == remote(s)
<1>0. e \in Ends /\ step'[s] = next BY EndsOfSession, GoToStep
<1>1. /\ said[e] \in Seq(Messages) /\ told[e] \in Seq(Messages) /\ said'[e] = Append(said[e], m)
      /\ heard[e] \in Nat /\ heard[e] <= Len(said[e])
  BY <1>0 DEF WireTypes, Send
<1>2. UNCHANGED <<hup, told, heard, got>> BY DEF partyVars
<1> SUFFICES ASSUME e \notin hup
             PROVE  /\ <<Len(said'[e]), got'[e]>> \in ServerAt(next)
                    /\ \A i \in DOMAIN said'[e] : said'[e][i].kind = ServerGets[i]
                    /\ Len(said'[e]) = 2 =>
                           said'[e][2].val = IF next \in {"tie", "tied"} THEN "none" ELSE "vnc"
                    /\ Len(said'[e]) = 3 => said'[e][2].val = "vnc"
                    /\ \A i \in DOMAIN told'[e] : told'[e][i].kind = ServerSends[i]
                    /\ ServerTold(e)'
  BY <1>0, <1>2 DEF ServerTalk
<1>3. /\ Len(said[e]) = n /\ got[e] = g
      /\ \A i \in DOMAIN said[e] : said[e][i].kind = ServerGets[i]
      /\ Len(said[e]) = 2 => said[e][2].val = "vnc"
      /\ \A i \in DOMAIN told[e] : told[e][i].kind = ServerSends[i]
      /\ ServerTold(e)
  BY DEF ServerTalk
<1> HIDE DEF e
<1>4. /\ Len(said'[e]) = n + 1
      /\ said'[e][n + 1] = m
      /\ \A i \in DOMAIN said[e] : said'[e][i] = said[e][i]
      /\ DOMAIN said'[e] = DOMAIN said[e] \cup {n + 1}
      /\ DOMAIN said[e] = 1 .. n
  BY <1>1, <1>3
<1>5. \A i \in DOMAIN said'[e] : said'[e][i].kind = ServerGets[i] BY <1>3, <1>4
<1>6. n + 1 = 2 => said'[e][2].val = IF next \in {"tie", "tied"} THEN "none" ELSE "vnc"
  BY <1>4
<1>7. n + 1 = 3 => said'[e][2].val = "vnc" BY <1>3, <1>4
<1>8. ServerTold(e)'
  <2>1. heard[e] > 1 => said'[e][2] = said[e][2] BY <1>1, <1>3, <1>4
  <2> QED BY <1>2, <1>3, <2>1 DEF ServerTold
<1> QED BY <1>2, <1>3, <1>4, <1>5, <1>6, <1>7, <1>8

\* A recv from the server that leads to the next call of run().
LEMMA ServerReceive ==
    ASSUME WireTypes, step \in [Sessions -> Steps], NEW s \in Sessions, ServerTalk(s),
           NEW kind, Receives(remote(s), kind) \/ ReceivesShort(remote(s)),
           NEW next \in Connected, GoTo(s, next), next \in Steps, UNCHANGED <<partyVars, said>>,
           step[s] \in Connected \ {"closer", "tie", "tied"}, next \notin {"tie", "tied"},
           NEW n \in Nat, NEW g \in Nat, ServerAt(step[s]) = {<<n, g>>},
           next # "closer" => <<n, g + 1>> \in ServerAt(next)
    PROVE  ServerTalk(s)'
<1> DEFINE e == remote(s)
<1>0. e \in Ends /\ step'[s] = next BY EndsOfSession, GoToStep
<1>1. UNCHANGED <<hup, told, heard, said>> BY DEF partyVars
<1> SUFFICES ASSUME e \notin hup, next # "closer"
             PROVE  /\ <<Len(said[e]), got'[e]>> \in ServerAt(next)
                    /\ \A i \in DOMAIN said[e] : said[e][i].kind = ServerGets[i]
                    /\ Len(said[e]) = 2 => said[e][2].val = "vnc"
                    /\ Len(said[e]) = 3 => said[e][2].val = "vnc"
                    /\ \A i \in DOMAIN told[e] : told[e][i].kind = ServerSends[i]
                    /\ ServerTold(e)'
  BY <1>0, <1>1 DEF ServerTalk
<1>2. /\ <<Len(said[e]), got[e]>> \in ServerAt(step[s])
      /\ \A i \in DOMAIN said[e] : said[e][i].kind = ServerGets[i]
      /\ Len(said[e]) = 2 => said[e][2].val = "vnc"
      /\ Len(said[e]) = 3 => said[e][2].val = "vnc"
      /\ \A i \in DOMAIN told[e] : told[e][i].kind = ServerSends[i]
      /\ ServerTold(e)
  BY DEF ServerTalk
<1>3. Len(said[e]) = n /\ got[e] = g BY <1>2
<1>4. got'[e] = got[e] + 1
  BY <1>0 DEF WireTypes, Receives, ReceivesShort
<1>5. ServerTold(e)' BY <1>1, <1>2 DEF ServerTold
<1> QED BY <1>2, <1>3, <1>4, <1>5

\* The messages exchanged with the server.
LEMMA ServerTalks ==
    ASSUME IInv, \A t \in Sessions : TalkInv(t), NEW s \in Sessions,
           \/ SendToServer(s) \/ RecvVersion(s, remote(s), "sversion", "agree")
           \/ RecvCount(s) \/ RecvTypes(s) \/ RecvChallenge(s)
    PROVE  \A t \in Sessions : TalkInv(t)'
<1> USE EndsOfSession
<1>0. WireTypes /\ step \in [Sessions -> Steps] /\ TalkInv(s) BY DEF IInv, TypeInv
<1>1. Connected \subseteq Steps BY DEF Steps, Connected
<1>2. ASSUME NEW next \in Connected, GoTo(s, next), step[s] \in Connected,
             \A x \in Ends \ {remote(s)} : Same(x), UNCHANGED <<up, hup>>,
             ServerTalk(s)'
      PROVE  \A t \in Sessions : TalkInv(t)'
  <2>1. step'[s] = next BY <1>0, <1>1, <1>2, GoToStep
  <2>2. /\ ClientSaid(next) = ClientSaid(step[s]) /\ ClientGot(next) = ClientGot(step[s])
        /\ step[s] \notin {"closec", "done"}
    BY <1>2, ClientWaits
  <2>3. ClientTalk(s)' BY <1>0, <1>2, <2>1, <2>2, ClientStays DEF TalkInv
  <2>4. UpInv(s)' /\ Silent(s)' BY <1>0, <1>2, <2>1 DEF TalkInv, UpInv, Silent
  <2>5. TalkInv(s)' BY <1>2, <2>3, <2>4 DEF TalkInv
  <2> QED BY <1>0, <1>1, <1>2, <2>5, OthersTalk
<1>3. ASSUME NEW from \in Connected \ {"closer", "tie", "tied"}, NEW m, NEW next \in Connected,
             SendMessage(s, from, remote(s), m, next),
             NEW n \in {0, 1, 2}, NEW g \in Nat,
             ServerAt(from) = {<<n, g>>}, <<n + 1, g>> \in ServerAt(next),
             m.kind = ServerGets[n + 1],
             n = 1 => m.val = IF next \in {"tie", "tied"} THEN "none" ELSE "vnc"
      PROVE  \A t \in Sessions : TalkInv(t)'
  <2>1. /\ step[s] = from /\ Send(remote(s), m) /\ GoTo(s, next) /\ UNCHANGED <<partyVars, got>>
    BY <1>3 DEF SendMessage
  <2>2. ServerTalk(s)' BY <1>0, <1>1, <1>3, <2>1, ServerSend DEF TalkInv
  <2>3. \A x \in Ends \ {remote(s)} : Same(x) BY <1>0, <2>1, SendSame
  <2> QED BY <1>2, <1>3, <2>1, <2>2, <2>3 DEF partyVars
<1>4. ASSUME NEW from \in Connected \ {"closer", "tie", "tied"}, step[s] = from,
             NEW kind, NEW next \in Connected \ {"tie", "tied"}, GoTo(s, next),
             Receives(remote(s), kind) \/ ReceivesShort(remote(s)), UNCHANGED <<partyVars, said>>,
             NEW n \in Nat, NEW g \in Nat, ServerAt(from) = {<<n, g>>},
             next # "closer" => <<n, g + 1>> \in ServerAt(next)
      PROVE  \A t \in Sessions : TalkInv(t)'
  <2>1. ServerTalk(s)' BY <1>0, <1>1, <1>4, ServerReceive DEF TalkInv
  <2>2. \A x \in Ends \ {remote(s)} : Same(x) BY <1>0, <1>4, ReceiveSame
  <2> QED BY <1>2, <1>4, <2>1, <2>2 DEF partyVars
<1>5. /\ {"sversion", "agree", "count", "types", "none", "vnc", "schallenge", "slock", "answer"}
             \subseteq Connected \ {"closer", "tie", "tied"}
      /\ {"closer", "tie"} \subseteq Connected
  BY DEF Connected, ServerSteps
<1>6. CASE SendToServer(s)
  <2>1. /\ Msg("version", TRUE).kind = ServerGets[0 + 1]
        /\ Msg("type", "none").kind = ServerGets[1 + 1] /\ Msg("type", "none").val = "none"
        /\ Msg("type", "vnc").kind = ServerGets[1 + 1] /\ Msg("type", "vnc").val = "vnc"
        /\ Msg("response", response[s]).kind = ServerGets[2 + 1]
    BY DEF Msg, ServerGets
  <2>2. /\ <<0 + 1, 1>> \in ServerAt("count") /\ <<1 + 1, 3>> \in ServerAt("tie")
        /\ <<1 + 1, 3>> \in ServerAt("schallenge") /\ <<2 + 1, 4>> \in ServerAt("tie")
        /\ ServerAt("agree") = {<<0, 1>>} /\ ServerAt("none") = {<<1, 3>>}
        /\ ServerAt("vnc") = {<<1, 3>>} /\ ServerAt("answer") = {<<2, 4>>}
    BY ServerTable
  <2>3. 1 \in Nat /\ 3 \in Nat /\ 4 \in Nat
    OBVIOUS
  <2>4. SendMessage(s, "agree", remote(s), Msg("version", TRUE), "count")
          => \A t \in Sessions : TalkInv(t)'
    <3>1. "agree" \in Connected \ {"closer", "tie", "tied"} /\ "count" \in Connected
      BY ONLY <1>5
    <3>2. 0 # 1 /\ 0 \in {0, 1, 2} OBVIOUS
    <3> QED BY ONLY <1>3, <3>1, <3>2, <2>1, <2>2, <2>3
  <2>5. SendMessage(s, "none", remote(s), Msg("type", "none"), "tie")
          => \A t \in Sessions : TalkInv(t)'
    BY ONLY <1>3, <1>5, <2>1, <2>2, <2>3
  <2>6. SendMessage(s, "vnc", remote(s), Msg("type", "vnc"), "schallenge")
          => \A t \in Sessions : TalkInv(t)'
    BY ONLY <1>3, <1>5, <2>1, <2>2, <2>3
  <2>7. SendMessage(s, "answer", remote(s), Msg("response", response[s]), "tie")
          => \A t \in Sessions : TalkInv(t)'
    BY ONLY <1>3, <1>5, <2>1, <2>2, <2>3
  <2> QED BY <1>6, <2>4, <2>5, <2>6, <2>7 DEF SendToServer
<1>7. ASSUME NEW from \in {"sversion", "count", "types", "schallenge"}, step[s] = from, NEW kind,
             NEW next \in Connected, GoTo(s, next),
             Receives(remote(s), kind) \/ ReceivesShort(remote(s)), UNCHANGED <<partyVars, said>>,
             \/ next = "closer"
             \/ <<from, next>> \in {<<"sversion", "agree">>, <<"count", "types">>, <<"types", "none">>,
                                    <<"types", "vnc">>, <<"schallenge", "slock">>}
      PROVE  \A t \in Sessions : TalkInv(t)'
  <2>1. next \notin {"tie", "tied"} /\ from \in Connected \ {"closer", "tie", "tied"}
    BY <1>5, <1>7
  <2>2. PICK n \in {0, 1, 2}, g \in {0, 1, 2, 3} :
            /\ ServerAt(from) = {<<n, g>>}
            /\ next # "closer" => <<n, g + 1>> \in ServerAt(next)
    <3>1. /\ <<0, 0 + 1>> \in ServerAt("agree") /\ <<1, 1 + 1>> \in ServerAt("types")
          /\ <<1, 2 + 1>> \in ServerAt("none") /\ <<1, 2 + 1>> \in ServerAt("vnc")
          /\ <<2, 3 + 1>> \in ServerAt("slock")
      BY ServerTable
    <3>2. CASE from = "sversion" BY <1>7, <3>1, <3>2, ServerTable
    <3>3. CASE from = "count" BY <1>7, <3>1, <3>3, ServerTable
    <3>4. CASE from = "types" BY <1>7, <3>1, <3>4, ServerTable
    <3>5. CASE from = "schallenge" BY <1>7, <3>1, <3>5, ServerTable
    <3> QED BY <1>7, <3>2, <3>3, <3>4, <3>5
  <2>3. n \in Nat /\ g \in Nat OBVIOUS
  <2> QED BY ONLY <1>4, <1>7, <2>1, <2>2, <2>3
<1>8. CASE RecvVersion(s, remote(s), "sversion", "agree")
  <2>1. PICK next \in {"agree", "closer"} : GoTo(s, next)
    BY <1>8 DEF RecvVersion, OnError, ServerSteps
  <2>2. /\ Receives(remote(s), "version") \/ ReceivesShort(remote(s))
        /\ UNCHANGED <<partyVars, said>> /\ step[s] = "sversion"
    BY <1>8 DEF RecvVersion
  <2> QED BY ONLY <1>5, <1>7, <2>1, <2>2
<1>9. CASE RecvCount(s)
  <2>1. /\ Receives(remote(s), "count") \/ ReceivesShort(remote(s))
        /\ UNCHANGED <<partyVars, said>> /\ step[s] = "count" /\ GoTo(s, "types")
    BY <1>9 DEF RecvCount
  <2> QED BY ONLY <1>5, <1>7, <2>1
<1>10. CASE RecvTypes(s)
  <2>1. PICK next \in {"none", "vnc", "closer"} : GoTo(s, next)
    <3>1. \A types : Choice(s, types) \in {"none", "vnc", "closer"} BY DEF Choice
    <3> QED BY <1>10, <3>1 DEF RecvTypes
  <2>2. /\ Receives(remote(s), "types") \/ ReceivesShort(remote(s))
        /\ UNCHANGED <<partyVars, said>> /\ step[s] = "types"
    BY <1>10 DEF RecvTypes
  <2> QED BY ONLY <1>5, <1>7, <2>1, <2>2
<1>11. CASE RecvChallenge(s)
  <2>1. /\ Receives(remote(s), "challenge") \/ ReceivesShort(remote(s))
        /\ UNCHANGED <<partyVars, said>> /\ step[s] = "schallenge" /\ GoTo(s, "slock")
    BY <1>11 DEF RecvChallenge
  <2> QED BY ONLY <1>5, <1>7, <2>1
<1> QED BY <1>6, <1>8, <1>9, <1>10, <1>11

\* The steps that send and receive nothing.
LEMMA QuietTalks ==
    ASSUME IInv, \A t \in Sessions : TalkInv(t), NEW s \in Sessions,
           \/ SendFails(s) \/ RecvFails(s) \/ LookUp(s) \/ Lock(s) \/ AnswerDes(s)
           \/ Resolve(s) \/ Socket(s) \/ SocketFails(s) \/ GiveUp(s) \/ Tie(s)
    PROVE  \A t \in Sessions : TalkInv(t)'
<1> USE EndsOfSession
<1>0. WireTypes /\ step \in [Sessions -> Steps] /\ TalkInv(s) BY DEF IInv, TypeInv
<1>1. /\ Connected \cup ClientSteps \cup ConnectSteps \cup {"closec"} \subseteq Steps
      /\ (ClientSteps \cup ConnectSteps) \cap (Connected \cup {"closec"}) = {}
      /\ "closec" \notin Connected
  BY DEF Steps, Connected, ServerSteps, ClientSteps, ConnectSteps
<1>2. UNCHANGED <<partyVars, said, got>>
  BY DEF SendFails, RecvFails, LookUp, RowKey, RowCompare, QueryReturns, QueryFails,
     Lock, LockQuery, LockAnswer, AnswerDes, Resolve, Socket, SocketFails, GiveUp, Tie
<1>3. UNCHANGED <<up, hup>> /\ \A x \in Ends : Same(x) BY <1>2 DEF partyVars, Same
<1>4. ASSUME NEW next \in ClientSteps \cup ConnectSteps \cup {"closec"}, GoTo(s, next),
             step[s] \in ClientSteps \cup ConnectSteps,
             \/ next = "closec"
             \/ /\ step[s] \notin {"closec", "done"}
                /\ ClientSaid(next) = ClientSaid(step[s]) /\ ClientGot(next) = ClientGot(step[s])
      PROVE  \A t \in Sessions : TalkInv(t)'
  <2>1. step'[s] = next BY <1>0, <1>1, <1>4, GoToStep
  <2>2. ClientTalk(s)' BY <1>0, <1>3, <1>4, <2>1, ClientStays DEF TalkInv
  <2>3. UpInv(s)' /\ ServerTalk(s)' /\ Silent(s)'
    BY <1>0, <1>1, <1>3, <1>4, <2>1, ServerAbsent DEF TalkInv
  <2>4. TalkInv(s)' BY <2>2, <2>3 DEF TalkInv
  <2> QED BY <1>0, <1>1, <1>3, <1>4, <2>4, OthersTalk
<1>5. ASSUME NEW next \in Connected, GoTo(s, next), step[s] \in Connected,
             \/ next = "closer"
             \/ /\ step[s] # "closer" /\ ServerAt(next) = ServerAt(step[s])
                /\ step[s] \in {"tie", "tied"} <=> next \in {"tie", "tied"}
      PROVE  \A t \in Sessions : TalkInv(t)'
  <2>1. step'[s] = next BY <1>0, <1>1, <1>5, GoToStep
  <2>2. /\ ClientSaid(next) = ClientSaid(step[s]) /\ ClientGot(next) = ClientGot(step[s])
        /\ step[s] \notin {"closec", "done"}
    BY <1>5, ClientWaits
  <2>3. ClientTalk(s)' BY <1>0, <1>3, <2>1, <2>2, ClientStays DEF TalkInv
  <2>4. UpInv(s)' /\ ServerTalk(s)' /\ Silent(s)'
    BY <1>0, <1>3, <1>5, <2>1, ServerStays DEF TalkInv
  <2>5. TalkInv(s)' BY <2>3, <2>4 DEF TalkInv
  <2> QED BY <1>0, <1>1, <1>3, <1>5, <2>5, OthersTalk
<1>6. CASE SendFails(s) \/ RecvFails(s)
  <2>1. GoTo(s, OnError(s)) BY <1>6 DEF SendFails, RecvFails
  <2>2. \/ step[s] \in ServerSteps /\ OnError(s) = "closer"
        \/ step[s] \in ClientSteps /\ OnError(s) = "closec"
    BY <1>6 DEF SendFails, RecvFails, OnError, ServerSteps, ClientSteps
  <2>3. ServerSteps \subseteq Connected /\ "closer" \in Connected
    BY DEF Connected, ServerSteps
  <2> QED BY <1>4, <1>5, <2>1, <2>2, <2>3
<1>7. ASSUME NEW next \in {"row", "des", "refuse", "resolve", "socket", "connect", "closec"}, GoTo(s, next),
             step[s] \in {"lock", "row", "des", "resolve", "socket"}
      PROVE  \A t \in Sessions : TalkInv(t)'
  <2>1. /\ next \in ClientSteps \cup ConnectSteps \cup {"closec"}
        /\ step[s] \in ClientSteps \cup ConnectSteps
    BY <1>7 DEF ClientSteps, ConnectSteps
  <2>2. /\ step[s] \notin {"closec", "done"}
        /\ next # "closec" => /\ ClientSaid(next) = ClientSaid(step[s])
                              /\ ClientGot(next) = ClientGot(step[s])
    BY <1>7, ClientWaits
  <2> QED BY ONLY <1>4, <1>7, <2>1, <2>2
<1>8. CASE LookUp(s) \/ LockQuery(s)
  BY <1>7, <1>8 DEF LookUp, LockQuery, RowKey, RowCompare, QueryReturns, QueryFails
<1>9. CASE Resolve(s) \/ Socket(s) \/ GiveUp(s)
  BY <1>7, <1>9 DEF Resolve, Socket, GiveUp
<1>10. CASE SocketFails(s)
  <2>1. GoTo(s, "socket") BY <1>0, <1>10 DEF SocketFails, GoTo
  <2> QED BY <1>7, <1>10, <2>1 DEF SocketFails
<1>11. CASE LockAnswer(s) \/ AnswerDes(s) \/ Tie(s)
  <2>1. PICK next \in {"sdes", "answer", "tied"} :
           /\ GoTo(s, next)
           /\ <<step[s], next>> \in {<<"slock", "sdes">>, <<"sdes", "answer">>, <<"tie", "tied">>}
    BY <1>11 DEF LockAnswer, AnswerDes, Tie
  <2>2. /\ {"slock", "sdes", "answer", "tie", "tied"} \subseteq Connected
        /\ ServerAt(next) = ServerAt(step[s])
        /\ step[s] \in {"tie", "tied"} <=> next \in {"tie", "tied"}
    BY <2>1, ServerTable DEF Connected, ServerSteps
  <2> QED BY <1>5, <2>1, <2>2
<1> QED BY <1>6, <1>8, <1>9, <1>10, <1>11 DEF Lock

\* close() forgets what passed on the connection.
LEMMA CloseSame ==
    ASSUME WireTypes, NEW e \in Ends, Close(e)
    PROVE  /\ \A x \in Ends \ {e} : Same(x)
           /\ said'[e] = <<>> /\ told'[e] = <<>> /\ heard'[e] = 0 /\ got'[e] = 0
BY DEF WireTypes, Close, Same

\* Connections that come and go.
LEMMA ConnectionTalks ==
    ASSUME IInv, \A t \in Sessions : TalkInv(t), NEW s \in Sessions,
           Accept(s) \/ ConnectSucceeds(s) \/ ConnectFails(s) \/ CloseRemote(s) \/ CloseClient(s)
    PROVE  \A t \in Sessions : TalkInv(t)'
<1> USE EndsOfSession
<1>0. WireTypes /\ step \in [Sessions -> Steps] /\ TalkInv(s) BY DEF IInv, TypeInv
<1>1. /\ {"greet", "sversion", "socket", "closec", "done"} \subseteq Steps
      /\ {"idle", "greet", "socket", "connect", "closec", "done"} \cap Connected = {}
      /\ "sversion" \in Connected /\ "closer" \in Connected
  BY DEF Steps, Connected, ServerSteps, ClientSteps, ConnectSteps
<1>2. CASE Accept(s)
  <2>1. /\ step[s] = "idle" /\ GoTo(s, "greet") /\ up' = up \cup {clnt_(s)} /\ UNCHANGED hup
        /\ \A x \in Ends : Same(x)
    BY <1>2 DEF Accept, Same
  <2>2. step'[s] = "greet" BY <1>0, <1>1, <2>1, GoToStep
  <2>3. /\ ClientSaid("greet") = ClientSaid("idle") /\ ClientGot("greet") = ClientGot("idle")
    BY DEF ClientSaid, ClientGot
  <2>4. ClientTalk(s)' BY <1>0, <2>1, <2>2, <2>3, ClientStays DEF TalkInv
  <2>5. UpInv(s)' /\ ServerTalk(s)' /\ Silent(s)'
    BY <1>0, <1>1, <2>1, <2>2, ServerAbsent DEF TalkInv
  <2>6. TalkInv(s)' BY <2>4, <2>5 DEF TalkInv
  <2>7. \A t \in Sessions : remote(t) \in up' <=> remote(t) \in up BY <2>1
  <2> QED BY <1>0, <1>1, <2>1, <2>6, <2>7, OthersTalk
<1>3. CASE ConnectSucceeds(s)
  <2>1. /\ step[s] = "connect" /\ GoTo(s, "sversion") /\ up' = up \cup {remote(s)} /\ UNCHANGED hup
        /\ \A x \in Ends : Same(x)
    BY <1>3 DEF ConnectSucceeds, Same
  <2>2. step'[s] = "sversion" BY <1>0, <1>1, <2>1, GoToStep
  <2>3. /\ ClientSaid("sversion") = ClientSaid("connect")
        /\ ClientGot("sversion") = ClientGot("connect")
    BY <1>1, ClientWaits
  <2>4. ClientTalk(s)' BY <1>0, <2>1, <2>2, <2>3, ClientStays DEF TalkInv
  <2>5. UpInv(s)' /\ Silent(s)' BY <1>1, <2>1, <2>2 DEF UpInv, Silent
  <2>6. ServerTalk(s)'
    <3>1. /\ said'[remote(s)] = <<>> /\ told'[remote(s)] = <<>>
          /\ heard'[remote(s)] = 0 /\ got'[remote(s)] = 0
      BY <1>0, <1>1, <2>1 DEF TalkInv, Silent, Same
    <3>2. <<0, 0>> \in ServerAt("sversion") BY ServerTable
    <3> QED BY <2>2, <3>1, <3>2 DEF ServerTalk, ServerTold
  <2>7. TalkInv(s)' BY <2>4, <2>5, <2>6 DEF TalkInv
  <2>8. \A t \in Sessions \ {s} : remote(t) \in up' <=> remote(t) \in up BY <2>1
  <2> QED BY <1>0, <1>1, <2>1, <2>7, <2>8, OthersTalk
<1>4. CASE ConnectFails(s)
  <2>1. /\ step[s] = "connect" /\ GoTo(s, "socket") /\ UNCHANGED <<up, hup>> /\ Close(remote(s))
    BY <1>4 DEF ConnectFails
  <2>2. step'[s] = "socket" BY <1>0, <1>1, <2>1, GoToStep
  <2>3. /\ \A x \in Ends \ {remote(s)} : Same(x)
        /\ said'[remote(s)] = <<>> /\ told'[remote(s)] = <<>>
        /\ heard'[remote(s)] = 0 /\ got'[remote(s)] = 0
    BY <1>0, <2>1, CloseSame
  <2>4. /\ ClientSaid("socket") = ClientSaid("connect")
        /\ ClientGot("socket") = ClientGot("connect")
    BY ClientWaits
  <2>5. ClientTalk(s)' BY <1>0, <2>1, <2>2, <2>3, <2>4, ClientStays DEF TalkInv
  <2>6. UpInv(s)' /\ Silent(s)' /\ ServerTalk(s)'
    BY <1>0, <1>1, <2>1, <2>2, <2>3 DEF TalkInv, UpInv, Silent, ServerTalk
  <2>7. TalkInv(s)' BY <2>5, <2>6 DEF TalkInv
  <2> QED BY <1>0, <1>1, <2>1, <2>3, <2>7, OthersTalk
<1>5. CASE CloseRemote(s)
  <2>1. /\ step[s] = "closer" /\ GoTo(s, "closec") /\ UNCHANGED <<up, hup>> /\ Close(remote(s))
    BY <1>5 DEF CloseRemote
  <2>2. step'[s] = "closec" BY <1>0, <1>1, <2>1, GoToStep
  <2>3. /\ \A x \in Ends \ {remote(s)} : Same(x)
        /\ said'[remote(s)] = <<>> /\ told'[remote(s)] = <<>>
        /\ heard'[remote(s)] = 0 /\ got'[remote(s)] = 0
    BY <1>0, <2>1, CloseSame
  <2>4. TalkInv(s)'
    BY <1>1, <2>2, <2>3 DEF TalkInv, UpInv, Silent, ServerTalk, ClientTalk
  <2> QED BY <1>0, <1>1, <2>1, <2>3, <2>4, OthersTalk
<1>6. CASE CloseClient(s)
  <2>1. /\ step[s] = "closec" /\ GoTo(s, "done") /\ up' = up \ {clnt_(s), remote(s)}
        /\ UNCHANGED hup /\ Close(clnt_(s))
    BY <1>6 DEF CloseClient
  <2>2. step'[s] = "done" BY <1>0, <1>1, <2>1, GoToStep
  <2>3. \A x \in Ends \ {clnt_(s)} : Same(x) BY <1>0, <2>1, CloseSame
  <2>4. Silent(s)' BY <1>0, <1>1, <2>1, <2>3 DEF TalkInv, Silent, Same
  <2>5. TalkInv(s)'
    BY <1>1, <2>1, <2>2, <2>4 DEF TalkInv, UpInv, ServerTalk, ClientTalk
  <2>6. \A t \in Sessions \ {s} : remote(t) \in up' <=> remote(t) \in up BY <2>1
  <2> QED BY <1>0, <1>1, <2>1, <2>3, <2>5, <2>6, OthersTalk
<1> QED BY <1>2, <1>3, <1>4, <1>5, <1>6

\* A party that is there has an operator that holds its socket.
LEMMA PresentHeld ==
    ASSUME FdInv, \A t \in Sessions : TalkInv(t), NEW s \in Sessions
    PROVE  Present(remote(s)) => step[s] \in Connected
<1> USE EndsOfSession
<1>1. Present(remote(s)) => remote(s) \in up /\ remote(s) \in Held
  BY DEF Present, FdInv, EP!IsOpen, EP!Fds, Fds
<1>2. Present(remote(s)) => HasRemote(s) BY <1>1, HeldEnds
<1> QED BY <1>1, <1>2 DEF TalkInv, UpInv, HasRemote, Connected

\* The server's first message.
LEMMA GreetTalks ==
    ASSUME IInv, FdInv, \A t \in Sessions : TalkInv(t), NEW e \in Ends, Greet(e)
    PROVE  \A t \in Sessions : TalkInv(t)'
<1> USE EndsOfSession
<1>0. WireTypes /\ step \in [Sessions -> Steps] BY DEF IInv, TypeInv
<1>1. PICK s \in Sessions : e = remote(s) BY DEF Greet, Ends, Sides, remote
<1>2. /\ Present(e) /\ told[e] = <<>> /\ \E ok \in Right(e) : told'[e] = <<Msg("version", ok)>>
      /\ UNCHANGED <<up, hup, step>> /\ \A x \in Ends \ {e} : Same(x)
      /\ said'[e] = said[e] /\ heard'[e] = heard[e] /\ got'[e] = got[e]
  BY <1>0 DEF Greet, WireTypes, Same
<1>3. step[s] \in Connected BY <1>1, <1>2, PresentHeld
<1>4. UpInv(s)' /\ Silent(s)' BY <1>2, <1>3 DEF TalkInv, UpInv, Silent
<1>5. ClientTalk(s)'
  BY <1>1, <1>2, <1>3, ClientStays, ClientWaits DEF TalkInv
<1>6. ServerTalk(s)'
  <2>1. Len(told[e]) = 0 /\ Len(told'[e]) = 1 /\ told'[e][1].kind = ServerSends[1]
        /\ DOMAIN told'[e] = {1}
    BY <1>2 DEF Msg, ServerSends
  <2>2. heard[e] \in Nat BY <1>0 DEF WireTypes
  <2>3. ServerTold(e) => ServerTold(e)' BY <1>2, <2>1, <2>2 DEF ServerTold
  <2> QED BY <1>1, <1>2, <2>1, <2>3 DEF TalkInv, ServerTalk
<1>7. ASSUME NEW t \in Sessions \ {s} PROVE TalkInv(t)'
  BY <1>1, <1>2, TalkStays
<1> QED BY <1>4, <1>5, <1>6, <1>7 DEF TalkInv

\* The elements of a concatenation.
LEMMA ConcatElements ==
    ASSUME NEW ms \in Seq(Messages), NEW r \in Seq(Messages)
    PROVE  /\ Len(ms \o r) = Len(ms) + Len(r)
           /\ DOMAIN (ms \o r) = DOMAIN ms \cup (Len(ms) + 1 .. Len(ms) + Len(r))
           /\ \A i \in DOMAIN ms : (ms \o r)[i] = ms[i]
           /\ \A i \in 1 .. Len(r) : (ms \o r)[Len(ms) + i] = r[i]
OBVIOUS

\* A message sent is the last one of those sent.
LEMMA AppendElement ==
    ASSUME NEW ms \in Seq(Messages), NEW r \in Seq(Messages), Len(r) = 1
    PROVE  /\ Len(ms \o r) = Len(ms) + 1
           /\ (ms \o r)[Len(ms) + 1] = r[1]
           /\ \A i \in DOMAIN ms : (ms \o r)[i] = ms[i]
           /\ DOMAIN (ms \o r) = DOMAIN ms \cup {Len(ms) + 1}
<1>1. 1 \in 1 .. Len(r) /\ Len(ms) + 1 .. Len(ms) + 1 = {Len(ms) + 1} OBVIOUS
<1> QED BY <1>1, ConcatElements

\* Every message a client reads is answered by the next of ClientSends.
LEMMA ClientReplyKind ==
    ASSUME NEW s \in Sessions, NEW m, NEW i \in {1, 2, 3}, m.kind = ClientGets[i],
           NEW r \in Replies(clnt_(s), m)
    PROVE  Len(r) = 1 /\ DOMAIN r = {1} /\ r[1].kind = ClientSends[i]
<1>1. r \in ClientReplies(clnt_(s), m) BY DEF Replies, clnt_
<1>2. \A kind, val : Msg(kind, val).kind = kind BY DEF Msg
<1>3. CASE i = 1
  <2>1. m.kind = "version" BY <1>3 DEF ClientGets
  <2>2. \E val : r = <<Msg("version", val)>> BY <1>1, <2>1 DEF ClientReplies
  <2> QED BY <1>2, <1>3, <2>2 DEF ClientSends
<1>4. CASE i = 2
  <2>1. m.kind = "types" BY <1>4 DEF ClientGets
  <2>2. r = <<Msg("type", "vnc")>> BY <1>1, <2>1 DEF ClientReplies
  <2> QED BY <1>2, <1>4, <2>2 DEF ClientSends
<1>5. CASE i = 3
  <2>1. m.kind = "challenge" BY <1>5 DEF ClientGets
  <2>2. \E val : r = <<Msg("response", val)>> BY <1>1, <2>1 DEF ClientReplies
  <2> QED BY <1>2, <1>5, <2>2 DEF ClientSends
<1> QED BY <1>3, <1>4, <1>5

\* A server answers the version with two messages, the choice of "vnc" with
\* one, and nothing else.
LEMMA ServerReplyKind ==
    ASSUME NEW s \in Sessions, NEW m \in Messages, NEW r \in Replies(remote(s), m)
    PROVE  /\ m.kind = "version" => /\ Len(r) = 2 /\ DOMAIN r = {1, 2}
                                    /\ r[1].kind = "count" /\ r[2].kind = "types"
           /\ m.kind = "type" /\ m.val = "vnc" => Len(r) = 1 /\ DOMAIN r = {1} /\ r[1].kind = "challenge"
           /\ m.kind = "type" /\ m.val # "vnc" => r = <<>>
           /\ m.kind = "response" => r = <<>>
<1>1. r \in ServerReplies(remote(s), m) BY DEF Replies, remote
<1>2. \A kind, val : Msg(kind, val).kind = kind /\ Msg(kind, val).val = val BY DEF Msg
<1>3. CASE m.kind = "version"
  <2>1. \E n, types : r = <<Msg("count", n), Msg("types", types)>>
    BY <1>1, <1>3 DEF ServerReplies
  <2> QED BY <1>2, <1>3, <2>1
<1>4. CASE m.kind = "type" /\ m.val = "vnc"
  <2>1. m = Msg("type", "vnc")
    <3>1. m = [kind |-> m.kind, val |-> m.val] BY DEF Messages
    <3> QED BY <1>4, <3>1 DEF Msg
  <2>2. r = <<Msg("challenge", remote(s))>> BY <1>1, <1>2, <2>1 DEF ServerReplies
  <2> QED BY <1>2, <1>4, <2>2
<1>5. CASE m.kind # "version" /\ ~(m.kind = "type" /\ m.val = "vnc")
  <2>1. m # Msg("type", "vnc") BY <1>2, <1>5
  <2>2. r = <<>> BY <1>1, <1>5, <2>1 DEF ServerReplies
  <2> QED BY <1>5, <2>2
<1> QED BY <1>3, <1>4, <1>5

\* What Reply() changes.
LEMMA ReplyStep ==
    ASSUME IInv, NEW e \in Ends, Reply(e)
    PROVE  /\ said[e] \in Seq(Messages) /\ told[e] \in Seq(Messages) /\ heard[e] \in Nat
           /\ got[e] \in Nat /\ got[e] <= Len(told[e])
           /\ heard[e] < Len(said[e]) /\ heard[e] + 1 \in DOMAIN said[e]
           /\ said[e][heard[e] + 1] \in Messages
           /\ heard'[e] = heard[e] + 1 /\ said'[e] = said[e] /\ got'[e] = got[e]
           /\ \E r \in Replies(e, said[e][heard[e] + 1]) :
                 r \in Seq(Messages) /\ told'[e] = told[e] \o r
           /\ Present(e) /\ e \notin hup
           /\ \A x \in Ends \ {e} : Same(x)
           /\ UNCHANGED <<up, hup, step>>
<1>0. WireTypes BY DEF IInv, TypeInv
<1>1. said[e] \in Seq(Messages) /\ told[e] \in Seq(Messages) /\ heard[e] \in Nat /\ got[e] \in Nat
      /\ got[e] <= Len(told[e])
  BY <1>0 DEF WireTypes
<1>2. /\ heard[e] < Len(said[e]) /\ heard[e] + 1 \in DOMAIN said[e]
      /\ said[e][heard[e] + 1] \in Messages
  BY <1>1 DEF Reply
<1>3. /\ heard'[e] = heard[e] + 1 /\ said'[e] = said[e] /\ got'[e] = got[e]
      /\ \A x \in Ends \ {e} : Same(x)
  BY <1>0 DEF Reply, WireTypes, Same
<1>4. \E r \in Replies(e, said[e][heard[e] + 1]) :
         r \in Seq(Messages) /\ told'[e] = told[e] \o r
  <2>1. PICK r \in Replies(e, said[e][heard[e] + 1]) : told' = [told EXCEPT ![e] = @ \o r]
    BY DEF Reply
  <2>2. r \in Seq(Messages) BY <1>2, RepliesAreMessages
  <2>3. told'[e] = told[e] \o r BY <1>0, <2>1 DEF WireTypes
  <2> QED BY <2>2, <2>3
<1> QED BY <1>1, <1>2, <1>3, <1>4 DEF Reply, Present

\* A client's answer.
LEMMA ClientReplyTalks ==
    ASSUME IInv, \A t \in Sessions : TalkInv(t), NEW s \in Sessions, Reply(clnt_(s))
    PROVE  \A t \in Sessions : TalkInv(t)'
<1> USE EndsOfSession
<1> DEFINE e == clnt_(s)
<1>1. /\ said[e] \in Seq(Messages) /\ told[e] \in Seq(Messages) /\ heard[e] \in Nat /\ got[e] \in Nat
      /\ got[e] <= Len(told[e])
      /\ heard[e] < Len(said[e]) /\ heard[e] + 1 \in DOMAIN said[e]
      /\ heard'[e] = heard[e] + 1 /\ said'[e] = said[e] /\ got'[e] = got[e]
      /\ e \notin hup /\ UNCHANGED <<up, hup, step>>
      /\ \A x \in Ends \ {e} : Same(x)
  BY ReplyStep
<1>2. PICK r \in Replies(e, said[e][heard[e] + 1]) : r \in Seq(Messages) /\ told'[e] = told[e] \o r
  BY ReplyStep
<1>3. ClientTalk(s)'
  <2> SUFFICES ASSUME step[s] \notin {"closec", "done"} PROVE ClientTalk(s)'
    BY <1>1 DEF ClientTalk
  <2>1. /\ Len(said[e]) = ClientSaid(step[s])
        /\ \A i \in DOMAIN said[e] : said[e][i].kind = ClientGets[i]
        /\ Len(told[e]) = heard[e]
        /\ \A i \in DOMAIN told[e] : told[e][i].kind = ClientSends[i]
        /\ got[e] <= ClientGot(step[s])
        /\ got[e] < ClientGot(step[s]) => e \in hup /\ got[e] = Len(told[e])
    BY DEF TalkInv, ClientTalk
  <2>2. ClientSaid(step[s]) \in {0, 1, 2, 3} BY DEF ClientSaid
  <2>3. heard[e] + 1 \in {1, 2, 3} BY <1>1, <2>1, <2>2
  <2>4. said[e][heard[e] + 1].kind = ClientGets[heard[e] + 1] BY <1>1, <2>1
  <2>5. Len(r) = 1 /\ r[1].kind = ClientSends[heard[e] + 1]
    BY ONLY s \in Sessions, <1>2, <2>3, <2>4, ClientReplyKind
  <2> HIDE DEF e
  <2>6. /\ Len(told'[e]) = Len(told[e]) + 1
        /\ told'[e][Len(told[e]) + 1] = r[1]
        /\ \A i \in DOMAIN told[e] : told'[e][i] = told[e][i]
        /\ DOMAIN told'[e] = DOMAIN told[e] \cup {Len(told[e]) + 1}
    BY ONLY <1>1, <1>2, <2>5, AppendElement
  <2>7. \A i \in DOMAIN told'[e] : told'[e][i].kind = ClientSends[i]
    BY <2>1, <2>5, <2>6
  <2>8. /\ Len(told'[e]) = heard'[e]
        /\ got'[e] <= ClientGot(step'[s])
        /\ ~(got'[e] < ClientGot(step'[s]))
    BY <1>1, <2>1, <2>6
  <2> QED BY <1>1, <2>1, <2>7, <2>8 DEF ClientTalk, e
<1>4. TalkInv(s)'
  <2>1. /\ Same(remote(s)) /\ step'[s] = step[s] /\ UNCHANGED <<up, hup>> BY <1>1
  <2>2. UpInv(s)' /\ Silent(s)' BY <2>1 DEF TalkInv, UpInv, Silent, Same
  <2>3. ServerTalk(s)'
    <3>1. CASE step[s] \in Connected \ {"closer"} BY <2>1, <3>1, ServerStays DEF TalkInv
    <3>2. CASE step[s] \notin Connected \ {"closer"} BY <2>1, <3>2 DEF ServerTalk
    <3> QED BY <3>1, <3>2
  <2> QED BY <1>3, <2>2, <2>3 DEF TalkInv
<1>5. ASSUME NEW t \in Sessions \ {s} PROVE TalkInv(t)'
  <2>1. Same(clnt_(t)) /\ Same(remote(t)) BY <1>1
  <2> QED BY <1>1, <2>1, TalkStays
<1> QED BY <1>4, <1>5

\* What the server of a session has been sent and has sent, when it replies.
LEMMA ServerReplyTold ==
    ASSUME IInv, NEW s \in Sessions, ServerTalk(s), Reply(remote(s)),
           step[s] \in Connected \ {"closer"}
    PROVE  /\ \A i \in DOMAIN told'[remote(s)] : told'[remote(s)][i].kind = ServerSends[i]
           /\ ServerTold(remote(s))'
<1> USE EndsOfSession
<1> DEFINE e == remote(s)
           h == heard[remote(s)]
           n == Len(told[remote(s)])
<1>1. /\ said[e] \in Seq(Messages) /\ told[e] \in Seq(Messages) /\ h \in Nat
      /\ got[e] \in Nat /\ got[e] <= n /\ n \in Nat
      /\ h < Len(said[e]) /\ h + 1 \in DOMAIN said[e]
      /\ said[e][h + 1] \in Messages
      /\ heard'[e] = h + 1 /\ said'[e] = said[e]
      /\ e \notin hup
  BY ReplyStep
<1>2. PICK r \in Replies(e, said[e][h + 1]) : r \in Seq(Messages) /\ told'[e] = told[e] \o r
  BY ReplyStep
<1>3. /\ <<Len(said[e]), got[e]>> \in ServerAt(step[s])
      /\ \A i \in DOMAIN said[e] : said[e][i].kind = ServerGets[i]
      /\ Len(said[e]) = 3 => said[e][2].val = "vnc"
      /\ \A i \in DOMAIN told[e] : told[e][i].kind = ServerSends[i]
      /\ h = 0 => n <= 1
      /\ h = 1 => n = 3
      /\ h > 1 => n = IF said[e][2].val = "vnc" THEN 4 ELSE 3
  BY <1>1 DEF ServerTalk, ServerTold
<1>4. Len(said[e]) \in {0, 1, 2, 3} /\ (Len(said[e]) > 0 => got[e] >= 1)
  <2>1. \A pair \in ServerAt(step[s]) : pair[1] \in {0, 1, 2, 3} /\ (pair[1] > 0 => pair[2] >= 1)
    <3>1. step[s] \in {"sversion", "agree", "count", "types", "none", "vnc", "schallenge", "slock",
                      "sdes", "answer", "tie", "tied"}
      BY DEF Connected, ServerSteps
    <3> QED BY ONLY <3>1, ServerTable
  <2> QED BY ONLY <1>3, <2>1
<1>5. h \in {0, 1, 2} BY <1>1, <1>4
<1>6. /\ ServerGets[1] = "version" /\ ServerGets[2] = "type" /\ ServerGets[3] = "response"
      /\ ServerSends[2] = "count" /\ ServerSends[3] = "types" /\ ServerSends[4] = "challenge"
  BY DEF ServerGets, ServerSends
<1>7. said[e][h + 1].kind = ServerGets[h + 1] BY <1>1, <1>3
<1>8. /\ said[e][h + 1].kind = "version" =>
             Len(r) = 2 /\ DOMAIN r = {1, 2} /\ r[1].kind = "count" /\ r[2].kind = "types"
      /\ said[e][h + 1].kind = "type" /\ said[e][h + 1].val = "vnc" =>
             Len(r) = 1 /\ DOMAIN r = {1} /\ r[1].kind = "challenge"
      /\ said[e][h + 1].kind = "type" /\ said[e][h + 1].val # "vnc" => r = <<>>
      /\ said[e][h + 1].kind = "response" => r = <<>>
  BY ONLY s \in Sessions, <1>1, <1>2, ServerReplyKind
<1>9. /\ Len(told'[e]) = n + Len(r)
      /\ DOMAIN told'[e] = DOMAIN told[e] \cup (n + 1 .. n + Len(r))
      /\ \A i \in DOMAIN told[e] : told'[e][i] = told[e][i]
      /\ \A i \in 1 .. Len(r) : told'[e][n + i] = r[i]
      /\ DOMAIN told[e] = 1 .. n
  BY <1>1, <1>2, ConcatElements
<1>10. SUFFICES /\ \A i \in DOMAIN told'[e] : told'[e][i].kind = ServerSends[i]
                /\ h + 1 = 1 => Len(told'[e]) = 3
                /\ h + 1 > 1 => Len(told'[e]) = IF said[e][2].val = "vnc" THEN 4 ELSE 3
  BY <1>1 DEF ServerTold
<1> HIDE DEF e, h, n
<1>11. CASE h = 0
  <2>1. n = 1 BY <1>1, <1>3, <1>4, <1>11
  <2>2. Len(r) = 2 /\ r[1].kind = "count" /\ r[2].kind = "types"
    BY <1>6, <1>7, <1>8, <1>11
  <2>3. DOMAIN told'[e] = DOMAIN told[e] \cup {2, 3} /\ Len(told'[e]) = 3
    BY <1>9, <2>1, <2>2
  <2>4. told'[e][2] = r[1] /\ told'[e][3] = r[2]
    <3>1. 1 \in 1 .. Len(r) /\ 2 \in 1 .. Len(r) /\ n + 1 = 2 /\ n + 2 = 3 BY <2>1, <2>2
    <3> QED BY <1>9, <3>1
  <2> QED BY <1>3, <1>6, <1>9, <1>11, <2>2, <2>3, <2>4
<1>12. CASE h = 1 /\ said[e][2].val = "vnc"
  <2>1. n = 3 BY <1>3, <1>12
  <2>2. Len(r) = 1 /\ r[1].kind = "challenge" BY <1>6, <1>7, <1>8, <1>12
  <2>3. DOMAIN told'[e] = DOMAIN told[e] \cup {4} /\ Len(told'[e]) = 4 BY <1>9, <2>1, <2>2
  <2>4. told'[e][4] = r[1]
    <3>1. 1 \in 1 .. Len(r) /\ n + 1 = 4 BY <2>1, <2>2
    <3> QED BY <1>9, <3>1
  <2> QED BY <1>3, <1>6, <1>9, <1>12, <2>2, <2>3, <2>4
<1>13. CASE (h = 1 /\ said[e][2].val # "vnc") \/ h = 2
  <2>1. r = <<>> BY <1>6, <1>7, <1>8, <1>13
  <2>2. told'[e] = told[e] BY <1>1, <1>2, <2>1
  <2>3. n = IF said[e][2].val = "vnc" THEN 4 ELSE 3 BY <1>3, <1>13
  <2> QED BY <1>3, <1>13, <2>2, <2>3 DEF n, e
<1> QED BY <1>5, <1>11, <1>12, <1>13

\* A server that answers has been asked: its next message is the one expected.
LEMMA ServerReplyTalks ==
    ASSUME IInv, FdInv, \A t \in Sessions : TalkInv(t), NEW s \in Sessions, Reply(remote(s))
    PROVE  \A t \in Sessions : TalkInv(t)'
<1> USE EndsOfSession
<1>1. /\ said'[remote(s)] = said[remote(s)] /\ got'[remote(s)] = got[remote(s)]
      /\ Present(remote(s)) /\ UNCHANGED <<up, hup, step>>
      /\ \A x \in Ends \ {remote(s)} : Same(x)
  BY ReplyStep
<1>2. step[s] \in Connected BY <1>1, PresentHeld
<1>3. UpInv(s)' /\ Silent(s)' BY <1>1, <1>2 DEF TalkInv, UpInv, Silent
<1>4. ClientTalk(s)' BY <1>1, <1>2, ClientStays, ClientWaits DEF TalkInv
<1>5. ServerTalk(s)'
  <2>1. CASE step[s] \in Connected \ {"closer"}
    <3>1. /\ \A i \in DOMAIN told'[remote(s)] : told'[remote(s)][i].kind = ServerSends[i]
          /\ ServerTold(remote(s))'
      BY <2>1, ServerReplyTold DEF TalkInv
    <3> QED BY <1>1, <3>1 DEF TalkInv, ServerTalk
  <2>2. CASE step[s] \notin Connected \ {"closer"} BY <1>1, <2>2 DEF ServerTalk
  <2> QED BY <2>1, <2>2
<1>6. ASSUME NEW t \in Sessions \ {s} PROVE TalkInv(t)'
  BY <1>1, TalkStays
<1> QED BY <1>3, <1>4, <1>5, <1>6 DEF TalkInv

-------------------------------------------------------------------------------
(* Messages: the invariant.                                                *)

\* Every step keeps both dialogues of every session in step.
LEMMA TalkStep ==
    ASSUME IInv, FdInv, \A t \in Sessions : TalkInv(t), [Next]_vars
    PROVE  \A t \in Sessions : TalkInv(t)'
<1> USE EndsOfSession
<1>1. ASSUME UNCHANGED <<step, up, said, told, heard, got>>, hup \subseteq hup'
      PROVE  \A t \in Sessions : TalkInv(t)'
  BY <1>1, TalkStays DEF Same
<1>2. CASE UNCHANGED vars
  BY <1>1, <1>2 DEF vars, partyVars
<1>3. ASSUME NEW s \in Sessions, Accept(s) \/ Operator(s) \/ Lock(s)
      PROVE  \A t \in Sessions : TalkInv(t)'
  BY <1>3, ClientTalks, ServerTalks, QuietTalks, ConnectionTalks DEF Operator, ConnectTo
<1>4. ASSUME NEW e \in Ends, Reply(e) PROVE \A t \in Sessions : TalkInv(t)'
  <2>1. \E s \in Sessions : e = clnt_(s) \/ e = remote(s) BY DEF Ends, Sides, clnt_, remote
  <2> QED BY <1>4, <2>1, ClientReplyTalks, ServerReplyTalks
<1>5. ASSUME NEW e \in Ends, Hangup(e) PROVE \A t \in Sessions : TalkInv(t)'
  BY <1>1, <1>5 DEF Hangup
<1>6. ASSUME NEW k \in Edited, EditRoute(k) PROVE \A t \in Sessions : TalkInv(t)'
  BY <1>1, <1>6 DEF EditRoute, partyVars
<1> QED BY <1>2, <1>3, <1>4, <1>5, <1>6, GreetTalks DEF Next

\* Nobody has said anything initially.
LEMMA TalkInit == Init => \A s \in Sessions : TalkInv(s)
<1> SUFFICES ASSUME Init, NEW s \in Sessions PROVE TalkInv(s)
  OBVIOUS
<1>1. /\ step[s] = "idle" /\ up = {} /\ "idle" \notin Connected
      /\ \A e \in {clnt_(s), remote(s)} :
             said[e] = <<>> /\ told[e] = <<>> /\ heard[e] = 0 /\ got[e] = 0
  BY EndsOfSession DEF Init, Connected, ServerSteps
<1>2. ClientSaid("idle") = 0 /\ ClientGot("idle") = 0 BY DEF ClientSaid, ClientGot
<1> QED BY <1>1, <1>2 DEF TalkInv, UpInv, ClientTalk, ServerTalk, Silent

\* The dialogues stay in step, whatever the parties do.
LEMMA TalkInvariant == Spec => [](IInv /\ FdInv /\ \A s \in Sessions : TalkInv(s))
<1> DEFINE J == IInv /\ FdInv /\ \A s \in Sessions : TalkInv(s)
<1>1. Init => J BY InitInv, FdInit, TalkInit
<1>2. J /\ [Next]_vars => J' BY StepInv, FdStep, TalkStep
<1> QED BY <1>1, <1>2, PTL DEF Spec

\* When the two sides are tied, the client waits for a SecurityResult, the
\* server's next bytes are its SecurityResult, and nothing is left unread.
THEOREM TiedInSync == Spec => []InSync
<1>1. IInv /\ (\A s \in Sessions : TalkInv(s)) => InSync
  <2> SUFFICES ASSUME IInv, \A t \in Sessions : TalkInv(t), NEW s \in Sessions,
                      step[s] = "tied", clnt_(s) \notin hup, remote(s) \notin hup
               PROVE  /\ got[clnt_(s)] = Len(told[clnt_(s)])
                      /\ got[remote(s)] = Len(told[remote(s)])
                      /\ said[clnt_(s)][Len(said[clnt_(s)])].kind = "challenge"
                      /\ LET last == said[remote(s)][Len(said[remote(s)])] IN
                         last.kind = "response" \/ (last.kind = "type" /\ last.val = "none")
    BY DEF InSync
  <2>0. /\ \A e \in {clnt_(s), remote(s)} : /\ said[e] \in Seq(Messages) /\ told[e] \in Seq(Messages)
                                           /\ heard[e] \in Nat /\ got[e] \in Nat
                                           /\ heard[e] <= Len(said[e]) /\ got[e] <= Len(told[e])
        /\ TalkInv(s) /\ "tied" \in Connected /\ "tied" # "closer"
    BY EndsOfSession DEF IInv, TypeInv, WireTypes, Connected
  <2>1. got[clnt_(s)] = Len(told[clnt_(s)]) /\ Len(said[clnt_(s)]) = 3
    <3>1. /\ Len(said[clnt_(s)]) = ClientSaid("tied") /\ Len(told[clnt_(s)]) = heard[clnt_(s)]
          /\ got[clnt_(s)] <= ClientGot("tied") /\ ~(got[clnt_(s)] < ClientGot("tied"))
      BY <2>0 DEF TalkInv, ClientTalk
    <3>2. ClientSaid("tied") = 3 /\ ClientGot("tied") = 3 BY <2>0, ClientWaits
    <3> QED BY <2>0, <3>1, <3>2
  <2>2. said[clnt_(s)][Len(said[clnt_(s)])].kind = "challenge"
    <3>1. \A i \in DOMAIN said[clnt_(s)] : said[clnt_(s)][i].kind = ClientGets[i]
      BY <2>0 DEF TalkInv, ClientTalk
    <3>2. 3 \in DOMAIN said[clnt_(s)] /\ ClientGets[3] = "challenge"
      BY <2>0, <2>1 DEF ClientGets
    <3> QED BY <2>1, <3>1, <3>2
  <2>3. /\ <<Len(said[remote(s)]), got[remote(s)]>> \in {<<2, 3>>, <<3, 4>>}
        /\ \A i \in DOMAIN said[remote(s)] : said[remote(s)][i].kind = ServerGets[i]
        /\ Len(said[remote(s)]) = 2 => said[remote(s)][2].val = "none"
        /\ Len(said[remote(s)]) = 3 => said[remote(s)][2].val = "vnc"
        /\ ServerTold(remote(s))
    BY <2>0, ServerTable DEF TalkInv, ServerTalk
  <2>4. got[remote(s)] = Len(told[remote(s)])
    <3>1. /\ heard[remote(s)] = 0 => Len(told[remote(s)]) <= 1
          /\ heard[remote(s)] = 1 => Len(told[remote(s)]) = 3
          /\ heard[remote(s)] > 1 =>
                 Len(told[remote(s)]) = IF said[remote(s)][2].val = "vnc" THEN 4 ELSE 3
      BY <2>3 DEF ServerTold
    <3>2. /\ heard[remote(s)] \in Nat /\ Len(told[remote(s)]) \in Nat
          /\ got[remote(s)] <= Len(told[remote(s)])
      BY <2>0
    <3>3. heard[remote(s)] = 0 \/ heard[remote(s)] = 1 \/ heard[remote(s)] > 1 BY <3>2
    <3>4. CASE Len(said[remote(s)]) = 2 /\ got[remote(s)] = 3
      <4>1. said[remote(s)][2].val # "vnc" BY <2>3, <3>4
      <4>2. Len(told[remote(s)]) <= 1 \/ Len(told[remote(s)]) = 3 BY ONLY <3>1, <3>3, <4>1
      <4> QED BY ONLY <3>2, <3>4, <4>2
    <3>5. CASE Len(said[remote(s)]) = 3 /\ got[remote(s)] = 4
      <4>1. said[remote(s)][2].val = "vnc" BY <2>3, <3>5
      <4>2. Len(told[remote(s)]) <= 1 \/ Len(told[remote(s)]) = 3 \/ Len(told[remote(s)]) = 4
        BY ONLY <3>1, <3>3, <4>1
      <4>3. \A n \in Nat : 4 <= n /\ (n <= 1 \/ n = 3 \/ n = 4) => n = 4 OBVIOUS
      <4> QED BY ONLY <3>2, <3>5, <4>2, <4>3
    <3> QED BY <2>3, <3>4, <3>5
  <2>5. LET last == said[remote(s)][Len(said[remote(s)])] IN
        last.kind = "response" \/ (last.kind = "type" /\ last.val = "none")
    <3>1. ServerGets[2] = "type" /\ ServerGets[3] = "response" BY DEF ServerGets
    <3>2. Len(said[remote(s)]) \in DOMAIN said[remote(s)] BY <2>0, <2>3
    <3> QED BY <2>3, <3>1, <3>2
  <2> QED BY <2>1, <2>2, <2>4, <2>5
<1> QED BY <1>1, TalkInvariant, PTL
-------------------------------------------------------------------------------
(* The look-up.                                                            *)

\* What Ask() says of a session, in a step of another one.
LookUpStays(t) ==
    /\ step'[t] = step[t] /\ response'[t] = response[t]
    /\ key'[t] = key[t] /\ rows'[t] = rows[t] /\ row'[t] = row[t]
    /\ told'[clnt_(t)] = told[clnt_(t)]

\* A step of somebody else does not disturb a session's look-up.
LEMMA AskStays ==
    ASSUME NEW t \in Sessions, Ask(t), LookUpStays(t), hup \subseteq hup',
           edits' = 0 => edits = 0,
           routes' = routes \/ step[t] \notin {"row", "des"}
    PROVE  Ask(t)'
<1>1. ResponseInv(t)' BY DEF Ask, ResponseInv, LookUpStays
<1>2. NoMatch(t)' BY DEF Ask, NoMatch, Visited, LookUpStays
<1>3. RowsInv(t)' BY DEF Ask, RowsInv, LookUpStays
<1>4. OwnKey(t)' BY DEF Ask, OwnKey, LookUpStays
<1> QED BY <1>1, <1>2, <1>3, <1>4 DEF Ask

\* A step of a session leaves the look-up of the others alone.
LEMMA OthersAsk ==
    ASSUME IInv, AskInv, NEW s \in Sessions, NEW next \in Steps, GoTo(s, next),
           UNCHANGED <<hup, dbVars>>,
           \A t \in Sessions \ {s} :
               /\ response'[t] = response[t] /\ key'[t] = key[t]
               /\ rows'[t] = rows[t] /\ row'[t] = row[t]
               /\ told'[clnt_(t)] = told[clnt_(t)],
           step'[s] = next => Ask(s)'
    PROVE  AskInv'
<1>1. step'[s] = next /\ \A t \in Sessions \ {s} : step'[t] = step[t]
  BY GoToStep DEF IInv, TypeInv
<1>2. \A t \in Sessions \ {s} : Ask(t)'
  BY <1>1, AskStays DEF AskInv, LookUpStays, dbVars
<1> QED BY <1>1, <1>2 DEF AskInv, dbVars

\* Outside the look-up there is nothing to say but of the client's messages.
LEMMA AskOutside ==
    ASSUME NEW s \in Sessions, Ask(s), step'[s] \notin LookUpSteps \cup {"idle"},
           told'[clnt_(s)] = told[clnt_(s)] \/ told'[clnt_(s)] = <<>>
    PROVE  Ask(s)'
<1>1. ResponseInv(s)' /\ NoMatch(s)' /\ RowsInv(s)'
  BY DEF ResponseInv, NoMatch, RowsInv, LookUpSteps
<1>2. OwnKey(s)' BY ValuesOfNone DEF Ask, OwnKey
<1> QED BY <1>1, <1>2 DEF Ask

\* The steps that lead outside it.
LEMMA OutsideAsk ==
    ASSUME IInv, AskInv, NEW s \in Sessions,
           \/ Accept(s) \/ SendToClient(s) \/ SendToServer(s) \/ SendFails(s) \/ RecvFails(s)
           \/ RecvVersion(s, clnt_(s), "version", "offer") \/ RecvType(s)
           \/ QueryFails(s) \/ ConnectTo(s)
           \/ RecvVersion(s, remote(s), "sversion", "agree") \/ RecvCount(s) \/ RecvTypes(s)
           \/ RecvChallenge(s) \/ LockAnswer(s) \/ AnswerDes(s)
           \/ CloseRemote(s) \/ CloseClient(s) \/ Tie(s)
    PROVE  AskInv'
<1> USE EndsOfSession
<1>0. LocalTypes /\ WireTypes /\ step \in [Sessions -> Steps] BY DEF IInv, TypeInv
<1>1. ASSUME NEW next \in Steps \ (LookUpSteps \cup {"idle"}), GoTo(s, next),
             UNCHANGED <<hup, dbVars>>,
             \A t \in Sessions \ {s} :
                 /\ response'[t] = response[t] /\ key'[t] = key[t]
                 /\ rows'[t] = rows[t] /\ row'[t] = row[t],
             \A t \in Sessions : told'[clnt_(t)] = told[clnt_(t)]
                                 \/ (t = s /\ told'[clnt_(t)] = <<>>)
      PROVE  AskInv'
  <2>1. step'[s] = next => Ask(s)' BY <1>1, AskOutside DEF AskInv
  <2> QED BY <1>1, <2>1, OthersAsk
<1>2. {"greet", "version", "offer", "type", "challenge", "response", "closec", "resolve", "socket",
       "connect", "done", "tied"} \cup ServerSteps \subseteq Steps \ (LookUpSteps \cup {"idle"})
  BY DEF Steps, ClientSteps, ConnectSteps, ServerSteps, LookUpSteps
<1>3. ASSUME NEW next \in {"greet", "version", "offer", "type", "challenge", "response", "closec",
                           "resolve", "socket", "connect"} \cup ServerSteps, GoTo(s, next),
             UNCHANGED <<hup, dbVars, response, lookupVars, told>>
      PROVE  AskInv'
  BY <1>1, <1>2, <1>3 DEF lookupVars
<1>4. CASE Accept(s) \/ RecvType(s) \/ QueryFails(s) \/ Resolve(s) \/ Socket(s)
           \/ ConnectSucceeds(s) \/ GiveUp(s)
           \/ RecvCount(s) \/ RecvChallenge(s) \/ LockAnswer(s)
  <2>1. /\ UNCHANGED <<hup, dbVars, response, lookupVars, told>>
        /\ \E next \in {"greet", "challenge", "closec", "resolve", "socket", "connect", "sversion",
                        "types", "slock", "sdes"} : GoTo(s, next)
    BY <1>4 DEF Accept, RecvType, QueryFails, Resolve, Socket, ConnectSucceeds, GiveUp,
       RecvCount, RecvChallenge, LockAnswer, partyVars, localVars
  <2>2. {"sversion", "types", "slock", "sdes"} \subseteq ServerSteps BY DEF ServerSteps
  <2> QED BY <1>3, <2>1, <2>2
<1>5. CASE SendToClient(s) \/ SendToServer(s)
  <2>1. /\ UNCHANGED <<hup, dbVars, response, lookupVars, told>>
        /\ \E next \in {"version", "type", "response", "closec", "count", "tie", "schallenge"} :
               GoTo(s, next)
    BY <1>5 DEF SendToClient, SendToServer, SendMessage, partyVars
  <2>2. {"count", "tie", "schallenge"} \subseteq ServerSteps BY DEF ServerSteps
  <2> QED BY <1>3, <2>1, <2>2
<1>6. CASE \/ SendFails(s) \/ RecvFails(s)
           \/ RecvVersion(s, clnt_(s), "version", "offer")
           \/ RecvVersion(s, remote(s), "sversion", "agree")
  <2>1. OnError(s) \in {"closer", "closec"} BY OnErrorStep
  <2>2. /\ UNCHANGED <<hup, dbVars, response, lookupVars, told>>
        /\ \E next \in {"offer", "agree", "closer", "closec"} : GoTo(s, next)
    BY <1>6, <2>1 DEF SendFails, RecvFails, RecvVersion, partyVars, localVars
  <2>3. {"agree", "closer"} \subseteq ServerSteps BY DEF ServerSteps
  <2> QED BY <1>3, <2>2, <2>3
<1>7. CASE RecvTypes(s)
  <2>1. \A types : Choice(s, types) \in {"none", "vnc", "closer"} BY DEF Choice
  <2>2. /\ UNCHANGED <<hup, dbVars, response, lookupVars, told>>
        /\ \E next \in {"none", "vnc", "closer"} : GoTo(s, next)
    BY <1>7, <2>1 DEF RecvTypes, partyVars, localVars
  <2>3. {"none", "vnc", "closer"} \subseteq ServerSteps BY DEF ServerSteps
  <2> QED BY <1>3, <2>2, <2>3
<1>8. CASE SocketFails(s)
  <2>1. GoTo(s, "socket") BY <1>0, <1>8 DEF SocketFails, GoTo
  <2> QED BY <1>3, <1>8, <2>1 DEF SocketFails, partyVars
<1>9. CASE AnswerDes(s)
  <2>1. /\ GoTo(s, "answer") /\ UNCHANGED <<hup, dbVars, lookupVars, told>>
        /\ \A t \in Sessions \ {s} : response'[t] = response[t]
    BY <1>0, <1>9 DEF AnswerDes, LocalTypes, partyVars
  <2>2. "answer" \in ServerSteps BY DEF ServerSteps
  <2> QED BY <1>1, <1>2, <2>1, <2>2 DEF lookupVars
<1>10. CASE ConnectFails(s) \/ CloseRemote(s)
  <2>1. /\ \E next \in {"socket", "closec"} : GoTo(s, next)
        /\ UNCHANGED <<hup, dbVars, response, lookupVars>> /\ Close(remote(s))
    BY <1>10 DEF ConnectFails, CloseRemote, localVars
  <2>2. \A t \in Sessions : told'[clnt_(t)] = told[clnt_(t)]
    BY <1>0, <2>1, CloseSame DEF Same
  <2> QED BY <1>1, <1>2, <2>1, <2>2 DEF lookupVars
<1>11. CASE CloseClient(s)
  <2>1. GoTo(s, "done") /\ UNCHANGED <<hup, dbVars>> /\ Close(clnt_(s))
    BY <1>11 DEF CloseClient
  <2>2. \A t \in Sessions \ {s} :
            /\ response'[t] = response[t] /\ key'[t] = key[t]
            /\ rows'[t] = rows[t] /\ row'[t] = row[t]
    BY <1>0, <1>11 DEF CloseClient, Return, LocalTypes
  <2>3. \A t \in Sessions : told'[clnt_(t)] = told[clnt_(t)]
                            \/ (t = s /\ told'[clnt_(t)] = <<>>)
    BY <1>0, <2>1, CloseSame DEF Same
  <2> QED BY <1>1, <1>2, <2>1, <2>2, <2>3
<1>12. CASE Tie(s)
  <2>1. GoTo(s, "tied") /\ UNCHANGED <<hup, dbVars, told>>
    BY <1>12 DEF Tie, partyVars
  <2>2. \A t \in Sessions \ {s} :
            /\ response'[t] = response[t] /\ key'[t] = key[t]
            /\ rows'[t] = rows[t] /\ row'[t] = row[t]
    BY <1>0, <1>12 DEF Tie, Return, LocalTypes
  <2> QED BY <1>1, <1>2, <2>1, <2>2
<1> QED BY <1>4, <1>5, <1>6, <1>7, <1>8, <1>9, <1>10, <1>11, <1>12 DEF ConnectTo
\* A client's answer is received whole, or it has not sent one.
LEMMA ResponseAsk ==
    ASSUME IInv, AskInv, \A t \in Sessions : TalkInv(t), NEW s \in Sessions, RecvResponse(s)
    PROVE  AskInv'
<1> USE EndsOfSession
<1> DEFINE c == clnt_(s)
<1>0. LocalTypes /\ WireTypes /\ step \in [Sessions -> Steps] /\ "lock" \in Steps
  BY DEF IInv, TypeInv, Steps, ClientSteps
<1>1. /\ step[s] = "response" /\ GoTo(s, "lock")
      /\ UNCHANGED <<partyVars, said, lookupVars, dbVars>>
  BY <1>0 DEF RecvResponse
<1>2. UNCHANGED <<hup, told, key, rows, row>> BY <1>1 DEF partyVars, lookupVars
<1>3. \A t \in Sessions \ {s} : response'[t] = response[t]
  BY <1>0 DEF RecvResponse, LocalTypes
<1>4. /\ told[c] \in Seq(Messages) /\ said[c] \in Seq(Messages)
      /\ heard[c] \in Nat /\ heard[c] <= Len(said[c]) /\ got[c] \in Nat
      /\ Len(said[c]) = 3 /\ Len(told[c]) = heard[c] /\ got[c] <= 2
  <2>1. ClientSaid("response") = 3 /\ ClientGot("response") = 2 BY DEF ClientSaid, ClientGot
  <2>2. ClientTalk(s) BY DEF TalkInv
  <2>3. /\ told[c] \in Seq(Messages) /\ said[c] \in Seq(Messages)
        /\ heard[c] \in Nat /\ heard[c] <= Len(said[c]) /\ got[c] \in Nat
    BY <1>0 DEF WireTypes
  <2> QED BY <1>1, <2>1, <2>2, <2>3 DEF ClientTalk
<1>5. \/ Len(told[c]) = 3 /\ response'[s] = told[c][3].val
      \/ Len(told[c]) < 3 /\ c \in hup
  <2>1. CASE Receives(c, "response") /\ response' = [response EXCEPT ![s] = Incoming(c)]
    <3>1. got[c] = 2
      <4>1. "lock" \in Steps /\ "lock" # "closec" /\ "response" \notin {"closec", "done"}
            /\ ClientSaid("lock") = ClientSaid("response")
            /\ ClientGot("lock") = ClientGot("response") + 1 /\ ClientGot("response") = 2
        BY <1>0, ClientReceiveTable DEF ClientGot
      <4>2. ClientTalk(s) BY DEF TalkInv
      <4> QED BY <1>0, <1>1, <2>1, <4>1, <4>2, ClientReceive
    <3>2. response'[s] = told[c][got[c] + 1].val BY <1>0, <2>1 DEF LocalTypes, Incoming
    <3>3. got[c] < Len(told[c]) BY <2>1 DEF Receives
    <3>4. Len(told[c]) = 3 BY <1>4, <3>1, <3>3
    <3> QED BY <3>1, <3>2, <3>4
  <2>2. CASE ReceivesShort(c)
    BY <1>4, <2>2 DEF ReceivesShort
  <2> QED BY <2>1, <2>2 DEF RecvResponse
<1>6. step'[s] = "lock" => Ask(s)'
  <2> SUFFICES ASSUME step'[s] = "lock" PROVE Ask(s)'
    OBVIOUS
  <2>1. ResponseInv(s)' BY <1>2, <1>5 DEF ResponseInv
  <2>2. NoMatch(s)' /\ RowsInv(s)' BY DEF NoMatch, RowsInv
  <2>3. OwnKey(s)' BY <1>2 DEF AskInv, Ask, OwnKey
  <2> QED BY <2>1, <2>2, <2>3 DEF Ask
<1> QED BY <1>0, <1>1, <1>2, <1>3, <1>6, OthersAsk

\* The rows the query visits, one by one.
LEMMA LookUpAsk ==
    ASSUME IInv, AskInv, NEW s \in Sessions,
           LockQuery(s) \/ RowKey(s) \/ RowCompare(s) \/ QueryReturns(s)
    PROVE  AskInv'
<1> USE EndsOfSession
<1>0. /\ LocalTypes /\ SharedTypes /\ step \in [Sessions -> Steps]
      /\ {"row", "des", "refuse", "resolve"} \subseteq Steps
      /\ Ask(s) /\ SessionInv(s)
  BY DEF IInv, TypeInv, Steps, ClientSteps, ConnectSteps, AskInv
<1>1. UNCHANGED <<hup, told, response, dbVars>> /\ step[s] \in {"lock", "row", "des"}
  BY DEF LockQuery, RowKey, RowCompare, QueryReturns, partyVars, localVars
<1>2. ASSUME step'[s] \in LookUpSteps PROVE ResponseInv(s)' /\ OwnKey(s)'
  BY <1>0, <1>1, <1>2 DEF Ask, ResponseInv, OwnKey, LookUpSteps
<1>3. CASE LockQuery(s)
  <2>1. /\ step[s] = "lock" /\ GoTo(s, "row") /\ UNCHANGED <<key, row>>
        /\ rows'[s] = routes /\ \A t \in Sessions \ {s} : rows'[t] = rows[t]
    BY <1>0, <1>3 DEF LockQuery, LocalTypes
  <2>2. step'[s] = "row" => Ask(s)'
    <3> SUFFICES ASSUME step'[s] = "row" PROVE Ask(s)'
      OBVIOUS
    <3>1. NoMatch(s)' BY <1>1, <2>1 DEF NoMatch, Visited, AskInv, dbVars
    <3>2. RowsInv(s)' BY <1>1, <2>1 DEF RowsInv, dbVars
    <3> QED BY <1>2, <3>1, <3>2 DEF Ask, LookUpSteps
  <2> QED BY <1>0, <1>1, <2>1, <2>2, OthersAsk
<1>4. CASE RowKey(s)
  <2>1. /\ step[s] = "row" /\ GoTo(s, "des") /\ UNCHANGED <<key, rows>> /\ key[s] = NoWord
        /\ row'[s] \in rows[s] /\ \A t \in Sessions \ {s} : row'[t] = row[t]
    BY <1>0, <1>4 DEF RowKey, LocalTypes
  <2>2. step'[s] = "des" => Ask(s)'
    <3> SUFFICES ASSUME step'[s] = "des" PROVE Ask(s)'
      OBVIOUS
    <3>1. NoMatch(s)' BY <1>0, <1>1, <2>1 DEF Ask, NoMatch, Visited, dbVars
    <3>2. RowsInv(s)' BY <1>0, <1>1, <2>1 DEF Ask, RowsInv, dbVars
    <3> QED BY <1>2, <3>1, <3>2 DEF Ask, LookUpSteps
  <2> QED BY <1>0, <1>1, <2>1, <2>2, OthersAsk
<1>5. CASE RowCompare(s)
  <2>1. /\ step[s] = "des" /\ GoTo(s, "row") /\ UNCHANGED challenge
        /\ rows'[s] = rows[s] \ {row[s]}
        /\ key'[s] = IF Matches(s) THEN row[s] ELSE key[s]
        /\ \A t \in Sessions \ {s} : rows'[t] = rows[t] /\ row'[t] = row[t] /\ key'[t] = key[t]
    BY <1>0, <1>5 DEF RowCompare, LocalTypes
  <2>2. row[s] \in Keys /\ reg = row[s] /\ challenge[s] = clnt_(s) /\ NoWord \notin Keys
    BY <1>0, <2>1, VncOperatorAssumption
       DEF SessionInv, LockInv, ClientInv, VncOperatorAssumption
  <2>3. Matches(s) <=> response[s] = Answer(row[s], clnt_(s))
    BY <2>2 DEF Matches, Encrypted, Answer
  <2>4. step'[s] = "row" => Ask(s)'
    <3> SUFFICES ASSUME step'[s] = "row" PROVE Ask(s)'
      OBVIOUS
    <3>1. NoMatch(s)'
      <4> SUFFICES ASSUME key'[s] = NoWord, edits' = 0, NEW k \in Keys, k \notin rows'[s]
                   PROVE  response'[s] # Answer(k, clnt_(s))
        BY DEF NoMatch, Visited
      <4>1. key[s] = NoWord /\ response[s] # Answer(row[s], clnt_(s)) BY <2>1, <2>2, <2>3
      <4>2. CASE k = row[s] BY <1>1, <4>1, <4>2
      <4>3. CASE k # row[s]
        <5>1. k \in Visited(s) BY <2>1, <4>3 DEF Visited
        <5> QED BY <1>0, <1>1, <2>1, <4>1, <5>1 DEF Ask, NoMatch, dbVars
      <4> QED BY <4>2, <4>3
    <3>2. RowsInv(s)' BY <1>0, <1>1, <2>1 DEF Ask, RowsInv, dbVars
    <3> QED BY <1>2, <3>1, <3>2 DEF Ask, LookUpSteps
  <2> QED BY <1>0, <1>1, <2>1, <2>4, OthersAsk
<1>6. CASE QueryReturns(s)
  <2>1. /\ step[s] = "row" /\ UNCHANGED <<key, rows, row>>
        /\ rows[s] = {} \/ key[s] # NoWord
        /\ GoTo(s, IF key[s] = NoWord THEN "refuse" ELSE "resolve")
    BY <1>6 DEF QueryReturns, localVars, lookupVars
  <2>2. CASE key[s] = NoWord
    <3>1. GoTo(s, "refuse") /\ rows[s] = {} BY <2>1, <2>2
    <3>2. step'[s] = "refuse" => Ask(s)'
      <4> SUFFICES ASSUME step'[s] = "refuse" PROVE Ask(s)'
        OBVIOUS
      <4>1. NoMatch(s)' BY <1>0, <1>1, <2>1, <3>1 DEF Ask, NoMatch, Visited, dbVars
      <4>2. RowsInv(s)' BY <2>1, <2>2 DEF RowsInv
      <4> QED BY <1>2, <4>1, <4>2 DEF Ask, LookUpSteps
    <3> QED BY <1>0, <1>1, <2>1, <3>1, <3>2, OthersAsk
  <2>3. CASE key[s] # NoWord
    <3>1. GoTo(s, "resolve") BY <2>1, <2>3
    <3>2. step'[s] = "resolve" => Ask(s)'
      BY <1>0, <1>1, AskOutside DEF LookUpSteps
    <3> QED BY <1>0, <1>1, <2>1, <3>1, <3>2, OthersAsk
  <2> QED BY <2>2, <2>3
<1> QED BY <1>3, <1>4, <1>5, <1>6

\* A client answers with the key it knows, or with none.
LEMMA ClientReplyKey ==
    ASSUME NEW s \in Sessions, NEW m, NEW r \in Replies(clnt_(s), m)
    PROVE  \A v \in Values(r, "response") : v = Junk \/ v.key = KeyOf[s]
<1>1. r \in ClientReplies(clnt_(s), m) /\ clnt_(s)[1] = s BY DEF Replies, clnt_
<1>2. \A kind, val : Msg(kind, val).kind = kind /\ Msg(kind, val).val = val BY DEF Msg
<1>3. CASE m.kind = "version"
  <2>1. \E val : r = <<Msg("version", val)>> BY <1>1, <1>3 DEF ClientReplies
  <2> QED BY <1>2, <2>1 DEF Values
<1>4. CASE m.kind = "types"
  <2>1. r = <<Msg("type", "vnc")>> BY <1>1, <1>4 DEF ClientReplies
  <2> QED BY <1>2, <2>1 DEF Values
<1>5. CASE m.kind = "challenge"
  <2>1. PICK val : r = <<Msg("response", val)>> /\ (val = Junk \/ val.key = KeyOf[s])
    BY <1>1, <1>5 DEF ClientReplies
  <2> QED BY <1>2, <2>1 DEF Values
<1>6. CASE m.kind \notin {"version", "types", "challenge"}
  <2>1. r = <<>> BY <1>1, <1>6 DEF ClientReplies
  <2> QED BY <2>1, ValuesOfNone
<1> QED BY <1>3, <1>4, <1>5, <1>6

\* A party that answers sends the response of its own key.
LEMMA ReplyAsk ==
    ASSUME IInv, AskInv, \A t \in Sessions : TalkInv(t), NEW e \in Ends, Reply(e)
    PROVE  AskInv'
<1> USE EndsOfSession
<1>1. /\ UNCHANGED <<step, response, key, rows, row, hup, dbVars>>
      /\ \A x \in Ends \ {e} : told'[x] = told[x]
      /\ e \notin hup
  BY ReplyStep DEF Reply, localVars, lookupVars, Same
<1>2. ASSUME NEW t \in Sessions, clnt_(t) # e PROVE Ask(t)'
  BY <1>1, <1>2, AskStays DEF AskInv, LookUpStays, dbVars
<1>3. ASSUME NEW s \in Sessions, e = clnt_(s) PROVE Ask(s)'
  <2>1. /\ told[e] \in Seq(Messages) /\ said[e] \in Seq(Messages) /\ heard[e] \in Nat
        /\ heard[e] < Len(said[e])
    BY ReplyStep
  <2>2. PICK r \in Replies(e, said[e][heard[e] + 1]) :
           r \in Seq(Messages) /\ told'[e] = told[e] \o r
    BY ReplyStep
  <2>3. OwnKey(s)'
    <3>1. Values(told'[e], "response") = Values(told[e], "response") \cup Values(r, "response")
      BY <2>1, <2>2, ValuesOfConcat
    <3>2. \A v \in Values(r, "response") : v = Junk \/ v.key = KeyOf[s]
      BY <1>3, <2>2, ClientReplyKey
    <3> QED BY <1>3, <3>1, <3>2 DEF AskInv, Ask, OwnKey
  <2>4. step[s] \notin LookUpSteps
    <3> SUFFICES ASSUME step[s] \in LookUpSteps PROVE FALSE
      OBVIOUS
    <3>1. step[s] \notin {"closec", "done"} /\ ClientSaid(step[s]) = 3
      BY ClientWaits DEF LookUpSteps
    <3>2. Len(said[e]) = 3 /\ Len(told[e]) = heard[e]
      BY <1>3, <3>1 DEF TalkInv, ClientTalk
    <3>3. Len(told[e]) = 3 BY <1>1, <1>3 DEF AskInv, Ask, ResponseInv
    <3> QED BY <2>1, <3>2, <3>3
  <2>5. ResponseInv(s)' /\ NoMatch(s)'
    BY <1>1, <2>4 DEF ResponseInv, NoMatch, LookUpSteps
  <2>6. RowsInv(s)' BY <1>1 DEF AskInv, Ask, RowsInv, dbVars
  <2> QED BY <2>3, <2>5, <2>6 DEF Ask
<1> QED BY <1>1, <1>2, <1>3 DEF AskInv, dbVars

\* Every step keeps what a look-up has found out.
LEMMA AskStep ==
    ASSUME IInv, AskInv, \A t \in Sessions : TalkInv(t), [Next]_vars
    PROVE  AskInv'
<1> USE EndsOfSession
<1>0. edits \in Nat BY VncOperatorAssumption DEF IInv, TypeInv, SharedTypes, VncOperatorAssumption
<1>1. ASSUME UNCHANGED <<step, response, lookupVars>>, hup \subseteq hup',
             \A t \in Sessions : told'[clnt_(t)] = told[clnt_(t)],
             edits' = 0 => edits = 0 /\ routes' = routes,
             routes' = routes \/ \A t \in Sessions : step[t] \notin {"row", "des"}
      PROVE  AskInv'
  <2>1. \A t \in Sessions : Ask(t)'
    BY <1>1, AskStays DEF AskInv, LookUpStays, lookupVars
  <2> QED BY <1>1, <2>1 DEF AskInv
<1>2. CASE UNCHANGED vars
  BY <1>1, <1>2 DEF vars, partyVars, localVars, dbVars
<1>3. ASSUME NEW s \in Sessions, Accept(s) \/ Operator(s) \/ Lock(s) PROVE AskInv'
  BY <1>3, OutsideAsk, ResponseAsk, LookUpAsk DEF Operator, Lock, LookUp
<1>4. ASSUME NEW e \in Ends, Greet(e) PROVE AskInv'
  <2>1. \A t \in Sessions : clnt_(t) # e BY <1>4 DEF Greet, clnt_
  <2>2. \A t \in Sessions : told'[clnt_(t)] = told[clnt_(t)]
    BY <1>4, <2>1 DEF Greet, IInv, TypeInv, WireTypes
  <2> QED BY <1>1, <1>4, <2>2 DEF Greet, localVars, dbVars
<1>5. ASSUME NEW e \in Ends, Hangup(e) PROVE AskInv'
  BY <1>1, <1>5 DEF Hangup, localVars, dbVars
<1>6. ASSUME NEW k \in Edited, EditRoute(k) PROVE AskInv'
  <2>1. edits' # 0 BY <1>0, <1>6 DEF EditRoute
  <2> QED BY <1>1, <1>6, <2>1 DEF EditRoute, localVars, partyVars
<1> QED BY <1>2, <1>3, <1>4, <1>5, <1>6, ReplyAsk DEF Next

\* No look-up has begun.
LEMMA AskInit == Init => AskInv
<1> SUFFICES ASSUME Init PROVE AskInv
  OBVIOUS
<1>1. ASSUME NEW s \in Sessions PROVE Ask(s)
  <2>1. step[s] = "idle" /\ key[s] = NoWord /\ told[clnt_(s)] = <<>>
    BY EndsOfSession DEF Init
  <2> QED BY <2>1, ValuesOfNone DEF Ask, ResponseInv, NoMatch, RowsInv, OwnKey, LookUpSteps
<1> QED BY <1>1 DEF AskInv, Init

\* Descriptors, dialogues and look-ups, on top of what VncOperatorProofs shows.
HInv == IInv /\ FdInv /\ (\A s \in Sessions : TalkInv(s)) /\ AskInv

\* HInv holds initially ...
LEMMA HInit == Init => HInv
BY InitInv, FdInit, TalkInit, AskInit DEF HInv

\* ... is kept by every step ...
LEMMA HStep == HInv /\ [Next]_vars => HInv'
BY StepInv, FdStep, TalkStep, AskStep DEF HInv

\* ... and so is an invariant.
LEMMA HInvariant == Spec => []HInv
BY HInit, HStep, PTL DEF Spec

\* vnc_auth_callback, over all rows: a client that has answered with a key of
\* the database is not refused, as long as the database does not change.
THEOREM RefusedSafe == Spec => []RefusedOnlyUnknown
<1>1. HInv => RefusedOnlyUnknown
  <2> SUFFICES ASSUME HInv, NEW s \in Sessions, step[s] = "refuse", edits = 0,
                      Answer(KeyOf[s], clnt_(s)) \in Values(told[clnt_(s)], "response")
               PROVE  FALSE
    BY DEF RefusedOnlyUnknown
  <2> DEFINE c == clnt_(s)
  <2>1. told[c] \in Seq(Messages) /\ TalkInv(s) /\ Ask(s) /\ KeyOf[s] \in Keys
    BY EndsOfSession, VncOperatorAssumption
       DEF HInv, IInv, TypeInv, WireTypes, AskInv, VncOperatorAssumption
  <2>2. response[s] # Answer(KeyOf[s], c)
    BY <2>1 DEF Ask, NoMatch, RowsInv, Visited
  <2>3. PICK i \in DOMAIN told[c] : /\ told[c][i].kind = "response"
                                    /\ told[c][i].val = Answer(KeyOf[s], c)
    BY DEF Values
  <2>4. told[c][i].kind = ClientSends[i] BY <2>1 DEF TalkInv, ClientTalk
  <2>5. \/ Len(told[c]) = 3 /\ response[s] = told[c][3].val
        \/ Len(told[c]) < 3
    BY <2>1 DEF Ask, ResponseInv, LookUpSteps
  <2>6. i = 3
    <3> HIDE DEF c
    <3>1. i \in {1, 2, 3} BY <2>1, <2>3, <2>5
    <3> QED BY <2>3, <2>4, <3>1 DEF ClientSends
  <2>7. Len(told[c]) >= 3
    <3> HIDE DEF c
    <3> QED BY <2>1, <2>3, <2>6
  <2>8. response[s] = told[c][3].val
    <3> HIDE DEF c
    <3> QED BY <2>1, <2>5, <2>7
  <2> QED BY <2>2, <2>3, <2>6, <2>8
<1> QED BY <1>1, HInvariant, PTL

-------------------------------------------------------------------------------
(* The abstraction: the steps at which a descriptor is opened or closed, a *)
(* client is found in the database or a session is tied are steps of       *)
(* EndPoint, and all the others leave what EndPoint sees of an operator    *)
(* unchanged.                                                              *)

\* Variables of EndPoint that the handshake does not have.
LEMMA EPConstant ==
    /\ UNCHANGED EP!registryVars
    /\ UNCHANGED EP!epollVars
    /\ UNCHANGED EP!pollLocal
    /\ UNCHANGED EP!sdVars
    /\ UNCHANGED EP!cleanupLocal
    /\ UNCHANGED EP!mainVars
BY DEF EP!registryVars, EP!epollVars, EP!pollLocal, EP!sdVars, EP!cleanupLocal, EP!mainVars

\* Sessions the abstraction sees no step of.
SamePhase(t) ==
    /\ Phase(t)' = Phase(t)
    /\ step'[t] = "tied" <=> step[t] = "tied"

\* One session's phase changes.
LEMMA EPGoTo ==
    ASSUME NEW s \in Sessions, NEW p, Phase(s)' = p,
           \A t \in Sessions \ {s} : SamePhase(t)
    PROVE  EP!GoTo(s, p)
BY DEF EP!GoTo, SamePhase

\* Without a tie_fd there are no new EndPoints.
LEMMA EPTied ==
    ASSUME \A t \in Sessions : step'[t] = "tied" <=> step[t] = "tied"
    PROVE  UNCHANGED EP!refVars /\ UNCHANGED EP!endVars
<1>1. {s \in Sessions : step'[s] = "tied"} = {s \in Sessions : step[s] = "tied"}
  OBVIOUS
<1>2. \A e \in Ends : e[1] \in Sessions BY DEF Ends
<1>3. [e \in Ends |-> IF step'[e[1]] = "tied" THEN 1 ELSE 0]
         = [e \in Ends |-> IF step[e[1]] = "tied" THEN 1 ELSE 0]
  BY <1>2
<1> QED BY <1>1, <1>3 DEF EP!refVars, EP!endVars

\* No phase changes: a stutter.
LEMMA EPStutter ==
    ASSUME UNCHANGED <<file, hup, fd_, dbVars>>, \A t \in Sessions : SamePhase(t)
    PROVE  UNCHANGED EP!vars
<1>1. [t \in Sessions |-> Phase(t)]' = [t \in Sessions |-> Phase(t)]
  BY DEF SamePhase
<1>2. UNCHANGED EP!refVars /\ UNCHANGED EP!endVars BY EPTied DEF SamePhase
<1>3. UNCHANGED EP!kernelVars BY DEF EP!kernelVars
<1>4. UNCHANGED EP!dbVars BY DEF EP!dbVars, dbVars
<1> QED BY <1>1, <1>2, <1>3, <1>4, EPConstant DEF EP!vars

\* Phase() as a function of what it depends on.
PhaseOf(at, k, e, U) ==
    CASE at \in ClientSteps /\ k = NoWord -> "auth"
      [] at \in ClientSteps /\ k # NoWord -> "connect"
      [] at \in {"resolve", "socket"} -> "connect"
      [] at \in {"connect"} \cup ServerSteps -> "tie"
      [] at = "closec" -> IF e \in U THEN "fail" ELSE IF k = NoWord THEN "auth" ELSE "connect"
      [] at = "tied" -> "ref1"
      [] OTHER -> at

\* The refinement mapping as an operator of the state of one session.
LEMMA PhaseIs ==
    \A t \in Sessions : /\ Phase(t) = PhaseOf(step[t], key[t], remote(t), up)
                        /\ Phase(t)' = PhaseOf(step'[t], key'[t], remote(t), up')
BY DEF Phase, PhaseOf

\* ... and its value at each call of run().
LEMMA PhaseTable ==
    ASSUME NEW at \in Steps, NEW k, NEW e, NEW U
    PROVE  /\ at \in EarlySteps \cup {"closec"} /\ e \notin U
                  /\ (at \in {"resolve", "socket"} => k # NoWord) =>
                  PhaseOf(at, k, e, U) = IF k = NoWord THEN "auth" ELSE "connect"
           /\ at \in {"connect"} \cup ServerSteps => PhaseOf(at, k, e, U) = "tie"
           /\ at = "closec" /\ e \in U => PhaseOf(at, k, e, U) = "fail"
           /\ at = "tied" => PhaseOf(at, k, e, U) = "ref1"
           /\ at \in {"idle", "done"} => PhaseOf(at, k, e, U) = at
<1>1. /\ ClientSteps \cap ({"resolve", "socket", "connect", "closec", "tied", "idle", "done"}
                               \cup ServerSteps) = {}
      /\ ServerSteps \cap {"resolve", "socket", "connect", "closec", "tied", "idle", "done"} = {}
  BY DEF ClientSteps, ServerSteps
<1>2. CASE at \in ClientSteps
  BY <1>1, <1>2 DEF PhaseOf, EarlySteps
<1>3. CASE at \notin ClientSteps
  BY <1>1, <1>3 DEF PhaseOf, EarlySteps
<1> QED BY <1>2, <1>3

\* What the invariants say of the phase of an operator before there is a
\* remote descriptor, and when there is one.
LEMMA PhaseNow ==
    ASSUME HInv, NEW s \in Sessions
    PROVE  /\ step[s] \in EarlySteps =>
                  Phase(s) = IF key[s] = NoWord THEN "auth" ELSE "connect"
           /\ step[s] \in {"connect"} \cup ServerSteps => Phase(s) = "tie"
           /\ step[s] = "closec" => Phase(s) \in {"auth", "connect", "fail"}
           /\ step[s] = "tied" => Phase(s) = "ref1"
           /\ step[s] \in {"idle", "done"} => Phase(s) = step[s]
<1>1. step[s] \in Steps /\ KeyInv(s) /\ UpInv(s)
  BY DEF HInv, IInv, TypeInv, SessionInv, TalkInv
<1>2. EarlySteps \cap (Connected \cup {"closec"}) = {}
  BY DEF EarlySteps, Connected, ClientSteps, ServerSteps
<1>3. step[s] \in EarlySteps =>
          /\ remote(s) \notin up
          /\ step[s] \in {"resolve", "socket"} => key[s] # NoWord
  BY <1>1, <1>2 DEF UpInv, KeyInv
<1>4. step[s] = "closec" => Phase(s) \in {"auth", "connect", "fail"}
  BY <1>1, PhaseIs, PhaseTable
<1> QED BY <1>1, <1>3, <1>4, PhaseIs, PhaseTable

\* A session that stays where it is.
LEMMA PhaseStays ==
    ASSUME NEW t \in Sessions, step'[t] = step[t], key'[t] = key[t],
           remote(t) \in up' <=> remote(t) \in up
    PROVE  SamePhase(t)
BY DEF SamePhase, Phase

-------------------------------------------------------------------------------
(* The steps.                                                              *)

\* An operator's step that EndPoint does not see.
LEMMA PlainStutters ==
    ASSUME HInv, HInv', NEW s \in Sessions, PlainStep(s), step[s] # "tie", key' = key
    PROVE  UNCHANGED EP!vars
<1> USE EndsOfSession
<1>0. step \in [Sessions -> Steps] BY DEF HInv, IInv, TypeInv
<1>1. UNCHANGED <<fdVars, hup, dbVars>>
  BY PlainMove, <1>0 DEF PlainStep, SendToClient, SendToServer, SendMessage, SendFails, RecvFails,
     RecvVersion, RecvType, RecvResponse, LookUp, RowKey, RowCompare, QueryReturns, QueryFails,
     Lock, LockQuery, LockAnswer, Resolve, SocketFails, ConnectSucceeds, GiveUp, RecvCount,
     RecvTypes, RecvChallenge, AnswerDes, Tie, partyVars
<1>2. up' = up \/ (step[s] = "connect" /\ up' = up \cup {remote(s)})
  BY DEF PlainStep, SendToClient, SendToServer, SendMessage, SendFails, RecvFails,
     RecvVersion, RecvType, RecvResponse, LookUp, RowKey, RowCompare, QueryReturns, QueryFails,
     Lock, LockQuery, LockAnswer, Resolve, SocketFails, ConnectSucceeds, GiveUp, RecvCount,
     RecvTypes, RecvChallenge, AnswerDes, Tie, partyVars
<1>3. PICK next \in Steps :
         /\ GoTo(s, next)
         /\ \/ step[s] \in EarlySteps /\ next \in EarlySteps \cup {"closec"}
            \/ step[s] = "connect" /\ next = "sversion"
            \/ step[s] \in ServerSteps \ {"tie", "closer"} /\ next \in ServerSteps
            \/ step[s] = "tie" /\ next = "tied"
  BY <1>0, PlainMove
<1>4. step'[s] = next /\ \A t \in Sessions \ {s} : step'[t] = step[t]
  BY <1>0, <1>3, GoToStep
<1>5. \A t \in Sessions \ {s} : SamePhase(t)
  BY <1>2, <1>4, PhaseStays
<1>6. SamePhase(s)
  <2>1. /\ "tied" \notin EarlySteps \cup {"closec", "connect", "sversion"} \cup ServerSteps
        /\ "sversion" \in ServerSteps /\ "connect" \notin EarlySteps
        /\ EarlySteps \cap (Connected \cup {"closec"}) = {}
    BY DEF EarlySteps, ClientSteps, ServerSteps, Connected
  <2>2. CASE step[s] \in EarlySteps /\ next \in EarlySteps \cup {"closec"}
    <3>1. remote(s) \notin up BY <2>1, <2>2 DEF HInv, TalkInv, UpInv
    <3>2. remote(s) \notin up' BY <1>2, <2>1, <2>2, <3>1
    <3>3. next \in {"resolve", "socket"} => key'[s] # NoWord
      BY <1>4 DEF HInv, IInv, SessionInv, KeyInv
    <3>4. Phase(s)' = IF key[s] = NoWord THEN "auth" ELSE "connect"
      BY <1>4, <2>2, <3>2, <3>3, PhaseIs, PhaseTable
    <3> QED BY <1>4, <2>1, <2>2, <3>4, PhaseNow DEF SamePhase
  <2>3. CASE step[s] \in {"connect"} \cup ServerSteps /\ next \in ServerSteps
    <3>1. Phase(s)' = "tie" BY <1>4, <2>3, PhaseIs, PhaseTable
    <3> QED BY <1>4, <2>1, <2>3, <3>1, PhaseNow DEF SamePhase
  <2> QED BY <1>3, <2>1, <2>2, <2>3
<1> QED BY <1>1, <1>5, <1>6, EPStutter DEF fdVars
\* accept(), socket() and close() are those of EndPoint.
LEMMA EPOpen == ASSUME NEW e, OpenSocket(e) PROVE EP!OpenSocket(e)
BY DEF OpenSocket, EP!OpenSocket, EP!Fds, Fds

\* close() of a descriptor that an operator holds.
LEMMA EPClose ==
    ASSUME HInv, NEW e \in Held, Close(e)
    PROVE  EP!CloseFds({fd_[e]}) /\ UNCHANGED fd_
<1>1. /\ file \in [Fds -> Ends \cup {NoEnd}] /\ fd_[e] \in Fds
      /\ file' = [file EXCEPT ![fd_[e]] = NoEnd] /\ UNCHANGED fd_
  BY DEF HInv, IInv, TypeInv, FdTypes, FdInv, Close
<1>2. file' = [fd \in Fds |-> IF fd \in {fd_[e]} THEN NoEnd ELSE file[fd]]
  BY <1>1
<1> QED BY <1>1, <1>2 DEF EP!CloseFds, EP!Fds, EP!Ends, EP!Sides, Fds, Ends, Sides

\* A step of a session that changes no other.
LEMMA EPMoves ==
    ASSUME HInv, NEW s \in Sessions, NEW next \in Steps, GoTo(s, next),
           \A t \in Sessions \ {s} : /\ key'[t] = key[t]
                                     /\ remote(t) \in up' <=> remote(t) \in up
    PROVE  /\ step'[s] = next
           /\ \A t \in Sessions \ {s} : SamePhase(t)
           /\ EP!GoTo(s, Phase(s)')
<1>1. step'[s] = next /\ \A t \in Sessions \ {s} : step'[t] = step[t]
  BY GoToStep DEF HInv, IInv, TypeInv
<1>2. \A t \in Sessions \ {s} : SamePhase(t) BY <1>1, PhaseStays
<1> QED BY <1>1, <1>2, EPGoTo

\* Before and after it the session is not tied.
LEMMA EPUntied ==
    ASSUME NEW s \in Sessions, step[s] # "tied", step'[s] # "tied",
           \A t \in Sessions \ {s} : SamePhase(t)
    PROVE  UNCHANGED EP!refVars /\ UNCHANGED EP!endVars
BY EPTied DEF SamePhase

\* accept() is EndPoint's.
LEMMA AcceptRefines ==
    ASSUME HInv, HInv', NEW s \in Sessions, Accept(s)
    PROVE  EP!Accept(s)
<1> USE EndsOfSession
<1>1. /\ step[s] = "idle" /\ GoTo(s, "greet") /\ OpenSocket(clnt_(s))
      /\ up' = up \cup {clnt_(s)} /\ UNCHANGED <<hup, key, dbVars>>
      /\ "greet" \in Steps /\ "greet" \in EarlySteps
  BY DEF Accept, localVars, lookupVars, Steps, ClientSteps, EarlySteps
<1>2. /\ step'[s] = "greet"
      /\ \A t \in Sessions \ {s} : SamePhase(t)
      /\ EP!GoTo(s, Phase(s)')
  BY <1>1, EPMoves
<1>3. Phase(s)' = "auth"
  <2>1. key'[s] = NoWord BY <1>1 DEF HInv, AskInv, Ask, RowsInv
  <2>2. remote(s) \notin up' BY <1>2 DEF HInv, TalkInv, UpInv, Connected, ServerSteps
  <2> QED BY <1>1, <1>2, <2>1, <2>2, PhaseIs, PhaseTable
<1>4. Phase(s) = "idle" BY <1>1, PhaseNow
<1>5. UNCHANGED EP!refVars /\ UNCHANGED EP!endVars BY <1>1, <1>2, EPUntied
<1>6. UNCHANGED EP!socketVars /\ UNCHANGED EP!dbVars
  BY <1>1 DEF EP!socketVars, EP!dbVars, dbVars
<1>7. EP!OpenSocket(EP!leader(s)) BY <1>1, EPOpen DEF EP!leader, clnt_
<1> QED BY <1>2, <1>3, <1>4, <1>5, <1>6, <1>7, EPConstant DEF EP!Accept

\* A row that matches is the client's: its answer has the key it knows.
LEMMA CompareRefines ==
    ASSUME HInv, HInv', NEW s \in Sessions, RowCompare(s), Matches(s)
    PROVE  EP!Authenticate(s)
<1> USE EndsOfSession
<1>1. /\ step[s] = "des" /\ GoTo(s, "row") /\ key' = [key EXCEPT ![s] = row[s]]
      /\ UNCHANGED <<fdVars, up, hup, dbVars>>
      /\ "row" \in Steps /\ {"row", "des"} \subseteq EarlySteps
  BY DEF RowCompare, partyVars, Steps, ClientSteps, EarlySteps
<1>2. /\ key \in [Sessions -> Keys \cup {NoWord}] /\ row[s] \in Keys /\ NoWord \notin Keys
      /\ row[s] \in routes /\ key[s] = NoWord
    BY <1>1, VncOperatorAssumption
       DEF HInv, IInv, TypeInv, LocalTypes, SessionInv, LockInv, AskInv, Ask, RowsInv,
           VncOperatorAssumption
<1>3. /\ step'[s] = "row"
      /\ \A t \in Sessions \ {s} : SamePhase(t)
      /\ EP!GoTo(s, Phase(s)')
  BY <1>1, <1>2, EPMoves
<1>4. Phase(s)' = "connect"
  <2>1. key'[s] # NoWord BY <1>1, <1>2
  <2>2. remote(s) \notin up' BY <1>3 DEF HInv, TalkInv, UpInv, Connected, ServerSteps
  <2> QED BY <1>1, <1>3, <2>1, <2>2, PhaseIs, PhaseTable
<1>5. Phase(s) = "auth" BY <1>1, <1>2, PhaseNow
<1>6. KeyOf[s] \in routes
  <2>1. response[s] = Answer(row[s], clnt_(s))
    BY <1>1 DEF HInv, IInv, SessionInv, LockInv, ClientInv, Matches, Encrypted, Answer
  <2>2. response[s] # Junk /\ response[s].key = row[s] BY <1>2, <2>1 DEF Answer, Junk
  <2>3. response[s] \in Values(told[clnt_(s)], "response")
    BY <1>1, <2>2 DEF HInv, IInv, SessionInv, ClientInv
  <2>4. response[s].key = KeyOf[s] BY <2>2, <2>3 DEF HInv, AskInv, Ask, OwnKey
  <2> QED BY <1>2, <2>2, <2>4
<1>7. UNCHANGED EP!refVars /\ UNCHANGED EP!endVars BY <1>1, <1>3, EPUntied
<1>8. UNCHANGED EP!kernelVars /\ UNCHANGED EP!dbVars
  BY <1>1 DEF EP!kernelVars, EP!dbVars, dbVars, fdVars
<1> QED BY <1>1, <1>3, <1>4, <1>5, <1>6, <1>7, <1>8, EPConstant DEF EP!Authenticate, fdVars

\* The socket() of connect_to is EndPoint's ConnectTo.
LEMMA SocketRefines ==
    ASSUME HInv, HInv', NEW s \in Sessions, Socket(s)
    PROVE  EP!ConnectTo(s)
<1> USE EndsOfSession
<1>1. /\ step[s] = "socket" /\ GoTo(s, "connect") /\ OpenSocket(remote(s))
      /\ UNCHANGED <<up, hup, key, dbVars>>
      /\ "connect" \in Steps /\ "socket" \in EarlySteps
  BY DEF Socket, partyVars, localVars, lookupVars, Steps, ConnectSteps, EarlySteps
<1>2. /\ step'[s] = "connect"
      /\ \A t \in Sessions \ {s} : SamePhase(t)
      /\ EP!GoTo(s, Phase(s)')
  BY <1>1, EPMoves
<1>3. Phase(s)' = "tie" BY <1>1, <1>2, PhaseIs, PhaseTable
<1>4. Phase(s) = "connect"
  <2>1. key[s] # NoWord BY <1>1 DEF HInv, IInv, SessionInv, KeyInv
  <2> QED BY <1>1, <2>1, PhaseNow
<1>5. UNCHANGED EP!refVars /\ UNCHANGED EP!endVars BY <1>1, <1>2, EPUntied
<1>6. UNCHANGED EP!socketVars /\ UNCHANGED EP!dbVars
  BY <1>1 DEF EP!socketVars, EP!dbVars, dbVars
<1>7. EP!OpenSocket(EP!follower(s)) BY <1>1, EPOpen DEF EP!follower, remote
<1> QED BY <1>2, <1>3, <1>4, <1>5, <1>6, <1>7, EPConstant DEF EP!ConnectTo

\* close(remote_fd), after a failed connect() or later.
LEMMA RemoteRefines ==
    ASSUME HInv, HInv', NEW s \in Sessions, ConnectFails(s) \/ CloseRemote(s)
    PROVE  EP!RemoteFails(s)
<1> USE EndsOfSession
<1>1. /\ \/ step[s] = "connect" /\ GoTo(s, "socket")
         \/ step[s] = "closer" /\ GoTo(s, "closec")
      /\ Close(remote(s)) /\ UNCHANGED <<up, hup, key, dbVars>>
      /\ {"socket", "closec"} \subseteq Steps
      /\ "socket" \in EarlySteps /\ "closer" \in ServerSteps
      /\ "closer" \in Connected
  BY DEF ConnectFails, CloseRemote, localVars, lookupVars, Steps, ConnectSteps, EarlySteps,
     ServerSteps, Connected
<1>2. /\ step'[s] = "socket" \/ (step[s] = "closer" /\ step'[s] = "closec")
      /\ \A t \in Sessions \ {s} : SamePhase(t)
      /\ EP!GoTo(s, Phase(s)')
  BY <1>1, EPMoves
<1>3. Phase(s)' \in {"connect", "fail"}
  <2>1. CASE step'[s] = "socket"
    <3>1. key'[s] # NoWord BY <2>1 DEF HInv, IInv, SessionInv, KeyInv
    <3>2. remote(s) \notin up' BY <2>1 DEF HInv, TalkInv, UpInv, Connected, ServerSteps
    <3> QED BY <1>1, <2>1, <3>1, <3>2, PhaseIs, PhaseTable
  <2>2. CASE step[s] = "closer" /\ step'[s] = "closec"
    <3>1. remote(s) \in up' BY <1>1, <2>2 DEF HInv, TalkInv, UpInv
    <3> QED BY <1>1, <2>2, <3>1, PhaseIs, PhaseTable
  <2> QED BY <1>2, <2>1, <2>2
<1>4. Phase(s) = "tie" BY <1>1, PhaseNow
<1>5. UNCHANGED EP!refVars /\ UNCHANGED EP!endVars BY <1>1, <1>2, EPUntied
<1>6. UNCHANGED EP!socketVars /\ UNCHANGED EP!dbVars
  BY <1>1 DEF EP!socketVars, EP!dbVars, dbVars
<1>7. EP!CloseFds({fd_[EP!follower(s)]}) /\ UNCHANGED fd_
  <2>1. remote(s) \in Held BY <1>1, HeldEnds DEF HasRemote
  <2> QED BY <1>1, <2>1, EPClose DEF EP!follower, remote
<1> QED BY <1>2, <1>3, <1>4, <1>5, <1>6, <1>7, EPConstant DEF EP!RemoteFails

\* The last close of a handshake is EndPoint's HandshakeFails.
LEMMA CloseRefines ==
    ASSUME HInv, HInv', NEW s \in Sessions, CloseClient(s)
    PROVE  EP!HandshakeFails(s)
<1> USE EndsOfSession
<1>1. /\ step[s] = "closec" /\ GoTo(s, "done") /\ Close(clnt_(s))
      /\ up' = up \ {clnt_(s), remote(s)} /\ key' = [key EXCEPT ![s] = NoWord]
      /\ UNCHANGED <<hup, dbVars>> /\ "done" \in Steps
  BY DEF CloseClient, Steps
<1>2. /\ step'[s] = "done"
      /\ \A t \in Sessions \ {s} : SamePhase(t)
      /\ EP!GoTo(s, Phase(s)')
  BY <1>1, EPMoves DEF HInv, IInv, TypeInv, LocalTypes
<1>3. Phase(s)' = "done" BY <1>1, <1>2, PhaseIs, PhaseTable
<1>4. Phase(s) \in {"auth", "connect", "fail"} BY <1>1, PhaseNow
<1>5. UNCHANGED EP!refVars /\ UNCHANGED EP!endVars BY <1>1, <1>2, EPUntied
<1>6. UNCHANGED EP!socketVars /\ UNCHANGED EP!dbVars
  BY <1>1 DEF EP!socketVars, EP!dbVars, dbVars
<1>7. EP!CloseFds({fd_[EP!leader(s)]}) /\ UNCHANGED fd_
  <2>1. clnt_(s) \in Held BY <1>1, HeldEnds DEF HasClient
  <2> QED BY <1>1, <2>1, EPClose DEF EP!leader, clnt_
<1> QED BY <1>2, <1>3, <1>4, <1>5, <1>6, <1>7, EPConstant DEF EP!HandshakeFails

\* tie_fd is EndPoint's.
LEMMA TieRefines ==
    ASSUME HInv, HInv', NEW s \in Sessions, Tie(s)
    PROVE  EP!Tie(s)
<1> USE EndsOfSession
<1>1. /\ step[s] = "tie" /\ GoTo(s, "tied")
      /\ UNCHANGED <<fdVars, up, hup, key, dbVars>> /\ "tied" \in Steps /\ "tie" \in ServerSteps
  BY DEF Tie, partyVars, Steps, ServerSteps
<1>2. /\ step'[s] = "tied"
      /\ \A t \in Sessions \ {s} : SamePhase(t)
      /\ EP!GoTo(s, Phase(s)')
  BY <1>1, EPMoves
<1>3. Phase(s)' = "ref1" BY <1>1, <1>2, PhaseIs, PhaseTable
<1>4. Phase(s) = "tie" BY <1>1, PhaseNow
<1>5. /\ UNCHANGED EP!kernelVars /\ UNCHANGED EP!dbVars /\ UNCHANGED fd_
  BY <1>1 DEF EP!kernelVars, EP!dbVars, dbVars, fdVars
<1>6. {t \in Sessions : step'[t] = "tied"} = {t \in Sessions : step[t] = "tied"} \cup {s}
  BY <1>1, <1>2 DEF SamePhase
<1>7. [e \in Ends |-> IF step'[e[1]] = "tied" THEN 1 ELSE 0]
          = [e \in Ends |-> IF e[1] = s THEN 1
                            ELSE [x \in Ends |-> IF step[x[1]] = "tied" THEN 1 ELSE 0][e]]
  <2>1. \A e \in Ends : e[1] \in Sessions BY DEF Ends
  <2> QED BY <1>1, <1>2, <2>1 DEF SamePhase
<1> QED BY <1>2, <1>3, <1>4, <1>5, <1>6, <1>7, EPConstant DEF EP!Tie, EP!Ends, EP!Sides, Ends, Sides
-------------------------------------------------------------------------------
(* The refinement.                                                         *)

\* The party at the other end hangs up, to the same effect; the ready list of
\* epoll is empty because nothing is registered yet.
LEMMA HangupRefines ==
    ASSUME HInv, NEW e \in Ends, Hangup(e)
    PROVE  EP!Environment
<1>1. /\ EP!IsOpen(e) /\ e \notin hup /\ e \in HangupEnds /\ hup' = hup \cup {e}
      /\ UNCHANGED <<fdVars, up, step, key, dbVars>>
  BY DEF Hangup, Present, localVars, lookupVars
<1>2. \A t \in Sessions : SamePhase(t) BY <1>1, PhaseStays
<1>3. UNCHANGED EP!refVars /\ UNCHANGED EP!endVars BY <1>2, EPTied DEF SamePhase
<1>4. [t \in Sessions |-> Phase(t)]' = [t \in Sessions |-> Phase(t)]
  BY <1>2 DEF SamePhase
<1>5. UNCHANGED EP!dbVars /\ UNCHANGED fd_ /\ UNCHANGED file
  BY <1>1 DEF EP!dbVars, dbVars, fdVars
<1>6. EP!Hangup(e) BY <1>1, <1>5 DEF EP!Hangup
<1>7. e \in EP!Ends BY DEF EP!Ends, EP!Sides, Ends, Sides
<1> QED BY <1>3, <1>4, <1>5, <1>6, <1>7, EPConstant DEF EP!Environment, EP!Outside

\* A change of the database is EndPoint's.
LEMMA EditRefines ==
    ASSUME HInv, NEW k \in Edited, EditRoute(k)
    PROVE  EP!Environment
<1>1. /\ edits < MaxEdits /\ edits' = edits + 1
      /\ routes' = IF k \in routes THEN routes \ {k} ELSE routes \cup {k}
      /\ UNCHANGED <<fdVars, up, hup, step, key>>
  BY DEF EditRoute, partyVars, localVars, lookupVars
<1>2. \A t \in Sessions : SamePhase(t) BY <1>1, PhaseStays
<1>3. UNCHANGED EP!refVars /\ UNCHANGED EP!endVars BY <1>2, EPTied DEF SamePhase
<1>4. [t \in Sessions |-> Phase(t)]' = [t \in Sessions |-> Phase(t)]
  BY <1>2 DEF SamePhase
<1>5. UNCHANGED EP!kernelVars /\ UNCHANGED fd_ BY <1>1 DEF EP!kernelVars, fdVars
<1>6. EP!EditRoute(k) BY <1>1, <1>3, <1>4, <1>5, EPConstant DEF EP!EditRoute
<1>7. k \in Keys BY VncOperatorAssumption DEF VncOperatorAssumption
<1> QED BY <1>6, <1>7 DEF EP!Environment

\* Every step is a step of the handshake of EndPoint or a stutter.
LEMMA HandshakeRefines ==
    ASSUME HInv, HInv', [Next]_vars
    PROVE  [EP!HandshakeNext]_(EP!vars)
<1>1. ASSUME NEW s \in Sessions, Accept(s) \/ Operator(s) \/ Lock(s)
      PROVE  [EP!HandshakeNext]_(EP!vars)
  <2>1. CASE Accept(s)
    BY <2>1, AcceptRefines DEF EP!HandshakeNext
  <2>2. CASE Socket(s) \/ ConnectFails(s) \/ CloseRemote(s) \/ CloseClient(s) \/ Tie(s)
    BY <2>2, SocketRefines, RemoteRefines, CloseRefines, TieRefines
       DEF EP!HandshakeNext, EP!Handshake
  <2>3. CASE RowCompare(s) /\ Matches(s)
    BY <2>3, CompareRefines DEF EP!HandshakeNext, EP!Handshake
  <2>4. CASE PlainStep(s) /\ ~Tie(s) /\ ~(RowCompare(s) /\ Matches(s))
    <3>1. key' = key
      BY <2>4 DEF PlainStep, SendToClient, SendToServer, SendMessage, SendFails, RecvFails,
         RecvVersion, RecvType, RecvResponse, LookUp, RowKey, RowCompare, QueryReturns, QueryFails,
         Lock, LockQuery, LockAnswer, Resolve, SocketFails, ConnectSucceeds, GiveUp, RecvCount,
         RecvTypes, RecvChallenge, AnswerDes, localVars, lookupVars
    <3>2. step[s] # "tie"
      BY <2>4 DEF PlainStep, SendToClient, SendToServer, SendMessage, SendFails, RecvFails,
         RecvVersion, RecvType, RecvResponse, LookUp, RowKey, RowCompare, QueryReturns, QueryFails,
         Lock, LockQuery, LockAnswer, Resolve, SocketFails, ConnectSucceeds, GiveUp, RecvCount,
         RecvTypes, RecvChallenge, AnswerDes
    <3> QED BY <2>4, <3>1, <3>2, PlainStutters
  <2> QED BY <1>1, <2>1, <2>2, <2>3, <2>4, SessionSteps
<1>2. ASSUME UNCHANGED <<fdVars, up, hup, step, key, dbVars>> PROVE UNCHANGED EP!vars
  <2>1. \A t \in Sessions : SamePhase(t) BY <1>2, PhaseStays
  <2> QED BY <1>2, <2>1, EPStutter DEF fdVars
<1>3. CASE UNCHANGED vars
  BY <1>2, <1>3 DEF vars, partyVars, localVars, lookupVars
<1>4. ASSUME NEW e \in Ends, Greet(e) \/ Reply(e) PROVE UNCHANGED EP!vars
  BY <1>2, <1>4 DEF Greet, Reply, localVars, lookupVars
<1>5. ASSUME NEW e \in Ends, Hangup(e) PROVE EP!HandshakeNext
  BY <1>5, HangupRefines DEF EP!HandshakeNext
<1>6. ASSUME NEW k \in Edited, EditRoute(k) PROVE EP!HandshakeNext
  BY <1>6, EditRefines DEF EP!HandshakeNext
<1> QED BY <1>1, <1>3, <1>4, <1>5, <1>6 DEF Next

\* The initial states are EndPoint's.
LEMMA HandshakeInit == Init => EP!Init
<1> SUFFICES ASSUME Init PROVE EP!Init
  OBVIOUS
<1>1. /\ file = [fd \in Fds |-> NoEnd] /\ fd_ = [e \in Ends |-> 0] /\ hup = {}
      /\ routes = Keys /\ edits = 0 /\ \A s \in Sessions : step[s] = "idle"
  BY DEF Init
<1>2. "idle" \in Steps BY DEF Steps
<1>3. \A s \in Sessions : Phase(s) = "idle" BY <1>1, <1>2, PhaseIs, PhaseTable
<1>4. [s \in Sessions |-> Phase(s)] = [s \in Sessions |-> "idle"] BY <1>3
<1>5. {s \in Sessions : step[s] = "tied"} = {} BY <1>1
<1>6. [e \in Ends |-> IF step[e[1]] = "tied" THEN 1 ELSE 0] = [e \in Ends |-> 0]
  <2>1. \A e \in Ends : e[1] \in Sessions BY DEF Ends
  <2> QED BY <1>1, <2>1
<1>7. EP!KernelInit
  BY <1>1 DEF EP!KernelInit, EP!Fds, EP!Ends, EP!Sides, Fds, Ends, Sides
<1>8. EP!PollThreadInit
  BY <1>1, <1>6 DEF EP!PollThreadInit, EP!Fds, EP!Ends, EP!Sides, EP!Absent, EP!NoFd,
     Fds, Ends, Sides
<1> QED BY <1>1, <1>4, <1>5, <1>7, <1>8
       DEF EP!Init, EP!Ends, EP!Sides, EP!NoEvent, EP!Shutters, Ends, Sides

\* VncOperator::run does to descriptors, records and EndPoints what the
\* handshake steps of EndPoint do, and nothing else.
THEOREM HandshakeImplementsEndPoint == Spec => ImplementsEndPoint
<1>1. HInv /\ HInv' /\ [Next]_vars => [EP!HandshakeNext]_(EP!vars)
  BY HandshakeRefines
<1> QED BY <1>1, HandshakeInit, HInvariant, PTL DEF Spec, ImplementsEndPoint, EP!HandshakeSpec

===============================================================================
