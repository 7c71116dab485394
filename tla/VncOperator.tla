------------------------------ MODULE VncOperator ------------------------------
(***************************************************************************)
(* VncOperator::run of vncproxy.cc up to tie_fd: the RFB 3.8 handshake of  *)
(* a pool thread with the client, the look-up of the client's key in the   *)
(* database, connect_to and the handshake with the server found there.     *)
(*                                                                         *)
(* A step is a system call, a critical section or one use of the DES key   *)
(* register that all threads share under global_m.  A party outside reads  *)
(* what it is sent, answers as RFB 3.8 prescribes (perhaps with the wrong  *)
(* version, the wrong password or no security type of use) and may hang up *)
(* at any time.  Sends and receives are of whole messages, except that a   *)
(* recv() from a party that has hung up returns what there is: only a      *)
(* negative result is an error for the code, so a short one leaves old     *)
(* bytes in the buffer and the handshake goes on with them.                *)
(*                                                                         *)
(* DES is symbolic: the result is the pair of the key in the register and  *)
(* the text, two keys never give the same result, challenges never repeat. *)
(***************************************************************************)
EXTENDS Naturals, Sequences, FiniteSets

CONSTANTS
    Sessions,     \* client connections, each used at most once
    NFds,         \* descriptor numbers available
    HangupEnds,   \* ends whose party may hang up, or err in version or password
    Offers,       \* Offers[s]: the sets of security types the server may offer
    NoEnd,        \* not an end
    Keys,         \* forward keys
    KeyOf,        \* KeyOf[s]: the key the client of session s knows
    PasswdOf,     \* PasswdOf[k]: dest_passwd of the record of k, or NoWord
    NoWord,       \* not a DES key: NULL in the table, an empty register
    Edited,       \* keys whose records may be deleted or inserted
    MaxAddrs,     \* addresses a destination resolves to, at most
    MaxEdits      \* deletions and insertions of records in a run

Sides == {"client", "remote"}
Ends == Sessions \X Sides
Fds == 1 .. NFds
clnt_(s) == <<s, "client">>
remote(s) == <<s, "remote">>

Types == {"none", "vnc"}

ASSUME VncOperatorAssumption ==
    /\ NFds \in Nat
    /\ HangupEnds \subseteq Ends
    /\ NoEnd \notin Ends
    /\ "free" \notin Sessions
    /\ Offers \in [Sessions -> SUBSET SUBSET Types]
    /\ KeyOf \in [Sessions -> Keys]
    /\ DOMAIN PasswdOf = Keys
    /\ NoWord \notin Keys
    /\ Edited \subseteq Keys
    /\ MaxAddrs \in Nat
    /\ MaxEdits \in Nat

Words == Keys \cup {PasswdOf[k] : k \in Keys} \cup {NoWord}

\* What rfbDes makes of a challenge: ciphertexts, and bytes that are none.
Challenges == Ends
Junk == [key |-> NoWord, text |-> NoEnd]
Texts == [key : Words, text : Challenges] \cup {Junk}

Msg(kind, val) == [kind |-> kind, val |-> val]

VARIABLES
    file,      \* file[fd]: the socket descriptor fd refers to, NoEnd if closed
    fd_,       \* fd_[e]: the descriptor clnt_ or remote_fd of a session
    up,        \* ends with an established connection
    hup,       \* ends whose party has hung up
    said,      \* said[e]: the messages the proxy has sent to e
    heard,     \* heard[e]: how many of them the party has read
    told,      \* told[e]: the messages the party at e has sent
    got,       \* got[e]: how many of them the proxy has received
    step,      \* where the operator of each session is
    challenge, \* challenge[s], response[s]: the arrays of its run()
    response,
    key,       \* auth_info.forward_key, NoWord until a record has matched
    rows,      \* the records the query has still to visit
    row,       \* the record whose key is in auth_key
    addrs,     \* the addresses connect_to has still to try
    reg,       \* the key register of d3des.c
    global_m,  \* the session whose operator holds the mutex, or "free"
    routes,    \* keys of the records in the database
    edits      \* changes of the database so far

fdVars == <<file, fd_>>
partyVars == <<up, hup, heard, told>>
lookupVars == <<key, rows, row>>
localVars == <<challenge, response, lookupVars, addrs>>
dbVars == <<routes, edits>>
vars == <<fdVars, partyVars, said, got, step, localVars, reg, global_m, dbVars>>

\* Steps are named for the call to come.
ClientSteps == {"greet", "version", "offer", "type", "challenge", "response", "lock", "row",
                "des", "refuse"}
ConnectSteps == {"resolve", "socket", "connect"}
ServerSteps == {"sversion", "agree", "count", "types", "none", "vnc", "schallenge", "slock",
                "sdes", "answer", "tie", "closer"}
Steps == {"idle", "closec", "done", "tied"} \cup ClientSteps \cup ConnectSteps \cup ServerSteps

Init ==
    /\ file = [fd \in Fds |-> NoEnd]
    /\ fd_ = [e \in Ends |-> 0]
    /\ up = {}
    /\ hup = {}
    /\ said = [e \in Ends |-> <<>>]
    /\ heard = [e \in Ends |-> 0]
    /\ told = [e \in Ends |-> <<>>]
    /\ got = [e \in Ends |-> 0]
    /\ step = [s \in Sessions |-> "idle"]
    /\ challenge = [s \in Sessions |-> NoEnd]
    /\ response = [s \in Sessions |-> Junk]
    /\ key = [s \in Sessions |-> NoWord]
    /\ rows = [s \in Sessions |-> {}]
    /\ row = [s \in Sessions |-> NoWord]
    /\ addrs = [s \in Sessions |-> 0]
    /\ reg = NoWord
    /\ global_m = "free"
    /\ routes = Keys
    /\ edits = 0

-------------------------------------------------------------------------------
(* The handshake of EndPoint is the abstraction of this one: which of its  *)
(* steps an operator is at.                                                *)

Phase(s) ==
    CASE step[s] \in ClientSteps /\ key[s] = NoWord -> "auth"
      [] step[s] \in ClientSteps /\ key[s] # NoWord -> "connect"
      [] step[s] \in {"resolve", "socket"} -> "connect"
      [] step[s] \in {"connect"} \cup ServerSteps -> "tie"
      [] step[s] = "closec" ->
            IF remote(s) \in up THEN "fail"
            ELSE IF key[s] = NoWord THEN "auth" ELSE "connect"
      [] step[s] = "tied" -> "ref1"
      [] OTHER -> step[s]

EP == INSTANCE EndPoint WITH
    SendBuf <- 1, MaxBytes <- [e \in Ends |-> 0], MaxNev <- 1, AllowStop <- FALSE,
    sent <- [e \in Ends |-> 0], rd <- [e \in Ends |-> 0], wr <- [e \in Ends |-> <<>>],
    taken <- [e \in Ends |-> 0], eptr <- [e \in Ends |-> NoEnd], emask <- [e \in Ends |-> {}],
    rdy <- {}, poll_set_ <- {}, mode_ <- [fd \in Fds |-> {}], pending_remove_ <- {},
    refcnt_ <- [e \in Ends |-> IF step[e[1]] = "tied" THEN 1 ELSE 0], freed <- {},
    enabled_ <- [e \in Ends |-> FALSE], buf_ <- [e \in Ends |-> <<>>],
    all_tie_leaders <- {s \in Sessions : step[s] = "tied"},
    opc <- [s \in Sessions |-> Phase(s)],
    ppc <- "wait", batch <- {}, cur <- [sock |-> NoEnd, ptr |-> NoEnd, ev |-> {}],
    removing <- {}, sdpc <- [t \in {"poll", "cleanup"} |-> "idle"],
    sds <- [t \in {"poll", "cleanup"} |-> NoEnd], cpc <- "query", valid <- {}, outlier <- {},
    mpc <- "run", dtor <- {}, stop <- FALSE, stop_flag_ <- FALSE, missed <- {}, crash <- "none"

-------------------------------------------------------------------------------
(* Calls.                                                                  *)

GoTo(s, next) == step' = [step EXCEPT ![s] = next]

\* accept() or socket(): the lowest free descriptor becomes socket e.
OpenSocket(e) ==
    \E fd \in Fds :
        /\ EP!LowestFree(fd)
        /\ file' = [file EXCEPT ![fd] = e]
        /\ fd_' = [fd_ EXCEPT ![e] = fd]

\* close(): the connection goes with the descriptor.
Close(e) ==
    /\ file' = [file EXCEPT ![fd_[e]] = NoEnd]
    /\ said' = [said EXCEPT ![e] = <<>>]
    /\ heard' = [heard EXCEPT ![e] = 0]
    /\ told' = [told EXCEPT ![e] = <<>>]
    /\ got' = [got EXCEPT ![e] = 0]
    /\ UNCHANGED fd_

Send(e, m) == said' = [said EXCEPT ![e] = Append(@, m)]

\* recv() returns a message of some kind, with value Incoming(e); it returns
\* what there is, because the party has hung up.
Incoming(e) == told[e][got[e] + 1].val

Receives(e, kind) ==
    /\ got[e] < Len(told[e])
    /\ told[e][got[e] + 1].kind = kind
    /\ got' = [got EXCEPT ![e] = @ + 1]

ReceivesShort(e) ==
    /\ e \in hup
    /\ got[e] = Len(told[e])
    /\ UNCHANGED got

\* (mutant) Nobody waits for the mutex.
AcquireUnguarded(t) == global_m' = t

Acquire(t) == global_m = "free" /\ global_m' = t
Release == global_m' = "free"

\* Where an error of a call leads: close(remote_fd) first, if there is one.
OnError(s) == IF step[s] \in ServerSteps THEN "closer" ELSE "closec"

-------------------------------------------------------------------------------
(* The client's part.                                                      *)

\* main(): accept() and run_async().
Accept(s) ==
    /\ step[s] = "idle"
    /\ OpenSocket(clnt_(s))
    /\ up' = up \cup {clnt_(s)}
    /\ GoTo(s, "greet")
    /\ UNCHANGED <<hup, heard, told, said, got, localVars, reg, global_m, dbVars>>

\* send() of message m to end e, at step from.
SendMessage(s, from, e, m, next) ==
    /\ step[s] = from
    /\ Send(e, m)
    /\ challenge' = IF from = "challenge" THEN [challenge EXCEPT ![s] = clnt_(s)] ELSE challenge
    /\ GoTo(s, next)
    /\ UNCHANGED <<fdVars, partyVars, got, response, lookupVars, addrs, reg, global_m, dbVars>>

SendToClient(s) ==
    \/ SendMessage(s, "greet", clnt_(s), Msg("version", TRUE), "version")
    \/ SendMessage(s, "offer", clnt_(s), Msg("types", {"vnc"}), "type")
    \/ SendMessage(s, "challenge", clnt_(s), Msg("challenge", clnt_(s)), "response")
    \/ SendMessage(s, "refuse", clnt_(s), Msg("result", "fail"), "closec")

SendToServer(s) ==
    \/ SendMessage(s, "agree", remote(s), Msg("version", TRUE), "count")
    \/ SendMessage(s, "none", remote(s), Msg("type", "none"), "tie")
    \/ SendMessage(s, "vnc", remote(s), Msg("type", "vnc"), "schallenge")
    \/ SendMessage(s, "answer", remote(s), Msg("response", response[s]), "tie")

\* send() fails only when the party is gone, and need not fail even then.
SendFails(s) ==
    /\ \/ step[s] \in {"greet", "offer", "challenge", "refuse"} /\ clnt_(s) \in hup
       \/ step[s] \in {"agree", "none", "vnc", "answer"} /\ remote(s) \in hup
    /\ GoTo(s, OnError(s))
    /\ UNCHANGED <<fdVars, partyVars, said, got, localVars, reg, global_m, dbVars>>

\* recv() < 0: the connection was reset.
RecvFails(s) ==
    /\ \/ step[s] \in {"version", "type", "response"} /\ clnt_(s) \in hup
       \/ step[s] \in {"sversion", "count", "types", "schallenge"} /\ remote(s) \in hup
    /\ GoTo(s, OnError(s))
    /\ UNCHANGED <<fdVars, partyVars, said, got, localVars, reg, global_m, dbVars>>

\* The version that is compared: what the party sent or, after a short recv(),
\* whatever the buffer held before, which may be the right version.
RecvVersion(s, e, from, next) ==
    /\ step[s] = from
    /\ \/ Receives(e, "version") /\ GoTo(s, IF Incoming(e) THEN next ELSE OnError(s))
       \/ ReceivesShort(e) /\ \E to \in {next, OnError(s)} : GoTo(s, to)
    /\ UNCHANGED <<fdVars, partyVars, said, localVars, reg, global_m, dbVars>>

\* The type the client chooses is not looked at.
RecvType(s) ==
    /\ step[s] = "type"
    /\ Receives(clnt_(s), "type") \/ ReceivesShort(clnt_(s))
    /\ GoTo(s, "challenge")
    /\ UNCHANGED <<fdVars, partyVars, said, localVars, reg, global_m, dbVars>>

\* Old bytes are no response to a fresh challenge.
RecvResponse(s) ==
    /\ step[s] = "response"
    /\ \/ /\ Receives(clnt_(s), "response")
          /\ response' = [response EXCEPT ![s] = Incoming(clnt_(s))]
       \/ /\ ReceivesShort(clnt_(s))
          /\ response' = [response EXCEPT ![s] = Junk]
    /\ GoTo(s, "lock")
    /\ UNCHANGED <<fdVars, partyVars, said, challenge, lookupVars, addrs, reg, global_m, dbVars>>

-------------------------------------------------------------------------------
(* The look-up, under global_m.                                            *)

\* sqlite3_exec starts: its rows are those of this moment.
LockQuery(s) ==
    /\ step[s] = "lock"
    /\ Acquire(s)
    /\ rows' = [rows EXCEPT ![s] = routes]
    /\ GoTo(s, "row")
    /\ UNCHANGED <<fdVars, partyVars, said, got, challenge, response, key, row, addrs, reg, dbVars>>

\* vnc_auth_callback on a row: rfbDesKey sets the register ...
RowKey(s) ==
    /\ step[s] = "row"
    /\ key[s] = NoWord
    /\ \E k \in rows[s] :
          /\ reg' = k
          /\ row' = [row EXCEPT ![s] = k]
    /\ GoTo(s, "des")
    /\ UNCHANGED <<fdVars, partyVars, said, got, challenge, response, key, rows, addrs, global_m, dbVars>>

Encrypted(text) == IF text = NoEnd THEN Junk ELSE [key |-> reg, text |-> text]

Matches(s) == response[s] = Encrypted(challenge[s])

\* (mutant) A row that does not match ends the look-up.
RowCompareOnce(s) ==
    /\ step[s] = "des"
    /\ rows' = [rows EXCEPT ![s] = {}]
    /\ row' = [row EXCEPT ![s] = NoWord]
    /\ key' = IF Matches(s) THEN [key EXCEPT ![s] = row[s]] ELSE key
    /\ GoTo(s, "row")
    /\ UNCHANGED <<fdVars, partyVars, said, got, challenge, response, addrs, reg, global_m, dbVars>>

\* ... and rfbDes encrypts the challenge with it, to compare with the response.
RowCompare(s) ==
    /\ step[s] = "des"
    /\ rows' = [rows EXCEPT ![s] = @ \ {row[s]}]
    /\ row' = [row EXCEPT ![s] = NoWord]
    /\ key' = IF Matches(s) THEN [key EXCEPT ![s] = row[s]] ELSE key
    /\ GoTo(s, "row")
    /\ UNCHANGED <<fdVars, partyVars, said, got, challenge, response, addrs, reg, global_m, dbVars>>

\* (mutant) A refused client is connected to the last record.
QueryReturnsUnchecked(s) ==
    /\ step[s] = "row"
    /\ rows[s] = {} \/ key[s] # NoWord
    /\ Release
    /\ GoTo(s, "resolve")
    /\ UNCHANGED <<fdVars, partyVars, said, got, localVars, reg, dbVars>>

\* No row is left that matters.
QueryReturns(s) ==
    /\ step[s] = "row"
    /\ rows[s] = {} \/ key[s] # NoWord
    /\ Release
    /\ GoTo(s, IF key[s] = NoWord THEN "refuse" ELSE "resolve")
    /\ UNCHANGED <<fdVars, partyVars, said, got, localVars, reg, dbVars>>

\* (mutant) The error return keeps the mutex.
QueryFailsLocked(s) ==
    /\ step[s] = "row"
    /\ GoTo(s, "closec")
    /\ UNCHANGED <<fdVars, partyVars, said, got, localVars, reg, global_m, dbVars>>

\* An sqlite error, at any row.
QueryFails(s) ==
    /\ step[s] = "row"
    /\ Release
    /\ GoTo(s, "closec")
    /\ UNCHANGED <<fdVars, partyVars, said, got, localVars, reg, dbVars>>

LookUp(s) == RowKey(s) \/ RowCompare(s) \/ QueryReturns(s) \/ QueryFails(s)

-------------------------------------------------------------------------------
(* connect_to().                                                           *)

\* getaddrinfo(): some addresses, or an error.
Resolve(s) ==
    /\ step[s] = "resolve"
    /\ \E n \in 0 .. MaxAddrs : addrs' = [addrs EXCEPT ![s] = n]
    /\ GoTo(s, "socket")
    /\ UNCHANGED <<fdVars, partyVars, said, got, challenge, response, lookupVars, reg, global_m, dbVars>>

Socket(s) ==
    /\ step[s] = "socket"
    /\ addrs[s] > 0
    /\ OpenSocket(remote(s))
    /\ GoTo(s, "connect")
    /\ UNCHANGED <<partyVars, said, got, localVars, reg, global_m, dbVars>>

\* socket() == -1: try the next address.
SocketFails(s) ==
    /\ step[s] = "socket"
    /\ addrs[s] > 0
    /\ \A fd \in Fds : file[fd] # NoEnd
    /\ addrs' = [addrs EXCEPT ![s] = @ - 1]
    /\ UNCHANGED <<fdVars, partyVars, said, got, step, challenge, response, lookupVars, reg, global_m, dbVars>>

ConnectSucceeds(s) ==
    /\ step[s] = "connect"
    /\ up' = up \cup {remote(s)}
    /\ GoTo(s, "sversion")
    /\ UNCHANGED <<fdVars, hup, heard, told, said, got, localVars, reg, global_m, dbVars>>

\* (mutant) The loop advances to the next address twice.
ConnectFailsSkips(s) ==
    /\ step[s] = "connect"
    /\ Close(remote(s))
    /\ addrs' = [addrs EXCEPT ![s] = @ - 2]
    /\ GoTo(s, "socket")
    /\ UNCHANGED <<up, hup, challenge, response, lookupVars, reg, global_m, dbVars>>

\* ::connect() fails: close, and try the next address.
ConnectFails(s) ==
    /\ step[s] = "connect"
    /\ Close(remote(s))
    /\ addrs' = [addrs EXCEPT ![s] = @ - 1]
    /\ GoTo(s, "socket")
    /\ UNCHANGED <<up, hup, challenge, response, lookupVars, reg, global_m, dbVars>>

\* rp == NULL: connect_to returns -1.
GiveUp(s) ==
    /\ step[s] = "socket"
    /\ addrs[s] = 0
    /\ GoTo(s, "closec")
    /\ UNCHANGED <<fdVars, partyVars, said, got, localVars, reg, global_m, dbVars>>

ConnectTo(s) ==
    Resolve(s) \/ Socket(s) \/ SocketFails(s) \/ ConnectSucceeds(s) \/ ConnectFails(s) \/ GiveUp(s)

-------------------------------------------------------------------------------
(* The server's part.                                                      *)

RecvCount(s) ==
    /\ step[s] = "count"
    /\ Receives(remote(s), "count") \/ ReceivesShort(remote(s))
    /\ GoTo(s, "types")
    /\ UNCHANGED <<fdVars, partyVars, said, localVars, reg, global_m, dbVars>>

\* The type the code asks for: none if it can, else vnc if it has a password.
Choice(s, support) ==
    IF "none" \in support THEN "none"
    ELSE IF "vnc" \in support /\ PasswdOf[key[s]] # NoWord THEN "vnc"
    ELSE "closer"

\* (mutant) The list of types is left in the socket.
RecvTypesUnread(s) ==
    /\ step[s] = "types"
    /\ \E types \in SUBSET Types : GoTo(s, Choice(s, types))
    /\ UNCHANGED <<fdVars, partyVars, said, got, localVars, reg, global_m, dbVars>>

\* After a short recv() the loop looks at old bytes and past the buffer.
RecvTypes(s) ==
    /\ step[s] = "types"
    /\ \E types \in SUBSET Types :
          /\ \/ Receives(remote(s), "types") /\ types = Incoming(remote(s))
             \/ ReceivesShort(remote(s))
          /\ GoTo(s, Choice(s, types))
    /\ UNCHANGED <<fdVars, partyVars, said, localVars, reg, global_m, dbVars>>

\* After a short recv() the array still holds (part of) the client's challenge.
RecvChallenge(s) ==
    /\ step[s] = "schallenge"
    /\ \/ /\ Receives(remote(s), "challenge")
          /\ challenge' = [challenge EXCEPT ![s] = Incoming(remote(s))]
       \/ /\ ReceivesShort(remote(s))
          /\ \E c \in {clnt_(s), NoEnd} : challenge' = [challenge EXCEPT ![s] = c]
    /\ GoTo(s, "slock")
    /\ UNCHANGED <<fdVars, partyVars, said, response, lookupVars, addrs, reg, global_m, dbVars>>

\* (mutant) The register still has the forward key.
LockAnswerKeyless(s) ==
    /\ step[s] = "slock"
    /\ Acquire(s)
    /\ GoTo(s, "sdes")
    /\ UNCHANGED <<fdVars, partyVars, said, got, localVars, reg, dbVars>>

\* global_m again, around rfbDesKey with dest_passwd ...
LockAnswer(s) ==
    /\ step[s] = "slock"
    /\ Acquire(s)
    /\ reg' = PasswdOf[key[s]]
    /\ GoTo(s, "sdes")
    /\ UNCHANGED <<fdVars, partyVars, said, got, localVars, dbVars>>

\* ... and rfbDes.
AnswerDes(s) ==
    /\ step[s] = "sdes"
    /\ response' = [response EXCEPT ![s] = Encrypted(challenge[s])]
    /\ Release
    /\ GoTo(s, "answer")
    /\ UNCHANGED <<fdVars, partyVars, said, got, challenge, lookupVars, addrs, reg, dbVars>>

\* The early returns: close(remote_fd) if there is one, then close(clnt_).
CloseRemote(s) ==
    /\ step[s] = "closer"
    /\ Close(remote(s))
    /\ GoTo(s, "closec")
    /\ UNCHANGED <<up, hup, localVars, reg, global_m, dbVars>>

\* (mutant) The client's socket is forgotten.
CloseClientForgotten(s) ==
    /\ step[s] = "closec"
    /\ GoTo(s, "done")
    /\ UNCHANGED <<fdVars, partyVars, said, got, localVars, reg, global_m, dbVars>>

\* The local variables of run() are gone, but for the key, which the properties use.
Return(s) ==
    /\ challenge' = [challenge EXCEPT ![s] = NoEnd]
    /\ response' = [response EXCEPT ![s] = Junk]
    /\ rows' = [rows EXCEPT ![s] = {}]
    /\ row' = [row EXCEPT ![s] = NoWord]
    /\ addrs' = [addrs EXCEPT ![s] = 0]

CloseClient(s) ==
    /\ step[s] = "closec"
    /\ Close(clnt_(s))
    /\ up' = up \ {clnt_(s), remote(s)}
    /\ Return(s)
    /\ key' = [key EXCEPT ![s] = NoWord]
    /\ GoTo(s, "done")
    /\ UNCHANGED <<hup, reg, global_m, dbVars>>

\* tie_fd() takes over both descriptors.
Tie(s) ==
    /\ step[s] = "tie"
    /\ Return(s)
    /\ GoTo(s, "tied")
    /\ UNCHANGED <<fdVars, partyVars, said, got, key, reg, global_m, dbVars>>

Operator(s) ==
    \/ SendToClient(s) \/ SendToServer(s) \/ SendFails(s) \/ RecvFails(s)
    \/ RecvVersion(s, clnt_(s), "version", "offer") \/ RecvType(s) \/ RecvResponse(s)
    \/ LookUp(s) \/ ConnectTo(s)
    \/ RecvVersion(s, remote(s), "sversion", "agree") \/ RecvCount(s) \/ RecvTypes(s)
    \/ RecvChallenge(s) \/ AnswerDes(s)
    \/ CloseRemote(s) \/ CloseClient(s) \/ Tie(s)

Lock(s) == LockQuery(s) \/ LockAnswer(s)

-------------------------------------------------------------------------------
(* The parties outside and the administrator.                              *)

\* TRUE, or also FALSE from a party that errs.
Right(e) == {TRUE, e \notin HangupEnds}

\* What a client and a server may answer to message m.
ClientReplies(e, m) ==
    IF m.kind = "version" THEN {<<Msg("version", ok)>> : ok \in Right(e)}
    ELSE IF m.kind = "types" THEN {<<Msg("type", "vnc")>>}
    ELSE IF m.kind = "challenge"
    THEN {<<Msg("response", IF ok THEN [key |-> KeyOf[e[1]], text |-> m.val] ELSE Junk)>> :
              ok \in Right(e)}
    ELSE {<<>>}

ServerReplies(e, m) ==
    IF m.kind = "version"
    THEN {<<Msg("count", Cardinality(types)), Msg("types", types)>> : types \in Offers[e[1]]}
    ELSE IF m = Msg("type", "vnc") THEN {<<Msg("challenge", e)>>}
    ELSE {<<>>}

Replies(e, m) == IF e[2] = "client" THEN ClientReplies(e, m) ELSE ServerReplies(e, m)

Present(e) == e \in up \ hup /\ EP!IsOpen(e)

\* The server speaks first.
Greet(e) ==
    /\ Present(e)
    /\ e[2] = "remote"
    /\ told[e] = <<>>
    /\ \E ok \in Right(e) : told' = [told EXCEPT ![e] = <<Msg("version", ok)>>]
    /\ UNCHANGED <<fdVars, up, hup, heard, said, got, step, localVars, reg, global_m, dbVars>>

Reply(e) ==
    /\ Present(e)
    /\ heard[e] < Len(said[e])
    /\ heard' = [heard EXCEPT ![e] = @ + 1]
    /\ \E r \in Replies(e, said[e][heard[e] + 1]) : told' = [told EXCEPT ![e] = @ \o r]
    /\ UNCHANGED <<fdVars, up, hup, said, got, step, localVars, reg, global_m, dbVars>>

Hangup(e) ==
    /\ Present(e)
    /\ e \in HangupEnds
    /\ hup' = hup \cup {e}
    /\ UNCHANGED <<fdVars, up, heard, told, said, got, step, localVars, reg, global_m, dbVars>>

\* A record is deleted or inserted; sqlite admits no writer during a query.
EditRoute(k) ==
    /\ \A s \in Sessions : step[s] \notin {"row", "des"}
    /\ edits < MaxEdits
    /\ routes' = IF k \in routes THEN routes \ {k} ELSE routes \cup {k}
    /\ edits' = edits + 1
    /\ UNCHANGED <<fdVars, partyVars, said, got, step, localVars, reg, global_m>>

Next ==
    \/ \E s \in Sessions : Accept(s) \/ Operator(s) \/ Lock(s)
    \/ \E e \in Ends : Greet(e) \/ Reply(e) \/ Hangup(e)
    \/ \E k \in Edited : EditRoute(k)

\* Threads run, and the mutex is granted once nobody holds it: an operator takes
\* it at most twice, and cleanup_thread, whose query under it changes nothing
\* here, sleeps a second between two of them.  The parties answer, or hang up.
Fairness ==
    /\ \A s \in Sessions : WF_vars(Operator(s) \/ Lock(s))
    /\ WF_vars(\E e \in Ends : Greet(e) \/ Reply(e))

Spec == Init /\ [][Next]_vars

FairSpec == Spec /\ Fairness

-------------------------------------------------------------------------------
(* Properties.                                                             *)

TypeOK ==
    /\ file \in [Fds -> Ends \cup {NoEnd}]
    /\ fd_ \in [Ends -> 0 .. NFds]
    /\ up \in SUBSET Ends
    /\ hup \in SUBSET Ends
    /\ \A e \in Ends : heard[e] \in 0 .. Len(said[e]) /\ got[e] \in 0 .. Len(told[e])
    /\ step \in [Sessions -> Steps]
    /\ challenge \in [Sessions -> Challenges \cup {NoEnd}]
    /\ response \in [Sessions -> Texts]
    /\ key \in [Sessions -> Keys \cup {NoWord}]
    /\ rows \in [Sessions -> SUBSET Keys]
    /\ row \in [Sessions -> Keys \cup {NoWord}]
    /\ addrs \in [Sessions -> 0 .. MaxAddrs]
    /\ reg \in Words
    /\ global_m \in Sessions \cup {"free"}
    /\ routes \in SUBSET Keys
    /\ edits \in 0 .. MaxEdits

\* The messages of kind in the sequence ms.
Values(ms, kind) == {ms[i].val : i \in {j \in DOMAIN ms : ms[j].kind = kind}}

Answer(k, e) == [key |-> k, text |-> e]

\* vnc_auth_callback: a client is forwarded by the record of key k only if it
\* has answered this session's own challenge with k, whichever threads use the
\* key register meanwhile and whatever a short recv() leaves in the buffers.
RoutedByAnswer ==
    \A s \in Sessions : key[s] # NoWord =>
        Answer(key[s], clnt_(s)) \in Values(told[clnt_(s)], "response")

\* A client that has answered with a key of the database is not refused, as
\* long as the database does not change.
RefusedOnlyUnknown ==
    \A s \in Sessions :
        /\ step[s] = "refuse"
        /\ edits = 0
        /\ Answer(KeyOf[s], clnt_(s)) \in Values(told[clnt_(s)], "response")
        => KeyOf[s] \notin routes

\* "use global_m to protect rfbDes internal variables": what a server gets as a
\* response is its own challenge under the password of the client's record
\* (unless it hung up in the middle of its challenge).
ServerAnswered ==
    \A s \in Sessions : remote(s) \notin hup =>
        \A r \in Values(said[remote(s)], "response") :
            r = Answer(PasswdOf[key[s]], remote(s))

\* "no need to reply 'pass', leave this to remote side": when the two sides are
\* tied the client waits for a SecurityResult, the server's next bytes are its
\* SecurityResult, and nothing either of them has sent before is unread.
InSync ==
    \A s \in Sessions : step[s] = "tied" /\ {clnt_(s), remote(s)} \cap hup = {} =>
        /\ \A e \in {clnt_(s), remote(s)} : got[e] = Len(told[e])
        /\ said[clnt_(s)][Len(said[clnt_(s)])].kind = "challenge"
        /\ LET last == said[remote(s)][Len(said[remote(s)])] IN
           last.kind = "response" \/ (last.kind = "type" /\ last.val = "none")

\* Whatever fails where, the descriptors an operator goes on using are its own,
\* and when it returns without tie_fd both are closed.
OwnDescriptors ==
    \A s \in Sessions :
        /\ step[s] \notin {"idle", "done"} => file[fd_[clnt_(s)]] = clnt_(s)
        /\ step[s] \in {"connect", "tied"} \cup ServerSteps => file[fd_[remote(s)]] = remote(s)
        /\ step[s] \in {"idle", "done"} => ~EP!IsOpen(clnt_(s))
        /\ step[s] \in {"idle", "done", "closec"} => ~EP!IsOpen(remote(s))

\* The handshake does to descriptors, records and EndPoints what the handshake
\* steps of EndPoint do, and nothing else.
ImplementsEndPoint == EP!HandshakeSpec

\* Every handshake ends, tied or closed: no order of messages has both sides
\* wait for each other, and no error path keeps global_m.  (A connection is
\* accepted once, so a handshake that never ended would always be under way.)
HandshakesFinish == []<>(\A s \in Sessions : step[s] \in {"idle", "done", "tied"})

===============================================================================
