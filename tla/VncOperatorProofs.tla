--------------------------- MODULE VncOperatorProofs ---------------------------
(***************************************************************************)
(* Proofs about VncOperator: type correctness, that a client is forwarded  *)
(* only by the record whose key it answered with, and that a server gets   *)
(* the answer to its own challenge under its own password.  The last two   *)
(* hold because the key register is used in critical sections of global_m  *)
(* only, and because what a buffer holds at each step is known.            *)
(***************************************************************************)
EXTENDS VncOperator, FiniteSetTheorems, SequenceTheorems, TLAPS

-------------------------------------------------------------------------------
(* The invariant.                                                          *)

\* The messages on the wire, by kind.
Messages ==
    [kind : {"version"}, val : BOOLEAN]
    \cup [kind : {"type"}, val : Types]
    \cup [kind : {"types"}, val : SUBSET Types]
    \cup [kind : {"count"}, val : Nat]
    \cup [kind : {"challenge"}, val : Ends]
    \cup [kind : {"response"}, val : Texts]
    \cup [kind : {"result"}, val : {"fail"}]

FdTypes ==
    /\ file \in [Fds -> Ends \cup {NoEnd}]
    /\ fd_ \in [Ends -> 0 .. NFds]

WireTypes ==
    /\ up \in SUBSET Ends
    /\ hup \in SUBSET Ends
    /\ said \in [Ends -> Seq(Messages)]
    /\ told \in [Ends -> Seq(Messages)]
    /\ heard \in [Ends -> Nat]
    /\ got \in [Ends -> Nat]
    /\ \A e \in Ends : heard[e] \in 0 .. Len(said[e]) /\ got[e] \in 0 .. Len(told[e])

LocalTypes ==
    /\ challenge \in [Sessions -> Challenges \cup {NoEnd}]
    /\ response \in [Sessions -> Texts]
    /\ key \in [Sessions -> Keys \cup {NoWord}]
    /\ rows \in [Sessions -> SUBSET Keys]
    /\ row \in [Sessions -> Keys \cup {NoWord}]
    /\ addrs \in [Sessions -> 0 .. MaxAddrs]

SharedTypes ==
    /\ reg \in Words
    /\ global_m \in Sessions \cup {"free"}
    /\ routes \in SUBSET Keys
    /\ edits \in 0 .. MaxEdits

TypeInv ==
    /\ FdTypes
    /\ WireTypes
    /\ LocalTypes
    /\ SharedTypes
    /\ step \in [Sessions -> Steps]

\* The critical sections of global_m, and what the register holds in them.
CriticalSteps == {"row", "des", "sdes"}

LockInv(s) ==
    /\ step[s] \in CriticalSteps => global_m = s
    /\ step[s] = "des" => row[s] \in Keys /\ reg = row[s]
    /\ step[s] = "sdes" => reg = PasswdOf[key[s]]

\* Past the look-up a record has matched; connect_to has an address to try.
KeyInv(s) ==
    /\ step[s] \in {"resolve", "socket", "connect", "tied"} \cup ServerSteps => key[s] # NoWord
    /\ step[s] = "connect" => addrs[s] > 0

\* The buffers of the client's part.
ClientInv(s) ==
    /\ step[s] \in {"response", "lock", "row", "des"} => challenge[s] = clnt_(s)
    /\ step[s] \in {"lock", "row", "des"} =>
           response[s] = Junk \/ response[s] \in Values(told[clnt_(s)], "response")

\* The buffers of the server's part, and when it has been sent a response.
ServerInv(s) ==
    /\ step[s] \notin {"tie", "tied", "closer"} => Values(said[remote(s)], "response") = {}
    /\ remote(s) \notin hup =>
           /\ step[s] \in {"slock", "sdes"} => challenge[s] = remote(s)
           /\ step[s] = "answer" => response[s] = Answer(PasswdOf[key[s]], remote(s))

\* RoutedByAnswer and ServerAnswered, of one session.
Routed(s) ==
    key[s] # NoWord => Answer(key[s], clnt_(s)) \in Values(told[clnt_(s)], "response")

Answered(s) ==
    remote(s) \notin hup =>
        \A r \in Values(said[remote(s)], "response") :
            r = Answer(PasswdOf[key[s]], remote(s))

SessionInv(s) ==
    LockInv(s) /\ KeyInv(s) /\ ClientInv(s) /\ ServerInv(s) /\ Routed(s) /\ Answered(s)

\* A server's challenge is its own.
ChallengeInv == \A e \in Ends : Values(told[e], "challenge") \subseteq {e}

IInv ==
    /\ TypeInv
    /\ \A s \in Sessions : SessionInv(s)
    /\ ChallengeInv

-------------------------------------------------------------------------------
(* Ends and messages.                                                      *)

\* The two ends of a session are its own.
LEMMA EndsOfSession ==
    /\ \A s \in Sessions : clnt_(s) \in Ends /\ remote(s) \in Ends
    /\ \A s, t \in Sessions : clnt_(s) # remote(t)
    /\ \A s, t \in Sessions : clnt_(s) = clnt_(t) => s = t
    /\ \A s, t \in Sessions : remote(s) = remote(t) => s = t
    /\ \A e \in Ends : e # NoEnd
BY VncOperatorAssumption DEF clnt_, remote, Ends, Sides, VncOperatorAssumption

\* A message received is among the values of its kind.
LEMMA ValueOfElement ==
    ASSUME NEW ms \in Seq(Messages), NEW i \in 1 .. Len(ms)
    PROVE  ms[i].val \in Values(ms, ms[i].kind)
BY DEF Values

\* A message appended adds its value to its kind.
LEMMA ValuesOfAppend ==
    ASSUME NEW ms \in Seq(Messages), NEW m \in Messages, NEW kind
    PROVE  Values(Append(ms, m), kind) =
               Values(ms, kind) \cup (IF m.kind = kind THEN {m.val} ELSE {})
<1>1. /\ DOMAIN Append(ms, m) = DOMAIN ms \cup {Len(ms) + 1}
      /\ \A i \in DOMAIN ms : Append(ms, m)[i] = ms[i]
      /\ Append(ms, m)[Len(ms) + 1] = m
  OBVIOUS
<1> QED BY <1>1 DEF Values

\* Messages appended only add values.
LEMMA ValuesOfConcat ==
    ASSUME NEW ms \in Seq(Messages), NEW r \in Seq(Messages), NEW kind
    PROVE  Values(ms \o r, kind) = Values(ms, kind) \cup Values(r, kind)
<1>1. /\ \A i \in DOMAIN ms : i \in DOMAIN (ms \o r) /\ (ms \o r)[i] = ms[i]
      /\ \A i \in DOMAIN r : Len(ms) + i \in DOMAIN (ms \o r) /\ (ms \o r)[Len(ms) + i] = r[i]
      /\ \A j \in DOMAIN (ms \o r) :
             j \in DOMAIN ms \/ \E i \in DOMAIN r : j = Len(ms) + i
  <2>1. \A j \in DOMAIN (ms \o r) :
             j \in DOMAIN ms \/ (j - Len(ms) \in DOMAIN r /\ j = Len(ms) + (j - Len(ms)))
    OBVIOUS
  <2> QED BY <2>1
<1>2. ASSUME NEW v \in Values(ms \o r, kind) PROVE v \in Values(ms, kind) \cup Values(r, kind)
  BY <1>1 DEF Values
<1>3. ASSUME NEW v \in Values(ms, kind) PROVE v \in Values(ms \o r, kind)
  <2>1. PICK i \in DOMAIN ms : ms[i].kind = kind /\ v = ms[i].val BY DEF Values
  <2> QED BY <1>1, <2>1 DEF Values
<1>4. ASSUME NEW v \in Values(r, kind) PROVE v \in Values(ms \o r, kind)
  <2>1. PICK i \in DOMAIN r : r[i].kind = kind /\ v = r[i].val BY DEF Values
  <2>2. Len(ms) + i \in DOMAIN (ms \o r) /\ (ms \o r)[Len(ms) + i] = r[i] BY <1>1
  <2> QED BY <2>1, <2>2 DEF Values
<1> QED BY <1>2, <1>3, <1>4

\* The values of a kind have its type.
LEMMA ValueOfKind ==
    ASSUME NEW m \in Messages
    PROVE  /\ m.kind = "response" => m.val \in Texts
           /\ m.kind = "challenge" => m.val \in Ends
BY DEF Messages

\* Nothing has been said on a connection that is not there.
LEMMA ValuesOfNone == ASSUME NEW kind PROVE Values(<<>>, kind) = {}
BY DEF Values

\* What a party answers is a sequence of messages, whose challenges are its own.
LEMMA RepliesAreMessages ==
    ASSUME NEW e \in Ends, NEW m \in Messages, NEW r \in Replies(e, m)
    PROVE  r \in Seq(Messages) /\ Values(r, "challenge") \subseteq {e}
<1>1. CASE e[2] = "client" /\ m.kind = "version"
  <2>1. PICK ok \in Right(e) : r = <<Msg("version", ok)>>
    BY <1>1 DEF Replies, ClientReplies
  <2>2. Msg("version", ok) \in [kind : {"version"}, val : BOOLEAN] BY <2>1 DEF Msg, Right
  <2> QED BY <2>1, <2>2 DEF Messages, Values, Msg
<1>2. CASE e[2] = "client" /\ m.kind = "types"
  <2>1. r = <<Msg("type", "vnc")>> BY <1>2 DEF Replies, ClientReplies
  <2>2. Msg("type", "vnc") \in [kind : {"type"}, val : Types] BY DEF Msg, Types
  <2> QED BY <2>1, <2>2 DEF Messages, Values, Msg
<1>3. CASE e[2] = "client" /\ m.kind = "challenge"
  <2>1. PICK ok \in Right(e) :
           r = <<Msg("response", IF ok THEN [key |-> KeyOf[e[1]], text |-> m.val] ELSE Junk)>>
    BY <1>3 DEF Replies, ClientReplies
  <2>2. m.val \in Ends BY <1>3 DEF Messages
  <2>3. e[1] \in Sessions /\ KeyOf[e[1]] \in Words
    BY VncOperatorAssumption DEF VncOperatorAssumption, Words, Ends
  <2>4. Msg("response", IF ok THEN [key |-> KeyOf[e[1]], text |-> m.val] ELSE Junk) \in
           [kind : {"response"}, val : Texts]
    BY <2>2, <2>3 DEF Msg, Texts, Challenges
  <2> QED BY <2>1, <2>4 DEF Messages, Values, Msg
<1>4. CASE e[2] # "client" /\ m.kind = "version"
  <2>1. PICK types \in Offers[e[1]] :
           r = <<Msg("count", Cardinality(types)), Msg("types", types)>>
    BY <1>4 DEF Replies, ServerReplies
  <2>2. types \in SUBSET Types
    BY <2>1, VncOperatorAssumption DEF VncOperatorAssumption, Ends
  <2>3. Cardinality(types) \in Nat
    <3>1. IsFiniteSet({}) /\ IsFiniteSet({} \cup {"none"}) /\ IsFiniteSet({} \cup {"none"} \cup {"vnc"})
      BY FS_EmptySet, FS_AddElement
    <3>2. Types = {} \cup {"none"} \cup {"vnc"} BY DEF Types
    <3> QED BY <2>2, <3>1, <3>2, FS_Subset, FS_CardinalityType
  <2>4. /\ Msg("count", Cardinality(types)) \in [kind : {"count"}, val : Nat]
        /\ Msg("types", types) \in [kind : {"types"}, val : SUBSET Types]
    BY <2>2, <2>3 DEF Msg
  <2>5. /\ Msg("count", Cardinality(types)).kind = "count"
        /\ Msg("types", types).kind = "types"
    BY DEF Msg
  <2>6. r \in Seq(Messages) BY <2>1, <2>4 DEF Messages
  <2>7. Values(r, "challenge") = {} BY <2>1, <2>5 DEF Values
  <2> QED BY <2>6, <2>7
<1>5. CASE e[2] # "client" /\ m = Msg("type", "vnc")
  <2>1. r = <<Msg("challenge", e)>> BY <1>5 DEF Replies, ServerReplies, Msg
  <2>2. Msg("challenge", e) \in [kind : {"challenge"}, val : Ends] BY DEF Msg
  <2> QED BY <2>1, <2>2 DEF Messages, Values, Msg
<1>6. CASE r = <<>>
  BY <1>6, ValuesOfNone
<1> QED BY <1>1, <1>2, <1>3, <1>4, <1>5, <1>6 DEF Replies, ClientReplies, ServerReplies

-------------------------------------------------------------------------------
(* Types.                                                                  *)

\* TypeInv holds initially.
LEMMA InitTypes == Init => TypeInv
<1> SUFFICES ASSUME Init PROVE TypeInv
  OBVIOUS
<1>1. FdTypes
  BY VncOperatorAssumption DEF Init, FdTypes, VncOperatorAssumption
<1>2. WireTypes
  <2>1. <<>> \in Seq(Messages) /\ Len(<<>>) = 0 OBVIOUS
  <2> QED BY <2>1 DEF Init, WireTypes
<1>3. LocalTypes
  BY VncOperatorAssumption DEF Init, LocalTypes, Texts, VncOperatorAssumption
<1>4. SharedTypes
  BY VncOperatorAssumption DEF Init, SharedTypes, Words, VncOperatorAssumption
<1>5. step \in [Sessions -> Steps]
  BY DEF Init, Steps
<1> QED BY <1>1, <1>2, <1>3, <1>4, <1>5 DEF TypeInv

\* What a step leaves alone keeps its types.
LEMMA FdFrame == ASSUME FdTypes, UNCHANGED fdVars PROVE FdTypes'
BY DEF FdTypes, fdVars

\* A step that leaves the connections alone.
LEMMA WireFrame == ASSUME WireTypes, UNCHANGED <<partyVars, said, got>> PROVE WireTypes'
BY DEF WireTypes, partyVars

\* A step that leaves the operators' locals alone.
LEMMA LocalFrame == ASSUME LocalTypes, UNCHANGED localVars PROVE LocalTypes'
BY DEF LocalTypes, localVars, lookupVars

\* A step that leaves the register, the mutex and the database alone.
LEMMA SharedFrame ==
    ASSUME SharedTypes, UNCHANGED <<reg, global_m, dbVars>> PROVE SharedTypes'
BY DEF SharedTypes, dbVars

\* GoTo() moves one session.
LEMMA GoToStep ==
    ASSUME step \in [Sessions -> Steps], NEW s \in Sessions, NEW next \in Steps, GoTo(s, next)
    PROVE  /\ step' \in [Sessions -> Steps]
           /\ step'[s] = next
           /\ \A t \in Sessions \ {s} : step'[t] = step[t]
BY DEF GoTo

\* A socket gets a descriptor.
LEMMA OpenSocketTypes ==
    ASSUME FdTypes, NEW e \in Ends, OpenSocket(e)
    PROVE  FdTypes'
<1>1. PICK fd \in Fds : /\ file' = [file EXCEPT ![fd] = e]
                        /\ fd_' = [fd_ EXCEPT ![e] = fd]
  BY DEF OpenSocket
<1>2. fd \in 0 .. NFds BY VncOperatorAssumption DEF Fds, VncOperatorAssumption
<1> QED BY <1>1, <1>2 DEF FdTypes

\* Close() resets what was sent and received.
LEMMA CloseTypes ==
    ASSUME FdTypes, WireTypes, NEW e \in Ends, Close(e), up' \subseteq Ends, UNCHANGED hup
    PROVE  FdTypes' /\ WireTypes'
<1>1. FdTypes'
  BY DEF FdTypes, Close
<1>2. heard' \in [Ends -> Nat] /\ got' \in [Ends -> Nat]
  BY DEF WireTypes, Close
<1>3. /\ said' \in [Ends -> Seq(Messages)]
      /\ told' \in [Ends -> Seq(Messages)]
  <2>1. <<>> \in Seq(Messages) OBVIOUS
  <2>2. said' = [said EXCEPT ![e] = <<>>] /\ told' = [told EXCEPT ![e] = <<>>]
    BY DEF Close
  <2>3. said \in [Ends -> Seq(Messages)] /\ told \in [Ends -> Seq(Messages)]
    BY DEF WireTypes
  <2> QED BY <2>1, <2>2, <2>3
<1>4. ASSUME NEW x \in Ends
      PROVE  heard'[x] \in 0 .. Len(said'[x]) /\ got'[x] \in 0 .. Len(told'[x])
  <2>1. CASE x = e
    <3>1. said'[x] = <<>> /\ told'[x] = <<>> /\ heard'[x] = 0 /\ got'[x] = 0
      BY <2>1 DEF WireTypes, Close
    <3> QED BY <3>1
  <2>2. CASE x # e
    <3>1. said'[x] = said[x] /\ told'[x] = told[x] /\ heard'[x] = heard[x] /\ got'[x] = got[x]
      BY <2>2 DEF WireTypes, Close
    <3> QED BY <3>1 DEF WireTypes
  <2> QED BY <2>1, <2>2
<1> QED BY <1>1, <1>2, <1>3, <1>4 DEF WireTypes

\* A message appended keeps the count of those read within bounds.
LEMMA SendTypes ==
    ASSUME WireTypes, NEW e \in Ends, NEW m \in Messages, Send(e, m), UNCHANGED <<partyVars, got>>
    PROVE  WireTypes'
<1>1. said[e] \in Seq(Messages) BY DEF WireTypes
<1>2. Append(said[e], m) \in Seq(Messages) /\ Len(Append(said[e], m)) = Len(said[e]) + 1 BY <1>1
<1> QED BY <1>1, <1>2 DEF WireTypes, Send, partyVars

\* recv() counts what it has taken.
LEMMA ReceiveTypes ==
    ASSUME WireTypes, NEW e \in Ends, UNCHANGED <<partyVars, said>>,
           (\E kind : Receives(e, kind)) \/ ReceivesShort(e)
    PROVE  WireTypes'
<1>1. /\ got[e] \in Nat /\ Len(told[e]) \in Nat
      /\ got'[e] = got[e] \/ (got[e] < Len(told[e]) /\ got'[e] = got[e] + 1)
      /\ \A x \in Ends \ {e} : got'[x] = got[x]
      /\ got' \in [Ends -> Nat]
  <2>1. got \in [Ends -> Nat] /\ told[e] \in Seq(Messages) BY DEF WireTypes
  <2>2. got[e] \in Nat /\ Len(told[e]) \in Nat BY <2>1
  <2>3. CASE \E kind : Receives(e, kind)
    <3>1. PICK kind : Receives(e, kind) BY <2>3
    <3> QED BY <2>1, <2>2, <3>1 DEF Receives
  <2>4. CASE ReceivesShort(e)
    BY <2>1, <2>2, <2>4 DEF ReceivesShort
  <2> QED BY <2>3, <2>4
<1>2. ASSUME NEW x \in Ends PROVE got'[x] \in 0 .. Len(told[x])
  <2>1. got[x] \in 0 .. Len(told[x]) BY DEF WireTypes
  <2>2. CASE x = e BY <1>1, <2>1, <2>2
  <2>3. CASE x # e BY <1>1, <2>1, <2>3
  <2> QED BY <2>2, <2>3
<1> QED BY <1>1, <1>2 DEF WireTypes, partyVars

\* A message received was sent.
LEMMA IncomingIsTold ==
    ASSUME WireTypes, NEW e \in Ends, NEW kind, Receives(e, kind)
    PROVE  /\ Incoming(e) \in Values(told[e], kind)
           /\ told[e][got[e] + 1] \in Messages
           /\ told[e][got[e] + 1].kind = kind
<1>1. told[e] \in Seq(Messages) /\ got[e] + 1 \in 1 .. Len(told[e])
  BY DEF WireTypes, Receives
<1> QED BY <1>1, ValueOfElement DEF Incoming, Receives

-------------------------------------------------------------------------------
(* Steps keep types.                                                       *)

\* The steps with an early return.
LEMMA OnErrorStep == \A s \in Sessions : OnError(s) \in Steps \cap {"closer", "closec"}
BY DEF OnError, Steps, ServerSteps

\* The steps of the client's part.
LEMMA ClientKeepsTypes ==
    ASSUME IInv, NEW s \in Sessions,
           \/ Accept(s) \/ SendToClient(s) \/ SendToServer(s) \/ SendFails(s) \/ RecvFails(s)
           \/ RecvVersion(s, clnt_(s), "version", "offer") \/ RecvType(s) \/ RecvResponse(s)
    PROVE  TypeInv'
<1> USE EndsOfSession, OnErrorStep
<1>0. FdTypes /\ WireTypes /\ LocalTypes /\ SharedTypes /\ step \in [Sessions -> Steps]
  BY DEF IInv, TypeInv
<1>1. CASE Accept(s)
  <2>1. FdTypes' BY <1>0, <1>1, OpenSocketTypes DEF Accept
  <2>2. WireTypes' BY <1>0, <1>1 DEF Accept, WireTypes
  <2>3. step' \in [Sessions -> Steps]
    BY <1>0, <1>1, GoToStep DEF Accept, Steps, ClientSteps
  <2> QED BY <1>0, <1>1, <2>1, <2>2, <2>3, LocalFrame, SharedFrame DEF Accept, TypeInv
<1>2. ASSUME NEW from \in Steps, NEW e \in Ends, NEW m \in Messages, NEW next \in Steps,
             SendMessage(s, from, e, m, next)
      PROVE  TypeInv'
  <2>1. WireTypes' BY <1>0, <1>2, SendTypes DEF SendMessage
  <2>2. step' \in [Sessions -> Steps] BY <1>0, <1>2, GoToStep DEF SendMessage
  <2>3. LocalTypes'
    BY <1>0, <1>2 DEF SendMessage, LocalTypes, lookupVars, Challenges
  <2> QED BY <1>0, <1>2, <2>1, <2>2, <2>3, FdFrame, SharedFrame DEF SendMessage, TypeInv
<1>3. CASE SendToClient(s)
  <2>1. /\ Msg("version", TRUE) \in [kind : {"version"}, val : BOOLEAN]
        /\ Msg("types", {"vnc"}) \in [kind : {"types"}, val : SUBSET Types]
        /\ Msg("challenge", clnt_(s)) \in [kind : {"challenge"}, val : Ends]
        /\ Msg("result", "fail") \in [kind : {"result"}, val : {"fail"}]
    BY DEF Msg, Types
  <2>2. /\ {"greet", "version", "offer", "type", "challenge", "response", "refuse"} \subseteq Steps
        /\ "closec" \in Steps
    BY DEF Steps, ClientSteps
  <2> QED BY <1>2, <1>3, <2>1, <2>2 DEF SendToClient, Messages
<1>4. CASE SendToServer(s)
  <2>1. response[s] \in Texts BY <1>0 DEF LocalTypes
  <2>2. /\ Msg("version", TRUE) \in [kind : {"version"}, val : BOOLEAN]
        /\ Msg("type", "none") \in [kind : {"type"}, val : Types]
        /\ Msg("type", "vnc") \in [kind : {"type"}, val : Types]
        /\ Msg("response", response[s]) \in [kind : {"response"}, val : Texts]
    BY <2>1 DEF Msg, Types
  <2>3. {"agree", "count", "none", "tie", "vnc", "schallenge", "answer"} \subseteq Steps
    BY DEF Steps, ServerSteps
  <2> QED BY <1>2, <1>4, <2>2, <2>3 DEF SendToServer, Messages
<1>5. CASE SendFails(s) \/ RecvFails(s)
  BY <1>0, <1>5, GoToStep, FdFrame, WireFrame, LocalFrame, SharedFrame
     DEF SendFails, RecvFails, TypeInv
<1>6. CASE RecvVersion(s, clnt_(s), "version", "offer")
  <2>1. WireTypes' BY <1>0, <1>6, ReceiveTypes DEF RecvVersion
  <2>2. "offer" \in Steps BY DEF Steps, ClientSteps
  <2>3. step' \in [Sessions -> Steps] BY <1>0, <1>6, <2>2, GoToStep DEF RecvVersion
  <2> QED BY <1>0, <1>6, <2>1, <2>3, FdFrame, LocalFrame, SharedFrame DEF RecvVersion, TypeInv
<1>7. CASE RecvType(s)
  <2>1. WireTypes' BY <1>0, <1>7, ReceiveTypes DEF RecvType
  <2>2. "challenge" \in Steps BY DEF Steps, ClientSteps
  <2>3. step' \in [Sessions -> Steps] BY <1>0, <1>7, <2>2, GoToStep DEF RecvType
  <2> QED BY <1>0, <1>7, <2>1, <2>3, FdFrame, LocalFrame, SharedFrame DEF RecvType, TypeInv
<1>8. CASE RecvResponse(s)
  <2>1. WireTypes' BY <1>0, <1>8, ReceiveTypes DEF RecvResponse
  <2>2. "lock" \in Steps BY DEF Steps, ClientSteps
  <2>3. step' \in [Sessions -> Steps] BY <1>0, <1>8, <2>2, GoToStep DEF RecvResponse
  <2>4. \E text \in Texts : response' = [response EXCEPT ![s] = text]
    <3>1. Junk \in Texts BY DEF Texts
    <3>2. Receives(clnt_(s), "response") => Incoming(clnt_(s)) \in Texts
      BY <1>0, IncomingIsTold, ValueOfKind DEF Incoming
    <3> QED BY <1>8, <3>1, <3>2 DEF RecvResponse
  <2>5. LocalTypes' BY <1>0, <1>8, <2>4 DEF RecvResponse, LocalTypes, lookupVars
  <2> QED BY <1>0, <1>8, <2>1, <2>3, <2>5, FdFrame, SharedFrame DEF RecvResponse, TypeInv
<1> QED BY <1>1, <1>3, <1>4, <1>5, <1>6, <1>7, <1>8

\* The steps of the look-up.
LEMMA LookUpKeepsTypes ==
    ASSUME IInv, NEW s \in Sessions, LockQuery(s) \/ LookUp(s)
    PROVE  TypeInv'
<1>0. /\ FdTypes /\ WireTypes /\ LocalTypes /\ SharedTypes /\ step \in [Sessions -> Steps]
      /\ {"row", "des", "refuse", "resolve", "closec"} \subseteq Steps
  BY DEF IInv, TypeInv, Steps, ClientSteps, ConnectSteps
<1>1. CASE LockQuery(s)
  <2>1. step' \in [Sessions -> Steps] BY <1>0, <1>1, GoToStep DEF LockQuery
  <2>2. LocalTypes' BY <1>0, <1>1 DEF LockQuery, LocalTypes, SharedTypes
  <2>3. SharedTypes' BY <1>0, <1>1 DEF LockQuery, Acquire, SharedTypes, dbVars
  <2> QED BY <1>0, <1>1, <2>1, <2>2, <2>3, FdFrame, WireFrame DEF LockQuery, TypeInv
<1>2. CASE RowKey(s)
  <2>1. step' \in [Sessions -> Steps] BY <1>0, <1>2, GoToStep DEF RowKey
  <2>2. PICK k \in rows[s] : reg' = k /\ row' = [row EXCEPT ![s] = k] BY <1>2 DEF RowKey
  <2>3. k \in Keys BY <1>0 DEF LocalTypes
  <2>4. LocalTypes' BY <1>0, <1>2, <2>2, <2>3 DEF RowKey, LocalTypes
  <2>5. SharedTypes' BY <1>0, <1>2, <2>2, <2>3 DEF RowKey, SharedTypes, dbVars, Words
  <2> QED BY <1>0, <1>2, <2>1, <2>4, <2>5, FdFrame, WireFrame DEF RowKey, TypeInv
<1>3. CASE RowCompare(s)
  <2>1. step' \in [Sessions -> Steps] BY <1>0, <1>3, GoToStep DEF RowCompare
  <2>2. LocalTypes' BY <1>0, <1>3 DEF RowCompare, LocalTypes
  <2> QED BY <1>0, <1>3, <2>1, <2>2, FdFrame, WireFrame, SharedFrame DEF RowCompare, TypeInv
<1>4. CASE QueryReturns(s)
  <2>1. step' \in [Sessions -> Steps] BY <1>0, <1>4, GoToStep DEF QueryReturns
  <2>2. SharedTypes' BY <1>0, <1>4 DEF QueryReturns, Release, SharedTypes, dbVars
  <2> QED BY <1>0, <1>4, <2>1, <2>2, FdFrame, WireFrame, LocalFrame DEF QueryReturns, TypeInv
<1>5. CASE QueryFails(s)
  <2>1. step' \in [Sessions -> Steps] BY <1>0, <1>5, GoToStep DEF QueryFails
  <2>2. SharedTypes' BY <1>0, <1>5 DEF QueryFails, Release, SharedTypes, dbVars
  <2> QED BY <1>0, <1>5, <2>1, <2>2, FdFrame, WireFrame, LocalFrame DEF QueryFails, TypeInv
<1> QED BY <1>1, <1>2, <1>3, <1>4, <1>5 DEF LookUp

\* The steps of connect_to.
LEMMA ConnectToKeepsTypes ==
    ASSUME IInv, NEW s \in Sessions, ConnectTo(s)
    PROVE  TypeInv'
<1> USE EndsOfSession
<1>0. /\ FdTypes /\ WireTypes /\ LocalTypes /\ SharedTypes /\ step \in [Sessions -> Steps]
      /\ {"socket", "connect", "sversion", "closec"} \subseteq Steps
  BY DEF IInv, TypeInv, Steps, ConnectSteps, ServerSteps
<1>1. CASE Resolve(s)
  <2>1. step' \in [Sessions -> Steps] BY <1>0, <1>1, GoToStep DEF Resolve
  <2>2. LocalTypes' BY <1>0, <1>1 DEF Resolve, LocalTypes, lookupVars
  <2> QED BY <1>0, <1>1, <2>1, <2>2, FdFrame, WireFrame, SharedFrame DEF Resolve, TypeInv
<1>2. CASE Socket(s)
  <2>1. step' \in [Sessions -> Steps] BY <1>0, <1>2, GoToStep DEF Socket
  <2>2. FdTypes' BY <1>0, <1>2, OpenSocketTypes DEF Socket
  <2> QED BY <1>0, <1>2, <2>1, <2>2, WireFrame, LocalFrame, SharedFrame DEF Socket, TypeInv
<1>3. ASSUME addrs[s] > 0, addrs' = [addrs EXCEPT ![s] = @ - 1],
             UNCHANGED <<challenge, response, lookupVars>>
      PROVE  LocalTypes'
  <2>1. addrs \in [Sessions -> 0 .. MaxAddrs] BY <1>0 DEF LocalTypes
  <2>2. addrs[s] - 1 \in 0 .. MaxAddrs
    BY <1>3, <2>1, VncOperatorAssumption DEF VncOperatorAssumption
  <2>3. addrs' \in [Sessions -> 0 .. MaxAddrs] BY <1>3, <2>1, <2>2
  <2> QED BY <1>0, <1>3, <2>3 DEF LocalTypes, lookupVars
<1>4. CASE SocketFails(s)
  BY <1>0, <1>3, <1>4, FdFrame, WireFrame, SharedFrame DEF SocketFails, TypeInv
<1>5. CASE ConnectSucceeds(s)
  <2>1. step' \in [Sessions -> Steps] BY <1>0, <1>5, GoToStep DEF ConnectSucceeds
  <2>2. WireTypes' BY <1>0, <1>5 DEF ConnectSucceeds, WireTypes
  <2> QED BY <1>0, <1>5, <2>1, <2>2, FdFrame, LocalFrame, SharedFrame
          DEF ConnectSucceeds, TypeInv
<1>6. CASE ConnectFails(s)
  <2>1. step' \in [Sessions -> Steps] BY <1>0, <1>6, GoToStep DEF ConnectFails
  <2>2. up' \subseteq Ends BY <1>0, <1>6 DEF ConnectFails, WireTypes
  <2>3. FdTypes' /\ WireTypes' BY <1>0, <1>6, <2>2, CloseTypes DEF ConnectFails
  <2>4. addrs[s] > 0 BY <1>6 DEF IInv, SessionInv, KeyInv, ConnectFails
  <2>5. LocalTypes' BY <1>3, <1>6, <2>4 DEF ConnectFails
  <2> QED BY <1>0, <1>6, <2>1, <2>3, <2>5, SharedFrame DEF ConnectFails, TypeInv
<1>7. CASE GiveUp(s)
  BY <1>0, <1>7, GoToStep, FdFrame, WireFrame, LocalFrame, SharedFrame DEF GiveUp, TypeInv
<1> QED BY <1>1, <1>2, <1>4, <1>5, <1>6, <1>7 DEF ConnectTo

\* The steps of the server's part and the returns.
LEMMA ServerKeepsTypes ==
    ASSUME IInv, NEW s \in Sessions,
           \/ RecvVersion(s, remote(s), "sversion", "agree") \/ RecvCount(s) \/ RecvTypes(s)
           \/ RecvChallenge(s) \/ LockAnswer(s) \/ AnswerDes(s)
           \/ CloseRemote(s) \/ CloseClient(s) \/ Tie(s)
    PROVE  TypeInv'
<1> USE EndsOfSession, OnErrorStep
<1>0. /\ FdTypes /\ WireTypes /\ LocalTypes /\ SharedTypes /\ step \in [Sessions -> Steps]
      /\ {"agree", "types", "none", "vnc", "slock", "sdes", "answer", "closer"} \subseteq Steps
      /\ {"closec", "done", "tied"} \subseteq Steps
  BY DEF IInv, TypeInv, Steps, ServerSteps
<1>1. CASE RecvVersion(s, remote(s), "sversion", "agree")
  <2>1. WireTypes' BY <1>0, <1>1, ReceiveTypes DEF RecvVersion
  <2>2. step' \in [Sessions -> Steps] BY <1>0, <1>1, GoToStep DEF RecvVersion
  <2> QED BY <1>0, <1>1, <2>1, <2>2, FdFrame, LocalFrame, SharedFrame DEF RecvVersion, TypeInv
<1>2. CASE RecvCount(s)
  <2>1. WireTypes' BY <1>0, <1>2, ReceiveTypes DEF RecvCount
  <2>2. step' \in [Sessions -> Steps] BY <1>0, <1>2, GoToStep DEF RecvCount
  <2> QED BY <1>0, <1>2, <2>1, <2>2, FdFrame, LocalFrame, SharedFrame DEF RecvCount, TypeInv
<1>3. CASE RecvTypes(s)
  <2>1. WireTypes' BY <1>0, <1>3, ReceiveTypes DEF RecvTypes
  <2>2. \A types : Choice(s, types) \in Steps BY <1>0 DEF Choice
  <2>3. step' \in [Sessions -> Steps] BY <1>0, <1>3, <2>2, GoToStep DEF RecvTypes
  <2> QED BY <1>0, <1>3, <2>1, <2>3, FdFrame, LocalFrame, SharedFrame DEF RecvTypes, TypeInv
<1>4. CASE RecvChallenge(s)
  <2>1. WireTypes' BY <1>0, <1>4, ReceiveTypes DEF RecvChallenge
  <2>2. step' \in [Sessions -> Steps] BY <1>0, <1>4, GoToStep DEF RecvChallenge
  <2>3. \E c \in Challenges \cup {NoEnd} : challenge' = [challenge EXCEPT ![s] = c]
    <3>1. Receives(remote(s), "challenge") => Incoming(remote(s)) \in Challenges
      BY <1>0, IncomingIsTold, ValueOfKind DEF Incoming, Challenges
    <3> QED BY <1>4, <3>1 DEF RecvChallenge, Challenges
  <2>4. LocalTypes' BY <1>0, <1>4, <2>3 DEF RecvChallenge, LocalTypes, lookupVars
  <2> QED BY <1>0, <1>4, <2>1, <2>2, <2>4, FdFrame, SharedFrame DEF RecvChallenge, TypeInv
<1>5. CASE LockAnswer(s)
  <2>1. step' \in [Sessions -> Steps] BY <1>0, <1>5, GoToStep DEF LockAnswer
  <2>2. key[s] \in Keys
    BY <1>0, <1>5 DEF IInv, SessionInv, KeyInv, LockAnswer, ServerSteps, LocalTypes
  <2>3. SharedTypes'
    BY <1>0, <1>5, <2>2 DEF LockAnswer, Acquire, SharedTypes, dbVars, Words
  <2> QED BY <1>0, <1>5, <2>1, <2>3, FdFrame, WireFrame, LocalFrame DEF LockAnswer, TypeInv
<1>6. CASE AnswerDes(s)
  <2>1. step' \in [Sessions -> Steps] BY <1>0, <1>6, GoToStep DEF AnswerDes
  <2>2. SharedTypes' BY <1>0, <1>6 DEF AnswerDes, Release, SharedTypes, dbVars
  <2>3. Encrypted(challenge[s]) \in Texts
    BY <1>0 DEF LocalTypes, SharedTypes, Encrypted, Texts
  <2>4. LocalTypes' BY <1>0, <1>6, <2>3 DEF AnswerDes, LocalTypes, lookupVars
  <2> QED BY <1>0, <1>6, <2>1, <2>2, <2>4, FdFrame, WireFrame DEF AnswerDes, TypeInv
<1>7. CASE CloseRemote(s)
  <2>1. step' \in [Sessions -> Steps] BY <1>0, <1>7, GoToStep DEF CloseRemote
  <2>2. up' \subseteq Ends BY <1>0, <1>7 DEF CloseRemote, WireTypes
  <2>3. FdTypes' /\ WireTypes' BY <1>0, <1>7, <2>2, CloseTypes DEF CloseRemote
  <2> QED BY <1>0, <1>7, <2>1, <2>3, LocalFrame, SharedFrame DEF CloseRemote, TypeInv
<1>8. ASSUME Return(s), key' \in [Sessions -> Keys \cup {NoWord}] PROVE LocalTypes'
  <2>1. Junk \in Texts /\ 0 \in 0 .. MaxAddrs
    BY VncOperatorAssumption DEF Texts, VncOperatorAssumption
  <2> QED BY <1>0, <1>8, <2>1 DEF Return, LocalTypes
<1>9. CASE CloseClient(s)
  <2>1. step' \in [Sessions -> Steps] BY <1>0, <1>9, GoToStep DEF CloseClient
  <2>2. up' \subseteq Ends BY <1>0, <1>9 DEF CloseClient, WireTypes
  <2>3. FdTypes' /\ WireTypes' BY <1>0, <1>9, <2>2, CloseTypes DEF CloseClient
  <2>4. key' \in [Sessions -> Keys \cup {NoWord}] BY <1>0, <1>9 DEF CloseClient, LocalTypes
  <2> QED BY <1>0, <1>8, <1>9, <2>1, <2>3, <2>4, SharedFrame DEF CloseClient, TypeInv
<1>10. CASE Tie(s)
  <2>1. step' \in [Sessions -> Steps] BY <1>0, <1>10, GoToStep DEF Tie
  <2>2. key' \in [Sessions -> Keys \cup {NoWord}] BY <1>0, <1>10 DEF Tie, LocalTypes
  <2> QED BY <1>0, <1>8, <1>10, <2>1, <2>2, FdFrame, WireFrame, SharedFrame DEF Tie, TypeInv
<1> QED BY <1>1, <1>2, <1>3, <1>4, <1>5, <1>6, <1>7, <1>9, <1>10

\* The parties and the administrator.
LEMMA OutsideKeepsTypes ==
    ASSUME IInv,
           (\E e \in Ends : Greet(e) \/ Reply(e) \/ Hangup(e)) \/ \E k \in Edited : EditRoute(k)
    PROVE  TypeInv'
<1>0. FdTypes /\ WireTypes /\ LocalTypes /\ SharedTypes /\ step \in [Sessions -> Steps]
  BY DEF IInv, TypeInv
<1>1. ASSUME NEW e \in Ends, NEW r \in Seq(Messages), told' = [told EXCEPT ![e] = @ \o r],
             heard' \in [Ends -> Nat], \A x \in Ends : heard'[x] \in 0 .. Len(said[x]),
             UNCHANGED <<up, hup, said, got>>
      PROVE  WireTypes'
  <2>1. told[e] \in Seq(Messages) BY <1>0 DEF WireTypes
  <2>2. told[e] \o r \in Seq(Messages) /\ Len(told[e] \o r) = Len(told[e]) + Len(r) BY <2>1
  <2>3. told' \in [Ends -> Seq(Messages)] BY <1>0, <1>1, <2>2 DEF WireTypes
  <2>4. ASSUME NEW x \in Ends PROVE got[x] \in 0 .. Len(told'[x])
    <3>1. got[x] \in 0 .. Len(told[x]) /\ told[x] \in Seq(Messages) BY <1>0 DEF WireTypes
    <3>2. CASE x = e
      <4>1. told'[x] = told[e] \o r BY <1>0, <1>1, <3>2 DEF WireTypes
      <4> QED BY <2>1, <2>2, <3>1, <3>2, <4>1
    <3>3. CASE x # e
      <4>1. told'[x] = told[x] BY <1>0, <1>1, <3>3 DEF WireTypes
      <4> QED BY <3>1, <4>1
    <3> QED BY <3>2, <3>3
  <2> QED BY <1>0, <1>1, <2>3, <2>4 DEF WireTypes
<1>2. ASSUME NEW e \in Ends, Greet(e) PROVE TypeInv'
  <2>1. PICK ok \in Right(e) : told' = [told EXCEPT ![e] = <<Msg("version", ok)>>]
    BY <1>2 DEF Greet
  <2>2. Msg("version", ok) \in [kind : {"version"}, val : BOOLEAN] BY DEF Msg, Right
  <2>3. <<Msg("version", ok)>> \in Seq(Messages) BY <2>2 DEF Messages
  <2>4. told[e] \o <<Msg("version", ok)>> = <<Msg("version", ok)>>
    BY <1>2, <2>3 DEF Greet
  <2>5. told' = [told EXCEPT ![e] = @ \o <<Msg("version", ok)>>] BY <2>1, <2>4
  <2>6. heard' \in [Ends -> Nat] /\ \A x \in Ends : heard'[x] \in 0 .. Len(said[x])
    BY <1>0, <1>2 DEF WireTypes, Greet
  <2>7. WireTypes' BY <1>1, <1>2, <2>3, <2>5, <2>6 DEF Greet
  <2> QED BY <1>0, <1>2, <2>7, FdFrame, LocalFrame, SharedFrame DEF Greet, TypeInv
<1>3. ASSUME NEW e \in Ends, Reply(e) PROVE TypeInv'
  <2>1. said[e] \in Seq(Messages) /\ heard[e] \in Nat /\ heard \in [Ends -> Nat]
    BY <1>0 DEF WireTypes
  <2>2. /\ said[e][heard[e] + 1] \in Messages
        /\ heard[e] + 1 \in 0 .. Len(said[e])
    BY <1>3, <2>1 DEF Reply
  <2>3. PICK r \in Replies(e, said[e][heard[e] + 1]) : told' = [told EXCEPT ![e] = @ \o r]
    BY <1>3 DEF Reply
  <2>4. r \in Seq(Messages) BY <2>2, RepliesAreMessages
  <2>5. heard' = [heard EXCEPT ![e] = heard[e] + 1] BY <1>3 DEF Reply
  <2>6. heard' \in [Ends -> Nat] BY <2>1, <2>5
  <2>7. ASSUME NEW x \in Ends PROVE heard'[x] \in 0 .. Len(said[x])
    <3>1. heard[x] \in 0 .. Len(said[x]) BY <1>0 DEF WireTypes
    <3> QED BY <2>1, <2>2, <2>5, <3>1
  <2>8. WireTypes' BY <1>1, <1>3, <2>3, <2>4, <2>6, <2>7 DEF Reply
  <2> QED BY <1>0, <1>3, <2>8, FdFrame, LocalFrame, SharedFrame DEF Reply, TypeInv
<1>4. ASSUME NEW e \in Ends, Hangup(e) PROVE TypeInv'
  <2>1. WireTypes' BY <1>0, <1>4 DEF Hangup, WireTypes
  <2> QED BY <1>0, <1>4, <2>1, FdFrame, LocalFrame, SharedFrame DEF Hangup, TypeInv
<1>5. ASSUME NEW k \in Edited, EditRoute(k) PROVE TypeInv'
  <2>1. routes' \in SUBSET Keys
    BY <1>0, <1>5, VncOperatorAssumption DEF EditRoute, SharedTypes, VncOperatorAssumption
  <2>2. edits' \in 0 .. MaxEdits
    BY <1>0, <1>5, VncOperatorAssumption DEF EditRoute, SharedTypes, VncOperatorAssumption
  <2>3. SharedTypes' BY <1>0, <1>5, <2>1, <2>2 DEF EditRoute, SharedTypes
  <2> QED BY <1>0, <1>5, <2>3, FdFrame, WireFrame, LocalFrame DEF EditRoute, TypeInv
<1> QED BY <1>2, <1>3, <1>4, <1>5

\* Every step keeps the types.
LEMMA TypesStep == ASSUME IInv, [Next]_vars PROVE TypeInv'
<1>1. CASE UNCHANGED vars
  <2>1. FdTypes /\ WireTypes /\ LocalTypes /\ SharedTypes /\ step \in [Sessions -> Steps]
    BY DEF IInv, TypeInv
  <2> QED BY <1>1, <2>1, FdFrame, WireFrame, LocalFrame, SharedFrame DEF vars, TypeInv
<1>2. ASSUME NEW s \in Sessions, Accept(s) \/ Operator(s) \/ Lock(s) PROVE TypeInv'
  BY <1>2, ClientKeepsTypes, LookUpKeepsTypes, ConnectToKeepsTypes, ServerKeepsTypes
     DEF Operator, Lock
<1> QED BY <1>1, <1>2, OutsideKeepsTypes DEF Next

-------------------------------------------------------------------------------
(* One session's step and the others.                                      *)

\* What the step of another session leaves alone of session t.
Stays(t) ==
    /\ step'[t] = step[t]
    /\ challenge'[t] = challenge[t]
    /\ response'[t] = response[t]
    /\ key'[t] = key[t]
    /\ row'[t] = row[t]
    /\ addrs'[t] = addrs[t]
    /\ told'[clnt_(t)] = told[clnt_(t)]
    /\ said'[remote(t)] = said[remote(t)]

\* A session that stays keeps its invariant if no other uses the register
\* inside its critical section, which the mutex rules out.
LEMMA OthersKeep ==
    ASSUME IInv, NEW s \in Sessions, hup \subseteq hup',
           \A t \in Sessions \ {s} : Stays(t),
           step[s] \in CriticalSteps \/ global_m = "free" \/ UNCHANGED <<reg, global_m>>
    PROVE  \A t \in Sessions \ {s} : SessionInv(t)'
<1> SUFFICES ASSUME NEW t \in Sessions \ {s} PROVE SessionInv(t)'
  OBVIOUS
<1>1. Stays(t) /\ SessionInv(t) /\ SessionInv(s) BY DEF IInv
<1>2. step[t] \in CriticalSteps => UNCHANGED <<reg, global_m>>
  BY <1>1, VncOperatorAssumption DEF SessionInv, LockInv, VncOperatorAssumption
<1>3. LockInv(t)'
  BY <1>1, <1>2 DEF SessionInv, LockInv, Stays, CriticalSteps
<1>4. KeyInv(t)'
  BY <1>1 DEF SessionInv, KeyInv, Stays
<1>5. ClientInv(t)'
  BY <1>1 DEF SessionInv, ClientInv, Stays
<1>6. ServerInv(t)'
  BY <1>1 DEF SessionInv, ServerInv, Stays
<1>7. Routed(t)' /\ Answered(t)'
  BY <1>1 DEF SessionInv, Routed, Answered, Stays
<1> QED BY <1>3, <1>4, <1>5, <1>6, <1>7 DEF SessionInv

\* The steps at which a buffer or the register must hold something.
LoadedSteps == {"response", "lock", "row", "des", "slock", "sdes", "answer"}

\* A step that changes neither the buffers nor the wire, and leads to a step
\* that needs nothing new, keeps the invariant of its session.
LEMMA MoveKeeps ==
    ASSUME IInv, NEW s \in Sessions, NEW next \in Steps \ LoadedSteps, GoTo(s, next),
           UNCHANGED <<told, said, localVars>>, hup \subseteq hup',
           step[s] \in CriticalSteps \/ global_m = "free" \/ UNCHANGED <<reg, global_m>>,
           next \in {"resolve", "socket", "connect", "tied"} \cup ServerSteps => key[s] # NoWord,
           next = "connect" => addrs[s] > 0,
           step[s] \in {"tie", "tied", "closer"} => next \in {"tie", "tied", "closer"}
    PROVE  (\A t \in Sessions : SessionInv(t)') /\ ChallengeInv'
<1>1. /\ step'[s] = next
      /\ \A t \in Sessions \ {s} : step'[t] = step[t]
  BY GoToStep DEF IInv, TypeInv
<1>2. \A t \in Sessions \ {s} : Stays(t)
  BY <1>1 DEF Stays, localVars, lookupVars
<1>3. SessionInv(s) /\ UNCHANGED <<challenge, response, key, row, addrs>>
  BY DEF IInv, localVars, lookupVars
<1>4. LockInv(s)' /\ KeyInv(s)' /\ ClientInv(s)'
  BY <1>1, <1>3 DEF LoadedSteps, LockInv, CriticalSteps, KeyInv, ClientInv
<1>5. ServerInv(s)' /\ Routed(s)' /\ Answered(s)'
  BY <1>1, <1>3 DEF SessionInv, LoadedSteps, ServerInv, Routed, Answered
<1>6. \A t \in Sessions \ {s} : SessionInv(t)' BY <1>2, OthersKeep
<1>7. ChallengeInv' BY DEF IInv, ChallengeInv
<1> QED BY <1>4, <1>5, <1>6, <1>7 DEF SessionInv

\* The moves of this kind.
LEMMA MovesKeep ==
    ASSUME IInv, NEW s \in Sessions,
           \/ Accept(s) \/ SendFails(s) \/ RecvFails(s)
           \/ RecvVersion(s, clnt_(s), "version", "offer") \/ RecvType(s)
           \/ QueryReturns(s) \/ QueryFails(s)
           \/ Socket(s) \/ ConnectSucceeds(s) \/ GiveUp(s)
           \/ RecvVersion(s, remote(s), "sversion", "agree") \/ RecvCount(s) \/ RecvTypes(s)
    PROVE  (\A t \in Sessions : SessionInv(t)') /\ ChallengeInv'
<1>0. KeyInv(s) BY DEF IInv, SessionInv
<1>1. CASE Accept(s)
  <2>1. "greet" \in Steps \ LoadedSteps /\ "greet" \notin ServerSteps
    BY DEF Steps, ClientSteps, LoadedSteps, ServerSteps
  <2> QED BY <1>1, <2>1, MoveKeeps DEF Accept, partyVars
<1>2. CASE SendFails(s) \/ RecvFails(s)
  <2>1. /\ OnError(s) \in Steps \ LoadedSteps
        /\ OnError(s) \in ServerSteps => step[s] \in ServerSteps
        /\ OnError(s) \in {"closer", "closec"}
        /\ step[s] \notin {"tie", "tied", "closer"}
    BY <1>2 DEF OnError, Steps, ServerSteps, LoadedSteps, SendFails, RecvFails
  <2> QED BY <1>0, <1>2, <2>1, MoveKeeps DEF SendFails, RecvFails, KeyInv, partyVars
<1>3. CASE RecvVersion(s, clnt_(s), "version", "offer")
  <2>1. "offer" \in Steps \ LoadedSteps /\ "closec" \in Steps \ LoadedSteps
    BY DEF Steps, ClientSteps, LoadedSteps
  <2>2. OnError(s) = "closec" /\ "offer" \notin ServerSteps /\ "closec" \notin ServerSteps
    BY <1>3 DEF RecvVersion, OnError, ServerSteps
  <2> QED BY <1>3, <2>1, <2>2, MoveKeeps DEF RecvVersion, partyVars
<1>4. CASE RecvType(s)
  <2>1. "challenge" \in Steps \ LoadedSteps /\ "challenge" \notin ServerSteps
    BY DEF Steps, ClientSteps, LoadedSteps, ServerSteps
  <2> QED BY <1>4, <2>1, MoveKeeps DEF RecvType, partyVars
<1>5. CASE QueryReturns(s)
  <2>1. /\ {"refuse", "resolve"} \subseteq Steps \ LoadedSteps
        /\ "refuse" \notin ServerSteps
    BY DEF Steps, ClientSteps, ConnectSteps, LoadedSteps, ServerSteps
  <2> QED BY <1>5, <2>1, MoveKeeps DEF QueryReturns, partyVars, CriticalSteps
<1>6. CASE QueryFails(s)
  <2>1. "closec" \in Steps \ LoadedSteps /\ "closec" \notin ServerSteps
    BY DEF Steps, LoadedSteps, ServerSteps
  <2> QED BY <1>6, <2>1, MoveKeeps DEF QueryFails, partyVars, CriticalSteps
<1>7. CASE Socket(s)
  <2>1. "connect" \in Steps \ LoadedSteps
    BY DEF Steps, ConnectSteps, LoadedSteps
  <2> QED BY <1>0, <1>7, <2>1, MoveKeeps DEF Socket, partyVars, KeyInv
<1>8. CASE ConnectSucceeds(s)
  <2>1. "sversion" \in Steps \ LoadedSteps
    BY DEF Steps, ServerSteps, LoadedSteps
  <2> QED BY <1>0, <1>8, <2>1, MoveKeeps DEF ConnectSucceeds, KeyInv
<1>9. CASE GiveUp(s)
  <2>1. "closec" \in Steps \ LoadedSteps /\ "closec" \notin ServerSteps
    BY DEF Steps, LoadedSteps, ServerSteps
  <2> QED BY <1>9, <2>1, MoveKeeps DEF GiveUp, partyVars
<1>10. CASE RecvVersion(s, remote(s), "sversion", "agree")
  <2>1. {"agree", "closer"} \subseteq Steps \ LoadedSteps
    BY DEF Steps, ServerSteps, LoadedSteps
  <2>2. OnError(s) = "closer" /\ step[s] = "sversion" /\ "sversion" \in ServerSteps
    BY <1>10 DEF RecvVersion, OnError, ServerSteps
  <2> QED BY <1>0, <1>10, <2>1, <2>2, MoveKeeps DEF RecvVersion, partyVars, KeyInv
<1>11. CASE RecvCount(s)
  <2>1. "types" \in Steps \ LoadedSteps /\ "count" \in ServerSteps
    BY DEF Steps, ServerSteps, LoadedSteps
  <2> QED BY <1>0, <1>11, <2>1, MoveKeeps DEF RecvCount, partyVars, KeyInv
<1>12. CASE RecvTypes(s)
  <2>1. {"none", "vnc", "closer"} \subseteq Steps \ LoadedSteps /\ "types" \in ServerSteps
    BY DEF Steps, ServerSteps, LoadedSteps
  <2>2. \A types : Choice(s, types) \in {"none", "vnc", "closer"} BY DEF Choice
  <2> QED BY <1>0, <1>12, <2>1, <2>2, MoveKeeps DEF RecvTypes, partyVars, KeyInv
<1> QED BY <1>1, <1>2, <1>3, <1>4, <1>5, <1>6, <1>7, <1>8, <1>9, <1>10, <1>11, <1>12

\* A message sent by a session: a response only at "answer".
LEMMA SendKeeps ==
    ASSUME IInv, NEW s \in Sessions, SendToClient(s) \/ SendToServer(s)
    PROVE  (\A t \in Sessions : SessionInv(t)') /\ ChallengeInv'
<1> USE EndsOfSession
<1>0. /\ SessionInv(s) /\ step \in [Sessions -> Steps] /\ response[s] \in Texts
      /\ said \in [Ends -> Seq(Messages)] /\ challenge \in [Sessions -> Challenges \cup {NoEnd}]
  BY DEF IInv, TypeInv, LocalTypes, WireTypes
<1>1. ASSUME NEW from, NEW e \in Ends, NEW m \in Messages, NEW next \in Steps,
             SendMessage(s, from, e, m, next), e \in {clnt_(s), remote(s)}
      PROVE  /\ step'[s] = next
             /\ \A t \in Sessions \ {s} : SessionInv(t)'
             /\ ChallengeInv'
             /\ said'[e] = Append(said[e], m)
             /\ \A x \in Ends \ {e} : said'[x] = said[x]
             /\ Values(said'[e], "response") =
                    Values(said[e], "response") \cup (IF m.kind = "response" THEN {m.val} ELSE {})
             /\ from = "challenge" => challenge'[s] = clnt_(s)
             /\ UNCHANGED <<hup, told, response, key, rows, row, addrs, reg, global_m>>
  <2>1. step'[s] = next /\ \A t \in Sessions \ {s} : step'[t] = step[t]
    BY <1>0, <1>1, GoToStep DEF SendMessage
  <2>2. said'[e] = Append(said[e], m) /\ \A x \in Ends \ {e} : said'[x] = said[x]
    BY <1>0, <1>1 DEF SendMessage, Send
  <2>3. UNCHANGED <<hup, told, response, key, rows, row, addrs, reg, global_m>>
    BY <1>1 DEF SendMessage, partyVars, lookupVars
  <2>4. /\ from = "challenge" => challenge'[s] = clnt_(s)
        /\ \A t \in Sessions \ {s} : challenge'[t] = challenge[t]
    BY <1>0, <1>1 DEF SendMessage
  <2>5. \A t \in Sessions \ {s} : remote(t) # e BY <1>1
  <2>6. \A t \in Sessions \ {s} : Stays(t) BY <2>1, <2>2, <2>3, <2>4, <2>5 DEF Stays
  <2>7. \A t \in Sessions \ {s} : SessionInv(t)' BY <2>3, <2>6, OthersKeep
  <2>8. ChallengeInv' BY <2>3 DEF IInv, ChallengeInv
  <2>9. said[e] \in Seq(Messages) BY <1>0
  <2>10. Values(said'[e], "response") =
             Values(said[e], "response") \cup (IF m.kind = "response" THEN {m.val} ELSE {})
    BY <2>2, <2>9, ValuesOfAppend
  <2> QED BY <2>1, <2>2, <2>3, <2>4, <2>7, <2>8, <2>10
<1>2. ASSUME NEW from \in {"greet", "offer", "challenge", "refuse"}, NEW m \in Messages,
             NEW next \in {"version", "type", "response", "closec"},
             next = "response" => from = "challenge",
             SendMessage(s, from, clnt_(s), m, next)
      PROVE  (\A t \in Sessions : SessionInv(t)') /\ ChallengeInv'
  <2>1. /\ next \in Steps /\ next \notin CriticalSteps \cup ServerSteps
        /\ step[s] = from /\ clnt_(s) # remote(s)
    BY <1>2 DEF Steps, ClientSteps, CriticalSteps, ServerSteps, SendMessage
  <2>2. /\ step'[s] = next
        /\ said'[remote(s)] = said[remote(s)]
        /\ from = "challenge" => challenge'[s] = clnt_(s)
        /\ UNCHANGED <<hup, told, response, key, rows, row, addrs, reg, global_m>>
    <3>1. /\ next \in Steps /\ clnt_(s) \in Ends /\ clnt_(s) \in {clnt_(s), remote(s)}
          /\ remote(s) \in Ends \ {clnt_(s)} /\ SendMessage(s, from, clnt_(s), m, next)
      BY <1>2, <2>1
    <3> QED BY ONLY <1>1, <3>1, m \in Messages
  <2>3. LockInv(s)' BY <2>1, <2>2 DEF LockInv, CriticalSteps
  <2>4. KeyInv(s)' BY <1>2, <2>1, <2>2 DEF KeyInv
  <2>5. ClientInv(s)' BY <1>2, <2>2 DEF ClientInv
  <2>6. ServerInv(s)' BY <1>0, <1>2, <2>1, <2>2 DEF SessionInv, ServerInv
  <2>7. Routed(s)' BY <1>0, <2>2 DEF SessionInv, Routed
  <2>8. Answered(s)' BY <1>0, <2>2 DEF SessionInv, Answered
  <2> QED BY <1>1, <1>2, <2>1, <2>3, <2>4, <2>5, <2>6, <2>7, <2>8 DEF SessionInv
<1>3. ASSUME NEW from \in {"agree", "none", "vnc", "answer"}, NEW m \in Messages,
             NEW next \in {"count", "tie", "schallenge"},
             next # "tie" => m.kind # "response",
             m.kind = "response" => from = "answer" /\ m.val = response[s],
             SendMessage(s, from, remote(s), m, next)
      PROVE  (\A t \in Sessions : SessionInv(t)') /\ ChallengeInv'
  <2>1. /\ next \in Steps /\ next \in ServerSteps \ CriticalSteps
        /\ step[s] = from /\ from \in ServerSteps
    BY <1>3 DEF Steps, CriticalSteps, ServerSteps, SendMessage
  <2>2. /\ step'[s] = next
        /\ Values(said'[remote(s)], "response") =
               Values(said[remote(s)], "response")
                   \cup (IF m.kind = "response" THEN {m.val} ELSE {})
        /\ UNCHANGED <<hup, told, response, key, rows, row, addrs, reg, global_m>>
    <3>1. /\ next \in Steps /\ remote(s) \in Ends /\ remote(s) \in {clnt_(s), remote(s)}
          /\ SendMessage(s, from, remote(s), m, next)
      BY <1>3, <2>1
    <3> QED BY ONLY <1>1, <3>1, m \in Messages
  <2>3. Values(said[remote(s)], "response") = {}
    BY <1>0, <1>3, <2>1 DEF SessionInv, ServerInv
  <2>4. LockInv(s)' BY <2>1, <2>2 DEF LockInv, CriticalSteps
  <2>5. KeyInv(s)' BY <1>0, <1>3, <2>1, <2>2 DEF SessionInv, KeyInv
  <2>6. ClientInv(s)' BY <1>3, <2>2 DEF ClientInv
  <2>7. ServerInv(s)' BY <1>3, <2>2, <2>3 DEF ServerInv
  <2>8. Routed(s)' BY <1>0, <2>2 DEF SessionInv, Routed
  <2>9. Answered(s)'
    BY <1>0, <1>3, <2>1, <2>2, <2>3 DEF SessionInv, ServerInv, Answered
  <2> QED BY <1>1, <1>3, <2>1, <2>4, <2>5, <2>6, <2>7, <2>8, <2>9 DEF SessionInv
<1>4. CASE SendToClient(s)
  <2>1. /\ Msg("version", TRUE) \in [kind : {"version"}, val : BOOLEAN]
        /\ Msg("types", {"vnc"}) \in [kind : {"types"}, val : SUBSET Types]
        /\ Msg("challenge", clnt_(s)) \in [kind : {"challenge"}, val : Ends]
        /\ Msg("result", "fail") \in [kind : {"result"}, val : {"fail"}]
    BY DEF Msg, Types
  <2> QED BY <1>2, <1>4, <2>1 DEF SendToClient, Messages
<1>5. CASE SendToServer(s)
  <2>1. /\ Msg("version", TRUE) \in [kind : {"version"}, val : BOOLEAN]
        /\ Msg("type", "none") \in [kind : {"type"}, val : Types]
        /\ Msg("type", "vnc") \in [kind : {"type"}, val : Types]
        /\ Msg("response", response[s]) \in [kind : {"response"}, val : Texts]
    BY <1>0 DEF Msg, Types
  <2>2. /\ Msg("version", TRUE).kind # "response"
        /\ Msg("type", "none").kind # "response"
        /\ Msg("type", "vnc").kind # "response"
        /\ Msg("response", response[s]).val = response[s]
    BY DEF Msg
  <2> QED BY <1>3, <1>5, <2>1, <2>2 DEF SendToServer, Messages
<1> QED BY <1>4, <1>5

\* A step that changes the buffers of its session, and not the wire.
LEMMA LocalStepKeeps ==
    ASSUME IInv, NEW s \in Sessions, NEW next \in Steps, GoTo(s, next),
           UNCHANGED <<told, said, hup>>,
           \A t \in Sessions \ {s} :
               /\ challenge'[t] = challenge[t] /\ response'[t] = response[t]
               /\ key'[t] = key[t] /\ row'[t] = row[t] /\ addrs'[t] = addrs[t],
           step[s] \in CriticalSteps \/ global_m = "free" \/ UNCHANGED <<reg, global_m>>
    PROVE  /\ step'[s] = next
           /\ \A t \in Sessions \ {s} : SessionInv(t)'
           /\ ChallengeInv'
<1>1. /\ step'[s] = next
      /\ \A t \in Sessions \ {s} : step'[t] = step[t]
  BY GoToStep DEF IInv, TypeInv
<1>2. \A t \in Sessions \ {s} : Stays(t) BY <1>1 DEF Stays
<1>3. \A t \in Sessions \ {s} : SessionInv(t)' BY <1>2, OthersKeep
<1>4. ChallengeInv' BY DEF IInv, ChallengeInv
<1> QED BY <1>1, <1>3, <1>4

\* The buffers, the row and the key of the client's part.
LEMMA ClientKeeps ==
    ASSUME IInv, NEW s \in Sessions,
           RecvResponse(s) \/ LockQuery(s) \/ RowKey(s) \/ RowCompare(s)
    PROVE  (\A t \in Sessions : SessionInv(t)') /\ ChallengeInv'
<1> USE EndsOfSession
<1>0. /\ SessionInv(s) /\ LocalTypes /\ WireTypes
      /\ {"lock", "row", "des"} \subseteq Steps \ ServerSteps
  BY DEF IInv, TypeInv, Steps, ClientSteps, ServerSteps
<1>1. CASE RecvResponse(s)
  <2>1. /\ step'[s] = "lock"
        /\ \A t \in Sessions \ {s} : SessionInv(t)'
        /\ ChallengeInv'
    BY <1>0, <1>1, LocalStepKeeps DEF RecvResponse, LocalTypes, partyVars, lookupVars
  <2>2. /\ step[s] = "response"
        /\ UNCHANGED <<hup, told, said, challenge, key, row, addrs, reg, global_m>>
    BY <1>1 DEF RecvResponse, partyVars, lookupVars
  <2>3. response'[s] = Junk \/ response'[s] \in Values(told[clnt_(s)], "response")
    BY <1>0, <1>1, IncomingIsTold DEF RecvResponse, LocalTypes
  <2>4. LockInv(s)' BY <2>1 DEF LockInv, CriticalSteps
  <2>5. KeyInv(s)' BY <1>0, <2>1 DEF KeyInv
  <2>6. ClientInv(s)' BY <1>0, <2>1, <2>2, <2>3 DEF SessionInv, ClientInv
  <2>7. ServerInv(s)' BY <1>0, <2>1, <2>2 DEF SessionInv, ServerInv
  <2>8. Routed(s)' /\ Answered(s)' BY <1>0, <2>2 DEF SessionInv, Routed, Answered
  <2> QED BY <2>1, <2>4, <2>5, <2>6, <2>7, <2>8 DEF SessionInv
<1>2. CASE LockQuery(s)
  <2>1. /\ step[s] = "lock" /\ global_m = "free" /\ global_m' = s
        /\ UNCHANGED <<hup, told, said, challenge, response, key, row, addrs, reg>>
    BY <1>2 DEF LockQuery, Acquire, partyVars
  <2>2. /\ step'[s] = "row"
        /\ \A t \in Sessions \ {s} : SessionInv(t)'
        /\ ChallengeInv'
    BY <1>0, <1>2, <2>1, LocalStepKeeps DEF LockQuery
  <2>3. LockInv(s)' BY <2>1, <2>2 DEF LockInv
  <2>4. KeyInv(s)' BY <1>0, <2>2 DEF KeyInv
  <2>5. ClientInv(s)' BY <1>0, <2>1, <2>2 DEF SessionInv, ClientInv
  <2>6. ServerInv(s)' BY <1>0, <2>1, <2>2 DEF SessionInv, ServerInv
  <2>7. Routed(s)' /\ Answered(s)' BY <1>0, <2>1 DEF SessionInv, Routed, Answered
  <2> QED BY <2>2, <2>3, <2>4, <2>5, <2>6, <2>7 DEF SessionInv
<1>3. CASE RowKey(s)
  <2>1. PICK k \in rows[s] : reg' = k /\ row' = [row EXCEPT ![s] = k] BY <1>3 DEF RowKey
  <2>2. /\ step[s] = "row"
        /\ UNCHANGED <<hup, told, said, challenge, response, key, addrs, global_m>>
    BY <1>3 DEF RowKey, partyVars
  <2>3. row'[s] = k /\ k \in Keys /\ \A t \in Sessions \ {s} : row'[t] = row[t]
    BY <1>0, <2>1 DEF LocalTypes
  <2>4. /\ step'[s] = "des"
        /\ \A t \in Sessions \ {s} : SessionInv(t)'
        /\ ChallengeInv'
    BY <1>0, <1>3, <2>2, <2>3, LocalStepKeeps DEF RowKey, CriticalSteps
  <2>5. LockInv(s)' BY <1>0, <2>1, <2>2, <2>3, <2>4 DEF SessionInv, LockInv, CriticalSteps
  <2>6. KeyInv(s)' BY <1>0, <2>4 DEF KeyInv
  <2>7. ClientInv(s)' BY <1>0, <2>2, <2>4 DEF SessionInv, ClientInv
  <2>8. ServerInv(s)' BY <1>0, <2>2, <2>4 DEF SessionInv, ServerInv
  <2>9. Routed(s)' /\ Answered(s)' BY <1>0, <2>2 DEF SessionInv, Routed, Answered
  <2> QED BY <2>4, <2>5, <2>6, <2>7, <2>8, <2>9 DEF SessionInv
<1>4. CASE RowCompare(s)
  <2>1. /\ step[s] = "des"
        /\ UNCHANGED <<hup, told, said, challenge, response, addrs, reg, global_m>>
    BY <1>4 DEF RowCompare, partyVars
  <2>2. /\ key'[s] = IF Matches(s) THEN row[s] ELSE key[s]
        /\ \A t \in Sessions \ {s} : row'[t] = row[t] /\ key'[t] = key[t]
    BY <1>0, <1>4 DEF RowCompare, LocalTypes
  <2>3. /\ step'[s] = "row"
        /\ \A t \in Sessions \ {s} : SessionInv(t)'
        /\ ChallengeInv'
    BY <1>0, <1>4, <2>1, <2>2, LocalStepKeeps DEF RowCompare, CriticalSteps
  <2>4. LockInv(s)' BY <1>0, <2>1, <2>3 DEF SessionInv, LockInv, CriticalSteps
  <2>5. KeyInv(s)' BY <1>0, <2>3 DEF KeyInv
  <2>6. ClientInv(s)' BY <1>0, <2>1, <2>3 DEF SessionInv, ClientInv
  <2>7. ServerInv(s)' BY <1>0, <2>1, <2>3 DEF SessionInv, ServerInv
  <2>8. Routed(s)'
    <3>1. CASE Matches(s)
      <4>1. response[s] = Answer(row[s], clnt_(s)) /\ key'[s] = row[s]
        BY <1>0, <2>1, <2>2, <3>1
           DEF SessionInv, LockInv, ClientInv, Matches, Encrypted, Answer
      <4>2. response[s] # Junk BY <4>1 DEF Answer, Junk
      <4> QED BY <1>0, <2>1, <4>1, <4>2 DEF SessionInv, ClientInv, Routed
    <3>2. CASE ~Matches(s) BY <1>0, <2>1, <2>2, <3>2 DEF SessionInv, Routed
    <3> QED BY <3>1, <3>2
  <2>9. Answered(s)'
    <3>1. Values(said[remote(s)], "response") = {} BY <1>0, <2>1 DEF SessionInv, ServerInv
    <3> QED BY <2>1, <3>1 DEF Answered
  <2> QED BY <2>3, <2>4, <2>5, <2>6, <2>7, <2>8, <2>9 DEF SessionInv
<1> QED BY <1>1, <1>2, <1>3, <1>4

\* connect_to: the address, and the socket of a failed connect.
LEMMA ConnectKeeps ==
    ASSUME IInv, NEW s \in Sessions, Resolve(s) \/ SocketFails(s) \/ ConnectFails(s)
    PROVE  (\A t \in Sessions : SessionInv(t)') /\ ChallengeInv'
<1> USE EndsOfSession
<1>0. /\ SessionInv(s) /\ LocalTypes /\ WireTypes /\ step \in [Sessions -> Steps]
      /\ "socket" \in Steps /\ {"resolve", "socket"} \cap ServerSteps = {}
  BY DEF IInv, TypeInv, Steps, ConnectSteps, ServerSteps
<1>1. ASSUME step[s] \in {"resolve", "socket", "connect"}, GoTo(s, "socket"),
             \A t \in Sessions \ {s} : addrs'[t] = addrs[t],
             UNCHANGED <<hup, challenge, response, lookupVars, reg, global_m>>,
             \A x \in Ends \ {remote(s)} : told'[x] = told[x] /\ said'[x] = said[x],
             said'[remote(s)] = said[remote(s)] \/ said'[remote(s)] = <<>>
      PROVE  \A t \in Sessions : SessionInv(t)'
  <2>1. step'[s] = "socket" /\ \A t \in Sessions \ {s} : step'[t] = step[t]
    BY <1>0, <1>1, GoToStep
  <2>2. \A t \in Sessions \ {s} : Stays(t) BY <1>1, <2>1 DEF Stays, lookupVars
  <2>3. \A t \in Sessions \ {s} : SessionInv(t)' BY <1>1, <2>2, OthersKeep
  <2>4. Values(said'[remote(s)], "response") = {}
    <3>1. Values(said[remote(s)], "response") = {}
      BY <1>0, <1>1 DEF SessionInv, ServerInv
    <3> QED BY <1>1, <3>1, ValuesOfNone
  <2>5. UNCHANGED key /\ told'[clnt_(s)] = told[clnt_(s)] BY <1>1 DEF lookupVars
  <2>6. LockInv(s)' BY <2>1 DEF LockInv, CriticalSteps
  <2>7. KeyInv(s)' BY <1>0, <1>1, <2>1, <2>5 DEF SessionInv, KeyInv
  <2>8. ClientInv(s)' /\ ServerInv(s)' BY <2>1, <2>4 DEF ClientInv, ServerInv
  <2>9. Routed(s)' /\ Answered(s)' BY <1>0, <2>4, <2>5 DEF SessionInv, Routed, Answered
  <2> QED BY <2>3, <2>6, <2>7, <2>8, <2>9 DEF SessionInv
<1>2. CASE Resolve(s)
  <2>1. \A t \in Sessions \ {s} : addrs'[t] = addrs[t] BY <1>0, <1>2 DEF Resolve, LocalTypes
  <2>2. UNCHANGED <<told, said>> BY <1>2 DEF Resolve, partyVars
  <2>3. ChallengeInv' BY <2>2 DEF IInv, ChallengeInv
  <2> QED BY <1>1, <1>2, <2>1, <2>2, <2>3 DEF Resolve, partyVars
<1>3. CASE SocketFails(s)
  <2>1. \A t \in Sessions \ {s} : addrs'[t] = addrs[t]
    BY <1>0, <1>3 DEF SocketFails, LocalTypes
  <2>2. UNCHANGED <<told, said>> BY <1>3 DEF SocketFails, partyVars
  <2>3. ChallengeInv' BY <2>2 DEF IInv, ChallengeInv
  <2>4. GoTo(s, "socket") BY <1>0, <1>3 DEF SocketFails, GoTo
  <2> QED BY <1>1, <1>3, <2>1, <2>2, <2>3, <2>4 DEF SocketFails, partyVars
<1>4. CASE ConnectFails(s)
  <2>1. \A t \in Sessions \ {s} : addrs'[t] = addrs[t]
    BY <1>0, <1>4 DEF ConnectFails, LocalTypes
  <2>2. /\ \A x \in Ends \ {remote(s)} : told'[x] = told[x] /\ said'[x] = said[x]
        /\ said'[remote(s)] = <<>> /\ told'[remote(s)] = <<>>
    BY <1>0, <1>4 DEF ConnectFails, Close, WireTypes
  <2>3. ChallengeInv' BY <2>2, ValuesOfNone DEF IInv, ChallengeInv
  <2> QED BY <1>1, <1>4, <2>1, <2>2, <2>3 DEF ConnectFails
<1> QED BY <1>2, <1>3, <1>4

\* The answer to the server's challenge.
LEMMA AnswerKeeps ==
    ASSUME IInv, NEW s \in Sessions, RecvChallenge(s) \/ LockAnswer(s) \/ AnswerDes(s)
    PROVE  (\A t \in Sessions : SessionInv(t)') /\ ChallengeInv'
<1> USE EndsOfSession
<1>0. /\ SessionInv(s) /\ LocalTypes /\ WireTypes
      /\ {"slock", "sdes", "answer"} \subseteq Steps \cap ServerSteps
      /\ "schallenge" \in ServerSteps
  BY DEF IInv, TypeInv, Steps, ServerSteps
<1>1. ASSUME step[s] \in {"schallenge", "slock", "sdes"}, step'[s] \in {"slock", "sdes", "answer"},
             UNCHANGED <<hup, told, said, key>>
      PROVE  /\ KeyInv(s)' /\ ClientInv(s)' /\ Routed(s)' /\ Answered(s)'
             /\ Values(said[remote(s)], "response") = {}
  <2>1. KeyInv(s)' BY <1>0, <1>1 DEF SessionInv, KeyInv
  <2>2. ClientInv(s)' BY <1>1 DEF ClientInv
  <2>3. Routed(s)' /\ Answered(s)' BY <1>0, <1>1 DEF SessionInv, Routed, Answered
  <2>4. Values(said[remote(s)], "response") = {} BY <1>0, <1>1 DEF SessionInv, ServerInv
  <2> QED BY <2>1, <2>2, <2>3, <2>4
<1>2. CASE RecvChallenge(s)
  <2>1. /\ step[s] = "schallenge"
        /\ UNCHANGED <<hup, told, said, response, key, row, addrs, reg, global_m>>
    BY <1>2 DEF RecvChallenge, partyVars, lookupVars
  <2>2. \A t \in Sessions \ {s} : challenge'[t] = challenge[t]
    BY <1>0, <1>2 DEF RecvChallenge, LocalTypes
  <2>3. /\ step'[s] = "slock"
        /\ \A t \in Sessions \ {s} : SessionInv(t)'
        /\ ChallengeInv'
    BY <1>0, <1>2, <2>1, <2>2, LocalStepKeeps DEF RecvChallenge
  <2>4. remote(s) \notin hup => challenge'[s] = remote(s)
    <3>1. HAVE remote(s) \notin hup
    <3>2. /\ Receives(remote(s), "challenge")
          /\ challenge' = [challenge EXCEPT ![s] = Incoming(remote(s))]
      BY <1>2, <3>1 DEF RecvChallenge, ReceivesShort
    <3>3. Incoming(remote(s)) \in Values(told[remote(s)], "challenge")
      BY <1>0, <3>2, IncomingIsTold
    <3>4. Incoming(remote(s)) = remote(s) BY <3>3 DEF IInv, ChallengeInv
    <3> QED BY <1>0, <3>2, <3>4 DEF LocalTypes
  <2>5. LockInv(s)' BY <2>3 DEF LockInv, CriticalSteps
  <2>6. ServerInv(s)' BY <1>1, <2>1, <2>3, <2>4 DEF ServerInv
  <2> QED BY <1>1, <2>1, <2>3, <2>5, <2>6 DEF SessionInv
<1>3. CASE LockAnswer(s)
  <2>1. /\ step[s] = "slock" /\ global_m = "free" /\ global_m' = s /\ reg' = PasswdOf[key[s]]
        /\ UNCHANGED <<hup, told, said, challenge, response, key, row, addrs>>
    BY <1>3 DEF LockAnswer, Acquire, partyVars, localVars, lookupVars
  <2>2. /\ step'[s] = "sdes"
        /\ \A t \in Sessions \ {s} : SessionInv(t)'
        /\ ChallengeInv'
    BY <1>0, <1>3, <2>1, LocalStepKeeps DEF LockAnswer
  <2>3. LockInv(s)' BY <2>1, <2>2 DEF LockInv
  <2>4. ServerInv(s)' BY <1>0, <1>1, <2>1, <2>2 DEF SessionInv, ServerInv
  <2> QED BY <1>1, <2>1, <2>2, <2>3, <2>4 DEF SessionInv
<1>4. CASE AnswerDes(s)
  <2>1. /\ step[s] = "sdes"
        /\ UNCHANGED <<hup, told, said, challenge, key, row, addrs, reg>>
    BY <1>4 DEF AnswerDes, partyVars, lookupVars
  <2>2. /\ response'[s] = Encrypted(challenge[s])
        /\ \A t \in Sessions \ {s} : response'[t] = response[t]
    BY <1>0, <1>4 DEF AnswerDes, LocalTypes
  <2>3. /\ step'[s] = "answer"
        /\ \A t \in Sessions \ {s} : SessionInv(t)'
        /\ ChallengeInv'
    BY <1>0, <1>4, <2>1, <2>2, LocalStepKeeps DEF AnswerDes, CriticalSteps
  <2>4. remote(s) \notin hup => response'[s] = Answer(PasswdOf[key[s]], remote(s))
    BY <1>0, <2>1, <2>2 DEF SessionInv, LockInv, ServerInv, Encrypted, Answer
  <2>5. LockInv(s)' BY <2>3 DEF LockInv, CriticalSteps
  <2>6. ServerInv(s)' BY <1>1, <2>1, <2>3, <2>4 DEF ServerInv
  <2> QED BY <1>1, <2>1, <2>3, <2>5, <2>6 DEF SessionInv
<1> QED BY <1>2, <1>3, <1>4

\* The returns of run().
LEMMA ReturnsKeep ==
    ASSUME IInv, NEW s \in Sessions, CloseRemote(s) \/ CloseClient(s) \/ Tie(s)
    PROVE  (\A t \in Sessions : SessionInv(t)') /\ ChallengeInv'
<1> USE EndsOfSession
<1>0. /\ SessionInv(s) /\ LocalTypes /\ WireTypes /\ step \in [Sessions -> Steps]
      /\ {"closec", "done", "tied"} \subseteq Steps \ (ServerSteps \cup CriticalSteps)
      /\ "tie" \in ServerSteps
  BY DEF IInv, TypeInv, Steps, ServerSteps, CriticalSteps
<1>1. ASSUME NEW e \in {clnt_(s), remote(s)}, Close(e)
      PROVE  /\ \A x \in Ends \ {e} : told'[x] = told[x] /\ said'[x] = said[x]
             /\ said'[e] = <<>>
             /\ ChallengeInv'
  <2>1. /\ \A x \in Ends \ {e} : told'[x] = told[x] /\ said'[x] = said[x]
        /\ said'[e] = <<>> /\ told'[e] = <<>>
    BY <1>0, <1>1 DEF Close, WireTypes
  <2>2. ChallengeInv' BY <2>1, ValuesOfNone DEF IInv, ChallengeInv
  <2> QED BY <2>1, <2>2
<1>2. CASE CloseRemote(s)
  <2>1. /\ \A x \in Ends \ {remote(s)} : told'[x] = told[x] /\ said'[x] = said[x]
        /\ said'[remote(s)] = <<>>
        /\ ChallengeInv'
    BY <1>1, <1>2 DEF CloseRemote
  <2>2. step'[s] = "closec" /\ \A t \in Sessions \ {s} : step'[t] = step[t]
    BY <1>0, <1>2, GoToStep DEF CloseRemote
  <2>3. UNCHANGED <<hup, challenge, response, key, row, addrs, reg, global_m>>
    BY <1>2 DEF CloseRemote, localVars, lookupVars
  <2>4. \A t \in Sessions \ {s} : SessionInv(t)'
    <3>1. \A t \in Sessions \ {s} : Stays(t) BY <2>1, <2>2, <2>3 DEF Stays
    <3> QED BY <2>3, <3>1, OthersKeep
  <2>5. LockInv(s)' /\ KeyInv(s)' /\ ClientInv(s)'
    BY <1>0, <2>2 DEF LockInv, KeyInv, ClientInv
  <2>6. ServerInv(s)' /\ Answered(s)'
    BY <2>1, <2>2, ValuesOfNone DEF ServerInv, Answered
  <2>7. Routed(s)' BY <1>0, <2>1, <2>3 DEF SessionInv, Routed
  <2> QED BY <2>1, <2>4, <2>5, <2>6, <2>7 DEF SessionInv
<1>3. ASSUME Return(s)
      PROVE  \A t \in Sessions \ {s} :
                 /\ challenge'[t] = challenge[t] /\ response'[t] = response[t]
                 /\ row'[t] = row[t] /\ addrs'[t] = addrs[t]
  BY <1>0, <1>3 DEF Return, LocalTypes
<1>4. CASE CloseClient(s)
  <2>1. /\ \A x \in Ends \ {clnt_(s)} : told'[x] = told[x] /\ said'[x] = said[x]
        /\ ChallengeInv'
    BY <1>1, <1>4 DEF CloseClient
  <2>2. /\ step[s] = "closec"
        /\ step'[s] = "done" /\ \A t \in Sessions \ {s} : step'[t] = step[t]
    BY <1>0, <1>4, GoToStep DEF CloseClient
  <2>3. /\ key'[s] = NoWord /\ \A t \in Sessions \ {s} : key'[t] = key[t]
        /\ UNCHANGED <<hup, reg, global_m>>
    BY <1>0, <1>4 DEF CloseClient, LocalTypes
  <2>4. \A t \in Sessions \ {s} : SessionInv(t)'
    <3>1. \A t \in Sessions \ {s} : Stays(t)
      BY <1>3, <1>4, <2>1, <2>2, <2>3 DEF Stays, CloseClient
    <3> QED BY <2>3, <3>1, OthersKeep
  <2>5. Values(said'[remote(s)], "response") = {}
    BY <1>0, <2>1, <2>2 DEF SessionInv, ServerInv
  <2>6. LockInv(s)' /\ KeyInv(s)' /\ ClientInv(s)'
    BY <1>0, <2>2 DEF LockInv, KeyInv, ClientInv
  <2>7. ServerInv(s)' /\ Answered(s)' BY <2>2, <2>5 DEF ServerInv, Answered
  <2>8. Routed(s)' BY <2>3 DEF Routed
  <2> QED BY <2>1, <2>4, <2>6, <2>7, <2>8 DEF SessionInv
<1>5. CASE Tie(s)
  <2>1. UNCHANGED <<hup, told, said, key, reg, global_m>> BY <1>5 DEF Tie, partyVars
  <2>2. /\ step[s] = "tie"
        /\ step'[s] = "tied" /\ \A t \in Sessions \ {s} : step'[t] = step[t]
    BY <1>0, <1>5, GoToStep DEF Tie
  <2>3. \A t \in Sessions \ {s} : SessionInv(t)'
    <3>1. \A t \in Sessions \ {s} : Stays(t) BY <1>3, <1>5, <2>1, <2>2 DEF Stays, Tie
    <3> QED BY <2>1, <3>1, OthersKeep
  <2>4. ChallengeInv' BY <2>1 DEF IInv, ChallengeInv
  <2>5. LockInv(s)' /\ ClientInv(s)' /\ ServerInv(s)'
    BY <1>0, <2>2 DEF LockInv, ClientInv, ServerInv
  <2>6. KeyInv(s)' BY <1>0, <2>1, <2>2 DEF SessionInv, KeyInv
  <2>7. Routed(s)' /\ Answered(s)' BY <1>0, <2>1 DEF SessionInv, Routed, Answered
  <2> QED BY <2>3, <2>4, <2>5, <2>6, <2>7 DEF SessionInv
<1> QED BY <1>2, <1>4, <1>5

\* What the parties do only adds to what they have told, and hup only grows.
LEMMA OutsideKeeps ==
    ASSUME IInv,
           (\E e \in Ends : Greet(e) \/ Reply(e) \/ Hangup(e)) \/ \E k \in Edited : EditRoute(k)
    PROVE  (\A t \in Sessions : SessionInv(t)') /\ ChallengeInv'
<1> USE EndsOfSession
<1>0. WireTypes BY DEF IInv, TypeInv
<1>1. ASSUME UNCHANGED <<said, step, localVars, reg, global_m>>, hup \subseteq hup',
             \A x \in Ends : Values(told[x], "response") \subseteq Values(told'[x], "response")
      PROVE  \A t \in Sessions : SessionInv(t)'
  <2> SUFFICES ASSUME NEW t \in Sessions PROVE SessionInv(t)'
    OBVIOUS
  <2>1. /\ SessionInv(t) /\ UNCHANGED <<challenge, response, key, rows, row, addrs>>
        /\ Values(told[clnt_(t)], "response") \subseteq Values(told'[clnt_(t)], "response")
    BY <1>1 DEF IInv, localVars, lookupVars
  <2>2. LockInv(t)' /\ KeyInv(t)' BY <1>1, <2>1 DEF SessionInv, LockInv, KeyInv
  <2>3. ClientInv(t)' /\ Routed(t)' BY <1>1, <2>1 DEF SessionInv, ClientInv, Routed
  <2>4. ServerInv(t)' /\ Answered(t)' BY <1>1, <2>1 DEF SessionInv, ServerInv, Answered
  <2> QED BY <2>2, <2>3, <2>4 DEF SessionInv
<1>2. ASSUME NEW e \in Ends, NEW r \in Seq(Messages), told' = [told EXCEPT ![e] = @ \o r],
             Values(r, "challenge") \subseteq {e},
             UNCHANGED <<said, step, localVars, reg, global_m, hup>>
      PROVE  (\A t \in Sessions : SessionInv(t)') /\ ChallengeInv'
  <2>1. told[e] \in Seq(Messages) BY <1>0 DEF WireTypes
  <2>2. told'[e] = told[e] \o r /\ \A x \in Ends \ {e} : told'[x] = told[x]
    BY <1>0, <1>2 DEF WireTypes
  <2>3. ASSUME NEW kind
        PROVE  Values(told'[e], kind) = Values(told[e], kind) \cup Values(r, kind)
    <3>1. Values(told[e] \o r, kind) = Values(told[e], kind) \cup Values(r, kind)
      BY ONLY <2>1, r \in Seq(Messages), ValuesOfConcat
    <3> QED BY <2>2, <3>1
  <2>4. ASSUME NEW x \in Ends
        PROVE  Values(told[x], "response") \subseteq Values(told'[x], "response")
    <3>1. CASE x = e BY <2>3, <3>1
    <3>2. CASE x # e BY <2>2, <3>2
    <3> QED BY <3>1, <3>2
  <2>5. ASSUME NEW x \in Ends PROVE Values(told'[x], "challenge") \subseteq {x}
    <3>1. Values(told[x], "challenge") \subseteq {x} BY DEF IInv, ChallengeInv
    <3>2. CASE x = e BY <1>2, <2>3, <3>1, <3>2
    <3>3. CASE x # e BY <2>2, <3>1, <3>3
    <3> QED BY <3>2, <3>3
  <2>6. ChallengeInv' BY <2>5 DEF ChallengeInv
  <2> QED BY <1>1, <1>2, <2>4, <2>6
<1>3. ASSUME NEW e \in Ends, Greet(e)
      PROVE  (\A t \in Sessions : SessionInv(t)') /\ ChallengeInv'
  <2>1. PICK ok \in Right(e) : told' = [told EXCEPT ![e] = <<Msg("version", ok)>>]
    BY <1>3 DEF Greet
  <2>2. Msg("version", ok) \in [kind : {"version"}, val : BOOLEAN] BY DEF Msg, Right
  <2>3. <<Msg("version", ok)>> \in Seq(Messages) BY <2>2 DEF Messages
  <2>4. told[e] \o <<Msg("version", ok)>> = <<Msg("version", ok)>> BY <1>3, <2>3 DEF Greet
  <2>5. told' = [told EXCEPT ![e] = @ \o <<Msg("version", ok)>>] BY <2>1, <2>4
  <2>6. Values(<<Msg("version", ok)>>, "challenge") = {}
    <3>1. Msg("version", ok).kind = "version" BY DEF Msg
    <3> QED BY <3>1 DEF Values
  <2> QED BY <1>2, <1>3, <2>3, <2>5, <2>6 DEF Greet
<1>4. ASSUME NEW e \in Ends, Reply(e)
      PROVE  (\A t \in Sessions : SessionInv(t)') /\ ChallengeInv'
  <2>1. said[e] \in Seq(Messages) /\ heard[e] \in Nat BY <1>0 DEF WireTypes
  <2>2. said[e][heard[e] + 1] \in Messages BY <1>4, <2>1 DEF Reply
  <2>3. PICK r \in Replies(e, said[e][heard[e] + 1]) : told' = [told EXCEPT ![e] = @ \o r]
    BY <1>4 DEF Reply
  <2>4. r \in Seq(Messages) /\ Values(r, "challenge") \subseteq {e}
    BY <2>2, RepliesAreMessages
  <2> QED BY <1>2, <1>4, <2>3, <2>4 DEF Reply
<1>5. ASSUME NEW e \in Ends, Hangup(e)
      PROVE  (\A t \in Sessions : SessionInv(t)') /\ ChallengeInv'
  <2>1. ChallengeInv' BY <1>5 DEF Hangup, IInv, ChallengeInv
  <2> QED BY <1>1, <1>5, <2>1 DEF Hangup
<1>6. ASSUME NEW k \in Edited, EditRoute(k)
      PROVE  (\A t \in Sessions : SessionInv(t)') /\ ChallengeInv'
  <2>1. ChallengeInv' BY <1>6 DEF EditRoute, partyVars, IInv, ChallengeInv
  <2> QED BY <1>1, <1>6, <2>1 DEF EditRoute, partyVars
<1> QED BY <1>3, <1>4, <1>5, <1>6

-------------------------------------------------------------------------------
(* The theorems.                                                           *)

\* IInv holds initially ...
LEMMA InitInv == Init => IInv
<1> SUFFICES ASSUME Init PROVE IInv
  OBVIOUS
<1>1. TypeInv BY InitTypes
<1>2. ASSUME NEW s \in Sessions PROVE SessionInv(s)
  <2>1. step[s] = "idle" /\ key[s] = NoWord /\ said[remote(s)] = <<>>
    BY EndsOfSession DEF Init
  <2> QED BY <2>1, ValuesOfNone DEF SessionInv, LockInv, KeyInv, ClientInv, ServerInv, Routed,
          Answered, CriticalSteps, ServerSteps
<1>3. ChallengeInv BY ValuesOfNone DEF Init, ChallengeInv
<1> QED BY <1>1, <1>2, <1>3 DEF IInv

\* ... is kept by every step ...
LEMMA StepInv == IInv /\ [Next]_vars => IInv'
<1> SUFFICES ASSUME IInv, [Next]_vars PROVE IInv'
  OBVIOUS
<1>1. TypeInv' BY TypesStep
<1>2. CASE UNCHANGED vars
  <2>1. (\A t \in Sessions : SessionInv(t)') /\ ChallengeInv'
    BY <1>2 DEF vars, fdVars, partyVars, localVars, lookupVars, dbVars, IInv, SessionInv,
       LockInv, KeyInv, ClientInv, ServerInv, Routed, Answered, ChallengeInv
  <2> QED BY <1>1, <2>1 DEF IInv
<1>3. ASSUME NEW s \in Sessions, Accept(s) \/ Operator(s) \/ Lock(s)
      PROVE  (\A t \in Sessions : SessionInv(t)') /\ ChallengeInv'
  BY <1>3, MovesKeep, SendKeeps, ClientKeeps, ConnectKeeps, AnswerKeeps, ReturnsKeep
     DEF Operator, Lock, LookUp, ConnectTo
<1> QED BY <1>1, <1>2, <1>3, OutsideKeeps DEF Next, IInv

\* ... and so is an invariant.
LEMMA Invariant == Spec => []IInv
BY InitInv, StepInv, PTL DEF Spec

\* The variables of the handshake keep their types; in particular connect_to
\* never counts past its last address.
THEOREM TypeCorrect == Spec => []TypeOK
<1>1. IInv => TypeOK
  BY DEF IInv, TypeInv, FdTypes, WireTypes, LocalTypes, SharedTypes, TypeOK
<1> QED BY <1>1, Invariant, PTL

\* A client is forwarded only by the record whose key it has answered with.
THEOREM RoutedSafe == Spec => []RoutedByAnswer
<1>1. IInv => RoutedByAnswer
  BY DEF IInv, SessionInv, Routed, RoutedByAnswer
<1> QED BY <1>1, Invariant, PTL

\* A server gets the answer to its own challenge, under its own password.
THEOREM AnsweredSafe == Spec => []ServerAnswered
<1>1. IInv => ServerAnswered
  BY DEF IInv, SessionInv, Answered, ServerAnswered
<1> QED BY <1>1, Invariant, PTL

===============================================================================
