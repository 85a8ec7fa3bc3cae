------------------------ MODULE WindowChannelProofs -------------------------
(***************************************************************************)
(* Proofs about WindowChannel and the heartbeat it runs on, for all        *)
(* timeouts, delays, faults and any number of requests.                    *)
(***************************************************************************)
EXTENDS WindowChannel, SequenceTheorems, TLAPS

Asks    == [id: Ids, age: 0..Delay]
Tells   == [id: Ids \cup {WakeUp}, result: Statuses, age: 0..Delay]
Entries == [id: Ids, age: 0..(DisconnectTimeout + 1)]

LEMMA Times ==
  /\ PollingRate \in Nat /\ PollingRate > 0
  /\ EstablishTimeout \in Nat /\ DisconnectTimeout \in Nat
  /\ PendingTimeout \in Nat /\ DisconnectTimeout <= PendingTimeout
  /\ ServerTimeout \in Nat /\ Delay \in Nat /\ MaxEvents \in Nat /\ MaxIds \in Nat
  BY TimesAssumption, BoundsAssumption

LEMMA TimeoutType == ASSUME NEW s PROVE TimeoutFor(s) \in 0..PendingTimeout
  BY Times DEF TimeoutFor

\* A message that is posted, and the id that is remembered for it.
LEMMA PostTypes ==
  ASSUME TypeOK, NEW id \in Ids, Post(id)
  PROVE  requests' \in Seq(Asks) /\ Entry(id) \in Entries
<1>1. [id |-> id, age |-> 0] \in Asks /\ [id |-> id, age |-> 0] \in Entries
  BY Times DEF Asks, Entries
<1>2. requests \in Seq(Asks)
  BY DEF TypeOK, Asks
<1>3. QED
  BY <1>1, <1>2 DEF Post, Entry

\* The messages on their way grow older.
LEMMA OlderTypes ==
  ASSUME TypeOK, NothingDue
  PROVE  Older(requests) \in Seq(Asks) /\ Older(responses) \in Seq(Tells)
<1>1. requests \in Seq(Asks) /\ responses \in Seq(Tells)
  BY DEF TypeOK, Asks, Tells
<1>2. ASSUME NEW k \in DOMAIN requests
      PROVE  [requests[k] EXCEPT !.age = @ + 1] \in Asks
  <2>1. requests[k] \in Asks /\ requests[k] \in ToSet(requests)
    BY <1>1 DEF ToSet
  <2>2. requests[k].age < Delay
    BY <2>1 DEF NothingDue
  <2>3. QED
    BY <2>1, <2>2, Times DEF Asks
<1>3. ASSUME NEW k \in DOMAIN responses
      PROVE  [responses[k] EXCEPT !.age = @ + 1] \in Tells
  <2>1. responses[k] \in Tells /\ responses[k] \in ToSet(responses)
    BY <1>1 DEF ToSet
  <2>2. responses[k].age < Delay
    BY <2>1 DEF NothingDue
  <2>3. QED
    BY <2>1, <2>2, Times DEF Tells
<1>4. Older(requests) \in [1..Len(requests) -> Asks] /\ Len(requests) \in Nat
  BY <1>1, <1>2 DEF Older
<1>5. Older(responses) \in [1..Len(responses) -> Tells] /\ Len(responses) \in Nat
  BY <1>1, <1>3 DEF Older
<1>6. QED
  BY <1>4, <1>5, SeqDef

\* The type invariant in two parts: the messages and lists, and the rest.
Messages ==
  /\ pending \in SUBSET Entries
  /\ requests \in Seq(Asks)
  /\ responses \in Seq(Tells)

Scalars ==
  /\ phase \in {"establishing", "maintaining", "timedOut", "disconnected"}
  /\ status \in Statuses \cup {"unknown"}
  /\ establishTimer \in 0..EstablishTimeout
  /\ interval \in 0..PollingRate
  /\ disconnectTimer \in 0..PendingTimeout
  /\ polls \in [0..PollingRate -> Nat]
  /\ server \in {"loading", "establishing", "maintaining",
                 "timedOut", "disconnected", "closed"}
  /\ answer \in Statuses
  /\ serverTimer \in 0..EstablishTimeout \cup 0..ServerTimeout
  /\ events \in 0..MaxEvents
  /\ up \in 0..DisconnectTimeout

LEMMA TypesSplit == TypeOK <=> Messages /\ Scalars
  BY DEF TypeOK, Messages, Scalars, Asks, Tells, Entries

LEMMA HeadType ==
  ASSUME Messages, responses # <<>>
  PROVE  /\ Head(responses) \in Tells /\ Head(responses).result \in Statuses
         /\ Tail(responses) \in Seq(Tells)
<1>1. Head(responses) \in Tells /\ Tail(responses) \in Seq(Tells)
  BY DEF Messages
<1>2. QED
  BY <1>1 DEF Tells

\* A step of the client keeps the types.
LEMMA ClientTypes == ASSUME TypeOK, Client PROVE Messages' /\ Scalars'
<1>0. Messages /\ Scalars
  BY TypesSplit
<1>1. CASE EstablishPoll
  <2>1. PICK id \in Ids : Post(id) /\ pending' = pending \cup {Entry(id)}
    BY <1>1 DEF EstablishPoll
  <2>2. Messages'
    BY <1>0, <1>1, <2>1, PostTypes DEF EstablishPoll, Messages
  <2>3. Scalars'
    BY <1>0, <1>1, Times DEF EstablishPoll, Scalars, serverVars
  <2>4. QED
    BY <2>2, <2>3
<1>a. ASSUME WindowCloses \/ WindowStays
      PROVE  requests' \in Seq(Asks) /\ (server' = server \/ server' = "closed")
  <2>1. <<>> \in Seq(Asks) /\ requests \in Seq(Asks)
    BY <1>0 DEF Messages
  <2>2. QED
    BY <1>a, <2>1 DEF WindowCloses, WindowStays
<1>2. CASE EstablishTimesOut
  <2>1. Messages'
    BY <1>0, <1>a, <1>2 DEF EstablishTimesOut, Messages
  <2>2. QED
    BY <1>0, <1>a, <1>2, <2>1 DEF EstablishTimesOut, Scalars
<1>3. CASE Establish
  <2>1. PICK id \in Ids : Post(id) /\ pending' = {Entry(id)}
    BY <1>3 DEF Establish
  <2>2. Messages'
    BY <1>0, <1>3, <2>1, PostTypes, HeadType DEF Establish, Messages
  <2>3. Scalars'
    BY <1>0, <1>3, HeadType, TimeoutType DEF Establish, Scalars, serverVars
  <2>4. QED
    BY <2>2, <2>3
<1>4. CASE Ignore
  BY <1>0, <1>4, HeadType DEF Ignore, clientVars, serverVars, Messages, Scalars
<1>5. CASE Receive
  <2>1. Messages'
    BY <1>0, <1>5, HeadType DEF Receive, Messages
  <2>2. polls' \in [0..PollingRate -> Nat]
    BY <1>0, <1>5, Times DEF Receive, SchedulePoll, Scalars
  <2>3. disconnectTimer' \in 0..PendingTimeout /\ status' \in Statuses \cup {"unknown"}
    BY <1>0, <1>5, HeadType, TimeoutType DEF Receive, Learn, Scalars
  <2>4. QED
    BY <1>0, <1>5, <2>1, <2>2, <2>3 DEF Receive, Scalars, serverVars
<1>6. CASE Poll
  <2>1. PICK id \in Ids : Post(id) /\ pending' = Remembered \cup {Entry(id)}
    BY <1>6 DEF Poll
  <2>2. Messages'
    BY <1>0, <1>6, <2>1, PostTypes DEF Poll, Messages, Remembered
  <2>3. polls' \in [0..PollingRate -> Nat]
    BY <1>0, <1>6, Times DEF Poll, Scalars
  <2>4. QED
    BY <1>0, <1>6, <2>2, <2>3 DEF Poll, Scalars, serverVars
<1>7. CASE Disconnect
  <2>1. Messages'
    BY <1>0, <1>a, <1>7 DEF Disconnect, Messages
  <2>2. QED
    BY <1>0, <1>a, <1>7, <2>1 DEF Disconnect, Scalars
<1>8. QED
  BY <1>1, <1>2, <1>3, <1>4, <1>5, <1>6, <1>7 DEF Client

\* So does what happens in the signer window, and the passing of time.
LEMMA OthersTypes ==
  ASSUME TypeOK, Server \/ ChangeStatus \/ Reload \/ CloseWindow \/ Tick
  PROVE  Messages' /\ Scalars'
<1>0. Messages /\ Scalars
  BY TypesSplit
<1>1. ASSUME NEW id \in Ids \cup {WakeUp} PROVE Response(id) \in Tells
  BY <1>0, Times DEF Response, Tells, Scalars
<1>2. CASE ServerStarts
  <2>1. responses' \in Seq(Tells)
    BY <1>0, <1>1, <1>2 DEF ServerStarts, Messages
  <2>2. QED
    BY <1>0, <1>2, <2>1, Times DEF ServerStarts, clientVars, Messages, Scalars
<1>3. CASE ServerReceives
  <2>1. Head(requests) \in Asks /\ requests' \in Seq(Asks)
    BY <1>0, <1>3 DEF ServerReceives, Messages
  <2>2. responses' \in Seq(Tells)
    <3>1. Response(Head(requests).id) \in Tells
      BY <1>1, <2>1 DEF Asks
    <3>2. responses' = responses \/ responses' = Append(responses, Response(Head(requests).id))
      BY <1>3 DEF ServerReceives
    <3>3. QED
      BY <1>0, <3>1, <3>2 DEF Messages
  <2>3. QED
    BY <1>0, <1>3, <2>1, <2>2, Times DEF ServerReceives, clientVars, Messages, Scalars
<1>4. CASE ServerTimesOut
  BY <1>0, <1>4 DEF ServerTimesOut, clientVars, Messages, Scalars
<1>5. CASE ChangeStatus
  BY <1>0, <1>5, Times DEF ChangeStatus, Happens, clientVars, Messages, Scalars, Statuses
<1>6. CASE Reload
  BY <1>0, <1>6, Times DEF Reload, Happens, clientVars, Messages, Scalars
<1>7. CASE CloseWindow
  BY <1>0, <1>7, Times DEF CloseWindow, Happens, WindowCloses, clientVars, Messages, Scalars
<1>8. CASE Tick
  <2>1. requests' \in Seq(Asks) /\ responses' \in Seq(Tells)
    BY <1>8, OlderTypes DEF Tick
  <2>2. pending' \in SUBSET Entries
    <3>1. ASSUME NEW e \in pending
          PROVE  [e EXCEPT !.age = IF @ > DisconnectTimeout THEN @ ELSE @ + 1] \in Entries
      <4>1. e \in [id: Ids, age: 0..(DisconnectTimeout + 1)]
        BY <1>0 DEF Messages, Entries
      <4>2. (IF e.age > DisconnectTimeout THEN e.age ELSE e.age + 1) \in 0..(DisconnectTimeout + 1)
        BY <4>1, Times
      <4>3. QED
        BY <4>1, <4>2 DEF Entries
    <3>2. QED
      BY <1>8, <3>1 DEF Tick
  <2>3. polls' \in [0..PollingRate -> Nat]
    <3>1. \A t \in 0..PollingRate : t < PollingRate => t + 1 \in 0..PollingRate
      BY Times
    <3>2. \A t \in 0..PollingRate : (IF t < PollingRate THEN polls[t + 1] ELSE 0) \in Nat
      BY <1>0, <3>1 DEF Scalars
    <3>3. QED
      BY <1>8, <3>2 DEF Tick
  <2>4. /\ establishTimer' \in 0..EstablishTimeout /\ interval' \in 0..PollingRate
        /\ disconnectTimer' \in 0..PendingTimeout
        /\ serverTimer' \in 0..EstablishTimeout \cup 0..ServerTimeout
        /\ up' \in 0..DisconnectTimeout
    <3>1. ASSUME NEW t \in Nat PROVE Down(t) \in Nat /\ Down(t) <= t
      BY <3>1 DEF Down
    <3>2. /\ establishTimer' = Down(establishTimer) /\ interval' = Down(interval)
          /\ disconnectTimer' = Down(disconnectTimer) /\ serverTimer' = Down(serverTimer)
          /\ up' = IF up < DisconnectTimeout THEN up + 1 ELSE up
      BY <1>8 DEF Tick
    <3>3. /\ establishTimer \in Nat /\ establishTimer <= EstablishTimeout
          /\ interval \in Nat /\ interval <= PollingRate
          /\ disconnectTimer \in Nat /\ disconnectTimer <= PendingTimeout
          /\ serverTimer \in Nat
          /\ serverTimer <= EstablishTimeout \/ serverTimer <= ServerTimeout
          /\ up \in 0..DisconnectTimeout
      BY <1>0, Times DEF Scalars
    <3>4. up' \in 0..DisconnectTimeout
      BY <3>2, <3>3, Times
    <3>5. QED
      BY <3>1, <3>2, <3>3, <3>4, Times
  <2>5. QED
    BY <1>0, <1>8, <2>1, <2>2, <2>3, <2>4 DEF Tick, Messages, Scalars
<1>9. QED
  BY <1>2, <1>3, <1>4, <1>5, <1>6, <1>7, <1>8 DEF Server
-----------------------------------------------------------------------------
(***************************************************************************)
(* The channel                                                             *)
(***************************************************************************)

ChannelTypes ==
  /\ promise \in {"pending", "resolved", "rejected"}
  /\ closed \in BOOLEAN /\ signerStatus \in Statuses
  /\ queue \in Seq(1..MaxSends) /\ posted \in Seq(1..MaxSends)
  /\ accepted \in 0..MaxSends

\* The close listeners have run if the channel was closed.
Notifies == notified = IF closed THEN 1 ELSE 0

\* The promise and the channel follow the heartbeat: the channel has the status
\* that the client has learnt, and keeps a queue only while that is pending.
Follows ==
  /\ promise = "pending" <=> phase = "establishing"
  /\ promise = "resolved" <=> phase \in {"maintaining", "disconnected"}
  /\ promise = "resolved" => status = signerStatus
  /\ promise # "resolved" => accepted = 0 /\ queue = <<>> /\ posted = <<>>
  /\ queue # <<>> => signerStatus = "pending"

InSequence == server # "closed" => posted \o queue = [k \in 1..accepted |-> k]

CInv == TypeOK /\ ChannelTypes /\ Notifies /\ Follows /\ InSequence

LEMMA Closing ==
  ASSUME CInv, WindowCloses \/ WindowStays
  PROVE  requests' \in Seq(Asks) /\ (server' = server \/ server' = "closed")
<1>1. <<>> \in Seq(Asks) /\ requests \in Seq(Asks)
  BY TypesSplit DEF CInv, Messages
<1>2. QED
  BY <1>1 DEF WindowCloses, WindowStays

LEMMA CloseFacts ==
  ASSUME CInv, Close
  PROVE  /\ closed' \in BOOLEAN /\ Notifies'
         /\ WindowCloses \/ WindowStays
<1>1. CASE closed
  BY <1>1 DEF Close, CInv, ChannelTypes, Notifies
<1>2. CASE ~closed
  BY <1>2 DEF Close, CloseSignerWindow, CInv, Notifies
<1>3. QED
  BY <1>1, <1>2

\* Every step of the channel keeps the types of the heartbeat.
LEMMA NextTypes == ASSUME CInv, ChannelNext PROVE TypeOK'
<1>1. CASE Callbacks
  <2>1. Client
    BY <1>1 DEF Callbacks, OnEstablish, OnEstablishTimeout, OnResponse, OnDisconnect, Client
  <2>2. QED
    BY <2>1, ClientTypes DEF CInv, TypeOK, Messages, Scalars, Asks, Tells, Entries
<1>2. CASE HeartbeatOnly
  <2>1. Client \/ Server \/ ChangeStatus \/ Reload \/ CloseWindow \/ Tick
    BY <1>2 DEF HeartbeatOnly, Client
  <2>2. QED
    BY <2>1, ClientTypes, OthersTypes
    DEF CInv, TypeOK, Messages, Scalars, Asks, Tells, Entries
<1>3. CASE Send
  BY <1>3 DEF Send, vars, clientVars, serverVars, CInv, TypeOK
<1>4. CASE CloseChannel
  <2>1. requests' \in Seq(Asks) /\ (server' = server \/ server' = "closed")
    BY <1>4, CloseFacts, Closing DEF CloseChannel
  <2>2. QED
    BY <1>4, <2>1 DEF CloseChannel, clientVars, CInv, TypeOK, Asks
<1>5. QED
  BY <1>1, <1>2, <1>3, <1>4 DEF ChannelNext

\* A window that is closed stays closed.
LEMMA NextServer ==
  ASSUME CInv, ChannelNext
  PROVE  server' # "closed" => server # "closed"
<1>1. WindowCloses => server' = "closed"
  BY DEF WindowCloses
<1>2. CASE Callbacks
  BY <1>1, <1>2 DEF Callbacks, OnEstablish, OnEstablishTimeout, OnResponse, OnDisconnect,
     Establish, EstablishTimesOut, Receive, Disconnect, serverVars, WindowStays
<1>3. CASE HeartbeatOnly
  BY <1>1, <1>3 DEF HeartbeatOnly, EstablishPoll, Ignore, Poll, Server, ServerStarts,
     ServerReceives, ServerTimesOut, ChangeStatus, Reload, CloseWindow, Tick, serverVars
<1>4. CASE Send
  BY <1>4 DEF Send, vars, serverVars
<1>5. CASE CloseChannel
  BY <1>1, <1>5, CloseFacts DEF CloseChannel, WindowStays
<1>6. QED
  BY <1>2, <1>3, <1>4, <1>5 DEF ChannelNext

LEMMA Sequences ==
  ASSUME CInv
  PROVE  /\ posted \o queue \in Seq(1..MaxSends)
         /\ (posted \o queue) \o <<>> = posted \o queue
         /\ \A r \in 1..MaxSends :
              /\ posted \o Append(queue, r) = Append(posted \o queue, r)
              /\ (posted \o <<r>>) \o <<>> = Append(posted \o <<>>, r)
<1> posted \in Seq(1..MaxSends) /\ queue \in Seq(1..MaxSends)
  BY DEF CInv, ChannelTypes
<1>1. posted \o queue \in Seq(1..MaxSends)
  BY ConcatProperties
<1>2. (posted \o queue) \o <<>> = posted \o queue
  BY <1>1, ConcatEmptySeq
<1>3. ASSUME NEW r \in 1..MaxSends
      PROVE  /\ posted \o Append(queue, r) = Append(posted \o queue, r)
             /\ (posted \o <<r>>) \o <<>> = Append(posted \o <<>>, r)
  <2>1. posted \o Append(queue, r) = Append(posted \o queue, r)
    BY <1>1
  <2>2. posted \o <<r>> \in Seq(1..MaxSends) /\ posted \o <<r>> = Append(posted, r)
    OBVIOUS
  <2>3. QED
    BY <2>1, <2>2, ConcatEmptySeq
<1>4. QED
  BY <1>1, <1>2, <1>3

LEMMA NextChannel ==
  ASSUME CInv, ChannelNext
  PROVE  ChannelTypes' /\ Notifies' /\ Follows' /\ InSequence'
<1>0. /\ ChannelTypes /\ Notifies /\ Follows /\ InSequence /\ Messages
      /\ server' # "closed" => server # "closed"
  BY NextServer, TypesSplit DEF CInv
<1>1. CASE OnEstablish
  BY <1>0, <1>1, HeadType
  DEF OnEstablish, Establish, ChannelTypes, Notifies, Follows, InSequence
<1>2. CASE OnEstablishTimeout
  BY <1>0, <1>2
  DEF OnEstablishTimeout, EstablishTimesOut, ChannelTypes, Notifies, Follows, InSequence
<1>3. CASE OnResponse
  <2>1. /\ phase = "maintaining" /\ promise = "resolved" /\ status = signerStatus
        /\ UNCHANGED <<phase, promise, closed, accepted, notified, server>>
    BY <1>0, <1>3 DEF OnResponse, Receive, Listening, Follows, serverVars
  <2>2. status' \in Statuses
    BY <1>0, <1>3, <2>1, HeadType DEF OnResponse, Receive, Learn, ChannelTypes
  <2>3. CASE status' = status
    BY <1>0, <1>3, <2>1, <2>3
    DEF OnResponse, ChannelTypes, Notifies, Follows, InSequence
  <2>4. CASE status' # status
    <3>1. /\ signerStatus' = status'
          /\ \/ /\ status' = "ready" /\ queue' = <<>>
                /\ posted' = IF server = "closed" THEN posted ELSE posted \o queue
             \/ status' = "pending" /\ UNCHANGED <<queue, posted>>
      BY <1>3, <2>2, <2>4 DEF OnResponse, SignerStatusIs, Posts, Statuses
    <3>2. ChannelTypes'
      <4>1. <<>> \in Seq(1..MaxSends)
        OBVIOUS
      <4>2. posted' \in Seq(1..MaxSends) /\ queue' \in Seq(1..MaxSends)
        BY <1>0, <3>1, <4>1, Sequences DEF ChannelTypes
      <4>3. QED
        BY <1>0, <2>1, <2>2, <3>1, <4>2 DEF ChannelTypes
    <3>3. InSequence'
      BY <1>0, <2>1, <3>1, Sequences DEF InSequence
    <3>4. QED
      BY <1>0, <2>1, <3>1, <3>2, <3>3 DEF Notifies, Follows
  <2>5. QED
    BY <2>3, <2>4
<1>4. CASE OnDisconnect
  BY <1>0, <1>4, CloseFacts
  DEF OnDisconnect, Disconnect, ChannelTypes, Follows, InSequence
<1>5. CASE HeartbeatOnly
  <2>1. phase' = phase /\ status' = status
    BY <1>5 DEF HeartbeatOnly, EstablishPoll, Ignore, Poll, Server, ServerStarts,
       ServerReceives, ServerTimesOut, ChangeStatus, Reload, CloseWindow, Tick, clientVars
  <2>2. QED
    BY <1>0, <1>5, <2>1
    DEF HeartbeatOnly, channelVars, ChannelTypes, Notifies, Follows, InSequence
<1>6. CASE Send
  <2>1. /\ promise = "resolved" /\ server # "closed" /\ accepted + 1 \in 1..MaxSends
        /\ accepted' = accepted + 1
        /\ UNCHANGED <<vars, promise, closed, signerStatus, notified>>
    BY <1>0, <1>6, ChannelAssumption DEF Send, IsClosed, ChannelTypes
  <2>2. \/ /\ signerStatus = "pending" /\ queue' = Append(queue, accepted + 1)
           /\ UNCHANGED posted
        \/ /\ queue = <<>> /\ posted' = posted \o <<accepted + 1>> /\ UNCHANGED queue
    BY <1>0, <1>6, <2>1 DEF Send, Enqueue, Posts, Follows
  <2>3. ChannelTypes'
    <3>1. posted \in Seq(1..MaxSends) /\ queue \in Seq(1..MaxSends)
      BY <1>0 DEF ChannelTypes
    <3>2. posted' \in Seq(1..MaxSends) /\ queue' \in Seq(1..MaxSends)
      <4>1. ASSUME NEW S, NEW s \in Seq(S), NEW e \in S
            PROVE  Append(s, e) \in Seq(S) /\ s \o <<e>> \in Seq(S)
        <5>1. <<e>> \in Seq(S) /\ Append(s, e) \in Seq(S)
          OBVIOUS
        <5>2. QED
          BY <5>1, ConcatProperties
      <4>2. QED
        BY <2>1, <2>2, <3>1, <4>1
    <3>3. accepted' \in 0..MaxSends
      BY <1>0, <2>1, ChannelAssumption DEF ChannelTypes
    <3>4. QED
      BY <1>0, <2>1, <3>2, <3>3 DEF ChannelTypes
  <2>4. posted' \o queue' = Append(posted \o queue, accepted + 1)
    BY <2>1, <2>2, Sequences
  <2>5. Append([k \in 1..accepted |-> k], accepted + 1) = [k \in 1..(accepted + 1) |-> k]
    BY <1>0 DEF ChannelTypes
  <2>6. InSequence'
    BY <1>0, <2>1, <2>4, <2>5 DEF InSequence
  <2>7. Follows' /\ Notifies'
    BY <1>0, <2>1, <2>2 DEF Follows, Notifies, vars, clientVars
  <2>8. QED
    BY <2>3, <2>6, <2>7
<1>7. CASE CloseChannel
  BY <1>0, <1>7, CloseFacts
  DEF CloseChannel, clientVars, ChannelTypes, Follows, InSequence
<1>8. QED
  BY <1>1, <1>2, <1>3, <1>4, <1>5, <1>6, <1>7 DEF ChannelNext, Callbacks

LEMMA InitCInv == ChannelInit => CInv
<1> SUFFICES ASSUME ChannelInit PROVE CInv
  OBVIOUS
<1>1. Messages
  BY DEF ChannelInit, Init, Messages
<1>2. Scalars
  BY Times DEF ChannelInit, Init, Scalars
<1>3. ChannelTypes /\ Notifies /\ Follows
  <2>1. <<>> \in Seq(1..MaxSends) /\ 0 \in 0..MaxSends
    BY ChannelAssumption
  <2>2. ChannelTypes
    BY <2>1 DEF ChannelInit, ChannelTypes, Statuses
  <2>3. Notifies /\ Follows
    BY DEF ChannelInit, Init, Notifies, Follows
  <2>4. QED
    BY <2>2, <2>3
<1>4. InSequence
  <2>1. [k \in 1..0 |-> k] = <<>> /\ <<>> \o <<>> = <<>>
    OBVIOUS
  <2>2. QED
    BY <2>1 DEF ChannelInit, InSequence
<1>5. QED
  BY <1>1, <1>2, <1>3, <1>4, TypesSplit DEF CInv

LEMMA NextCInv == CInv /\ [ChannelNext]_allVars => CInv'
<1>1. ASSUME CInv, ChannelNext PROVE CInv'
  BY <1>1, NextTypes, NextChannel DEF CInv
<1>2. ASSUME CInv, UNCHANGED allVars PROVE CInv'
  BY <1>2 DEF allVars, vars, clientVars, serverVars, channelVars, CInv, TypeOK, ChannelTypes,
              Notifies, Follows, InSequence
<1>3. QED
  BY <1>1, <1>2

\* The heartbeat and the channel have their types; the close listeners run at
\* most once, whoever closes the channel and however often.
THEOREM TypesCorrect == ChannelSpec => [](TypeOK /\ ChannelTypeOK)
<1>1. CInv => TypeOK /\ ChannelTypeOK
  BY DEF CInv, ChannelTypes, Notifies, ChannelTypeOK
<1>2. QED
  BY <1>1, InitCInv, NextCInv, PTL DEF ChannelSpec

\* The requests reach an open signer window once and in the order in which the
\* channel accepted them, whatever the signer's status does in between.
THEOREM RequestsStayInOrder == ChannelSpec => []InOrder
<1>1. CInv => InOrder
  BY DEF CInv, Follows, InSequence, InOrder
<1>2. QED
  BY <1>1, InitCInv, NextCInv, PTL DEF ChannelSpec

-----------------------------------------------------------------------------
(***************************************************************************)
(* A signer that answers                                                   *)
(***************************************************************************)

\* Messages arrive before time goes on, a polling rate is shorter than the
\* timeout, and a signer's page that is loaded anew wakes up the client.  With
\* slower messages a request may be superseded by the next one before its answer
\* is there, and the client then gives up a signer that answers.
Prompt ==
  /\ Delay = 0 /\ PollingRate < DisconnectTimeout
  /\ WakesUp \/ "reload" \notin Faults

Alive == server \in {"establishing", "maintaining"}

\* If the next request is t ticks away, the timer was reset in the polling period
\* that has PollingRate - t ticks behind it, or the server was started in it.
InTime(t) ==
  \/ DisconnectTimeout + t <= disconnectTimer + PollingRate
  \/ up + t <= PollingRate

\* A message that the client waits for is on its way.
AnswerComes == \E m \in ToSet(requests) \cup ToSet(responses) : Awaited(m)

\* A request is scheduled, or an answer comes that will schedule one, or the
\* server has just started and wakes up the client.
Beats ==
  \/ \E t \in 0..PollingRate : polls[t] > 0 /\ InTime(t)
  \/ AnswerComes /\ InTime(0)
  \/ up = 0 /\ \E m \in ToSet(responses) : m.id = WakeUp

\* Before its page has started for the first time, the signer has told nothing.
Unheard == "reload" \notin Faults /\ server = "loading" =>
             responses = <<>> /\ phase # "maintaining"

LiveInv == (phase = "maintaining" /\ Alive => Beats) /\ Unheard

\* However far away the next request is, the timer is in time for it.
LEMMA BeatsInTime == ASSUME TypeOK, Beats PROVE InTime(0)
<1>1. /\ disconnectTimer \in Nat /\ up \in Nat
      /\ PollingRate \in Nat /\ DisconnectTimeout \in Nat
  BY Times DEF TypeOK
<1>2. ASSUME NEW t \in 0..PollingRate, InTime(t) PROVE InTime(0)
  BY <1>1, <1>2 DEF InTime
<1>3. CASE up = 0
  BY <1>1, <1>3 DEF InTime
<1>4. QED
  BY <1>2, <1>3 DEF Beats

\* Appending to a list of messages, or taking its head away.
LEMMA Lists ==
  ASSUME NEW S, NEW s \in Seq(S)
  PROVE  /\ \A e \in S : ToSet(Append(s, e)) = ToSet(s) \cup {e}
         /\ s # <<>> => /\ Head(s) \in S /\ Tail(s) \in Seq(S)
                        /\ ToSet(s) = {Head(s)} \cup ToSet(Tail(s))
<1>1. ASSUME NEW e \in S PROVE ToSet(Append(s, e)) = ToSet(s) \cup {e}
  <2>1. /\ DOMAIN Append(s, e) = DOMAIN s \cup {Len(s) + 1}
        /\ \A k \in DOMAIN s : Append(s, e)[k] = s[k]
        /\ Append(s, e)[Len(s) + 1] = e
    OBVIOUS
  <2>2. QED
    BY <2>1 DEF ToSet
<1>2. ASSUME s # <<>>
      PROVE  Head(s) \in S /\ Tail(s) \in Seq(S) /\ ToSet(s) = {Head(s)} \cup ToSet(Tail(s))
  <2>1. Head(s) \in S /\ Tail(s) \in Seq(S) /\ Len(s) \in Nat /\ DOMAIN s = 1..Len(s)
    BY <1>2
  <2>2. DOMAIN Tail(s) = 1..(Len(s) - 1) /\ \A k \in 1..(Len(s) - 1) : Tail(s)[k] = s[k + 1]
    BY <1>2
  <2>3. s[1] = Head(s) /\ 1 \in DOMAIN s
    BY <1>2
  <2>4. ToSet(s) \subseteq {Head(s)} \cup ToSet(Tail(s))
    <3>1. ASSUME NEW k \in DOMAIN s PROVE s[k] \in {Head(s)} \cup ToSet(Tail(s))
      <4>1. CASE k = 1
        BY <2>3, <4>1
      <4>2. CASE k # 1
        <5>1. k - 1 \in 1..(Len(s) - 1) /\ (k - 1) + 1 = k
          BY <2>1, <4>2
        <5>2. Tail(s)[k - 1] = s[k]
          BY <2>2, <5>1
        <5>3. QED
          BY <2>2, <5>1, <5>2 DEF ToSet
      <4>3. QED
        BY <4>1, <4>2
    <3>2. QED
      BY <3>1 DEF ToSet
  <2>5. ToSet(Tail(s)) \subseteq ToSet(s)
    <3>1. ASSUME NEW k \in 1..(Len(s) - 1) PROVE Tail(s)[k] \in ToSet(s)
      <4>1. k + 1 \in DOMAIN s
        BY <2>1
      <4>2. QED
        BY <2>2, <4>1 DEF ToSet
    <3>2. QED
      BY <2>2, <3>1 DEF ToSet
  <2>6. QED
    BY <2>1, <2>3, <2>4, <2>5 DEF ToSet
<1>3. QED
  BY <1>1, <1>2

\* What the steps below know of the numbers.
LEMMA Clocks ==
  ASSUME TypeOK
  PROVE  /\ disconnectTimer \in Nat /\ up \in Nat /\ polls \in [0..PollingRate -> Nat]
         /\ PollingRate \in Nat /\ 0 \in 0..PollingRate /\ PollingRate \in 0..PollingRate
         /\ requests \in Seq(Asks) /\ responses \in Seq(Tells)
  BY Times DEF TypeOK, Asks, Tells

\* Arithmetic of the comparisons below.
LEMMA Margins ==
  ASSUME NEW d \in Nat, NEW r \in Nat
  PROVE  /\ \A a \in Nat : d <= a => d + 0 <= a + r /\ d + r <= a + r
         /\ \A t \in Nat, u, v \in Nat :
              t # 0 /\ v <= u + 1 /\ u + t <= r => v + (t - 1) <= r
         /\ \A t \in Nat, a \in Nat :
              t # 0 /\ a > 0 /\ d + t <= a + r => d + (t - 1) <= (a - 1) + r
OBVIOUS

\* A request that has just been posted is waited for.
LEMMA PostedIsAwaited ==
  ASSUME TypeOK, NEW id \in Ids, Post(id), Entry(id) \in pending'
  PROVE  AnswerComes'
<1> DEFINE m == [id |-> id, age |-> 0]
<1>1. m \in Asks
  BY Times DEF Asks
<1>2. m \in ToSet(requests')
  BY <1>1, Clocks, Lists DEF Post
<1>3. Awaited(m)'
  BY DEF Awaited, Entry
<1>4. QED
  BY <1>2, <1>3 DEF AnswerComes

\* A client that has heard from its signer goes on asking.
LEMMA ClientBeats ==
  ASSUME Prompt, TypeOK, LiveInv, Client
  PROVE  LiveInv'
<1>0. /\ phase = "maintaining" /\ Alive => Beats
      /\ Unheard
  BY DEF LiveInv
<1>1. CASE EstablishPoll
  BY <1>0, <1>1 DEF EstablishPoll, serverVars, LiveInv, Unheard
<1>2. CASE EstablishTimesOut
  BY <1>0, <1>2 DEF EstablishTimesOut, WindowCloses, WindowStays, LiveInv, Unheard
<1>3. CASE Ignore
  <2>1. phase' = phase /\ server' = server /\ responses # <<>> /\ phase # "maintaining"
    BY <1>3 DEF Ignore, Listening, clientVars, serverVars
  <2>2. QED
    BY <1>0, <2>1 DEF LiveInv, Unheard
<1>4. CASE Disconnect
  BY <1>0, <1>4 DEF Disconnect, WindowCloses, WindowStays, LiveInv, Unheard
<1>5. CASE Establish
  <2>1. PICK id \in Ids : Post(id) /\ pending' = {Entry(id)}
    BY <1>5 DEF Establish
  <2>2. AnswerComes'
    BY <2>1, PostedIsAwaited
  <2>3. DisconnectTimeout <= disconnectTimer' /\ disconnectTimer' \in Nat
    BY <1>5, Times DEF Establish, TimeoutFor
  <2>4. InTime(0)'
    <3>1. DisconnectTimeout + 0 <= disconnectTimer' + PollingRate
      BY <2>3, Times, Margins
    <3>2. QED
      BY <3>1 DEF InTime
  <2>5. Unheard'
    BY <1>0, <1>5 DEF Establish, serverVars, Unheard
  <2>6. QED
    BY <2>2, <2>4, <2>5 DEF LiveInv, Beats
<1>6. CASE Poll
  <2>1. PICK id \in Ids : Post(id) /\ pending' = Remembered \cup {Entry(id)}
    BY <1>6 DEF Poll
  <2>2. AnswerComes'
    BY <2>1, PostedIsAwaited
  <2>3. /\ phase' = phase /\ server' = server /\ responses' = responses
        /\ up' = up /\ disconnectTimer' = disconnectTimer
    BY <1>6 DEF Poll, serverVars
  <2>4. InTime(0) => InTime(0)'
    BY <2>3 DEF InTime
  <2>5. phase' = "maintaining" /\ Alive' => Beats'
    BY <1>0, <2>2, <2>3, <2>4, BeatsInTime DEF Alive, Beats
  <2>6. QED
    BY <1>0, <2>3, <2>5 DEF LiveInv, Unheard
<1>7. CASE Receive
  <2> DEFINE m == Head(responses)
  <2>1. /\ phase' = phase /\ phase = "maintaining" /\ server' = server /\ up' = up
        /\ requests' = requests /\ responses # <<>> /\ responses' = Tail(responses)
        /\ polls' = [polls EXCEPT ![PollingRate] = @ + 1]
    BY <1>7 DEF Receive, Listening, SchedulePoll, serverVars
  <2>2. polls'[PollingRate] > 0 /\ \A t \in 0..PollingRate : polls[t] > 0 => polls'[t] > 0
    BY <2>1, Clocks
  <2>3. ToSet(responses) = {m} \cup ToSet(responses')
    BY <2>1, Clocks, Lists
  <2>4. ASSUME Alive PROVE Beats'
    <3>1. CASE Awaited(m)
      <4>1. DisconnectTimeout <= disconnectTimer' /\ disconnectTimer' \in Nat
        BY <1>7, <3>1, Times DEF Receive, TimeoutFor
      <4>2. DisconnectTimeout + PollingRate <= disconnectTimer' + PollingRate
        BY <4>1, Times, Margins
      <4>3. QED
        BY <2>2, <4>2, Clocks DEF Beats, InTime
    <3>2. CASE ~Awaited(m)
      <4>1. pending' = pending /\ disconnectTimer' = disconnectTimer
        BY <1>7, <3>2 DEF Receive
      <4>2. \A t : InTime(t) <=> InTime(t)'
        BY <2>1, <4>1 DEF InTime
      <4>3. CASE \E t \in 0..PollingRate : polls[t] > 0 /\ InTime(t)
        BY <2>2, <4>2, <4>3 DEF Beats
      <4>4. CASE AnswerComes /\ InTime(0)
        <5>1. PICK a \in ToSet(requests) \cup ToSet(responses) : Awaited(a)
          BY <4>4 DEF AnswerComes
        <5>2. a \in ToSet(requests') \cup ToSet(responses')
          BY <2>1, <2>3, <3>2, <5>1
        <5>3. Awaited(a)'
          BY <4>1, <5>1 DEF Awaited
        <5>4. QED
          BY <4>2, <4>4, <5>2, <5>3 DEF Beats, AnswerComes
      <4>5. CASE up = 0 /\ \E w \in ToSet(responses) : w.id = WakeUp
        <5>1. InTime(PollingRate)'
          BY <2>1, <4>5, Times DEF InTime
        <5>2. QED
          BY <2>2, <5>1, Clocks DEF Beats
      <4>6. QED
        BY <1>0, <2>1, <2>4, <4>3, <4>4, <4>5 DEF Beats
    <3>3. QED
      BY <3>1, <3>2
  <2>5. QED
    BY <1>0, <2>1, <2>4 DEF LiveInv, Alive, Unheard
<1>8. QED
  BY <1>1, <1>2, <1>3, <1>4, <1>5, <1>6, <1>7 DEF Client

\* A server that starts wakes the client up, and one that runs answers.
LEMMA ServerBeats ==
  ASSUME Prompt, TypeOK, LiveInv, Server
  PROVE  LiveInv'
<1>0. /\ phase = "maintaining" /\ Alive => Beats
      /\ Unheard
  BY DEF LiveInv
<1>1. ASSUME NEW id \in Ids \cup {WakeUp} PROVE Response(id) \in Tells
  BY Times DEF TypeOK, Response, Tells
<1>2. CASE ServerStarts
  <2>1. phase' = phase /\ server = "loading" /\ server' = "establishing" /\ up' = 0
    BY <1>2 DEF ServerStarts, clientVars
  <2>2. CASE WakesUp
    <3>1. responses' = Append(responses, Response(WakeUp)) /\ Response(WakeUp).id = WakeUp
      BY <1>2, <2>2 DEF ServerStarts, Response
    <3>2. Response(WakeUp) \in ToSet(responses')
      BY <1>1, <3>1, Clocks, Lists
    <3>3. QED
      BY <2>1, <3>1, <3>2 DEF LiveInv, Beats, Unheard
  <2>3. CASE ~WakesUp
    BY <1>0, <2>1, <2>3 DEF Prompt, LiveInv, Unheard
  <2>4. QED
    BY <2>2, <2>3
<1>3. CASE ServerReceives /\ ~Alive
  BY <1>0, <1>3 DEF ServerReceives, clientVars, Alive, LiveInv, Unheard
<1>4. CASE ServerReceives /\ Alive
  <2> DEFINE m == Head(requests)
  <2>0. PICK r : r = Response(m.id)
    OBVIOUS
  <2>1. /\ UNCHANGED <<phase, pending, disconnectTimer, polls, up>>
        /\ requests # <<>> /\ requests' = Tail(requests) /\ server' = "maintaining"
        /\ responses' = Append(responses, r) /\ r.id = m.id
    BY <1>4, <2>0 DEF ServerReceives, clientVars, Alive, Response
  <2>2. m \in Asks /\ ToSet(requests) = {m} \cup ToSet(requests')
    BY <2>1, Clocks, Lists
  <2>3. ToSet(responses') = ToSet(responses) \cup {r}
    BY <1>1, <2>0, <2>1, <2>2, Clocks, Lists DEF Asks
  <2>4. \A t : InTime(t) <=> InTime(t)'
    BY <2>1 DEF InTime
  <2>5. AnswerComes => AnswerComes'
    <3> SUFFICES ASSUME NEW a \in ToSet(requests) \cup ToSet(responses), Awaited(a)
                 PROVE  AnswerComes'
      BY DEF AnswerComes
    <3>1. CASE a = m
      <4>1. Awaited(r)'
        BY <2>1, <3>1 DEF Awaited
      <4>2. QED
        BY <2>3, <4>1 DEF AnswerComes
    <3>2. CASE a # m
      <4>1. Awaited(a)' /\ a \in ToSet(requests') \cup ToSet(responses')
        BY <2>1, <2>2, <2>3, <3>2 DEF Awaited
      <4>2. QED
        BY <4>1 DEF AnswerComes
    <3>3. QED
      BY <3>1, <3>2
  <2>6. Beats => Beats'
    BY <2>1, <2>3, <2>4, <2>5 DEF Beats
  <2>7. QED
    BY <1>0, <1>4, <2>1, <2>6 DEF LiveInv, Unheard
<1>5. CASE ServerTimesOut
  BY <1>0, <1>5 DEF ServerTimesOut, clientVars, Alive, LiveInv, Unheard
<1>6. QED
  BY <1>2, <1>3, <1>4, <1>5 DEF Server

\* Faults silence the server, and time brings the next request closer.
LEMMA OthersBeat ==
  ASSUME Prompt, TypeOK, LiveInv, ChangeStatus \/ Reload \/ CloseWindow \/ Tick
  PROVE  LiveInv'
<1>0. /\ phase = "maintaining" /\ Alive => Beats
      /\ Unheard
  BY DEF LiveInv
<1>1. CASE ChangeStatus
  <2>1. UNCHANGED <<clientVars, polls, requests, responses, server, up>>
    BY <1>1 DEF ChangeStatus
  <2>2. \A t : InTime(t) <=> InTime(t)'
    BY <2>1 DEF clientVars, InTime
  <2>3. Beats <=> Beats'
    BY <2>1, <2>2 DEF clientVars, Beats, AnswerComes, Awaited
  <2>4. QED
    BY <1>0, <2>1, <2>3 DEF clientVars, LiveInv, Alive, Unheard
<1>2. CASE Reload
  BY <1>0, <1>2 DEF Reload, LiveInv, Alive, Unheard
<1>3. CASE CloseWindow
  BY <1>0, <1>3 DEF CloseWindow, WindowCloses, LiveInv, Alive, Unheard
<1>4. CASE Tick
  <2>1. phase' = phase /\ server' = server /\ NothingDue
        /\ disconnectTimer' = Down(disconnectTimer)
        /\ polls' = [t \in 0..PollingRate |-> IF t < PollingRate THEN polls[t + 1] ELSE 0]
        /\ up' = IF up < DisconnectTimeout THEN up + 1 ELSE up
    BY <1>4 DEF Tick
  <2>2. ToSet(requests) = {} /\ ToSet(responses) = {}
    <3>1. ToSet(requests) \subseteq Asks /\ ToSet(responses) \subseteq Tells
      BY Clocks DEF ToSet
    <3>2. QED
      BY <2>1, <3>1 DEF NothingDue, Prompt, Asks, Tells
  <2>3. ASSUME phase = "maintaining", Alive PROVE Beats'
    <3>1. PICK t \in 0..PollingRate : polls[t] > 0 /\ InTime(t)
      BY <1>0, <2>2, <2>3 DEF Beats, AnswerComes
    <3>2. t # 0 /\ disconnectTimer > 0
      BY <2>1, <2>3, <3>1, Clocks DEF NothingDue
    <3>3. t - 1 \in 0..PollingRate /\ polls'[t - 1] > 0
      BY <2>1, <3>1, <3>2, Clocks
    <3>4. disconnectTimer' = disconnectTimer - 1 /\ up' <= up + 1 /\ up' \in Nat
      BY <2>1, <3>2, Clocks DEF Down
    <3>5. InTime(t - 1)'
      <4>0. t \in Nat /\ up \in Nat /\ disconnectTimer \in Nat
            /\ PollingRate \in Nat /\ DisconnectTimeout \in Nat
        BY Clocks, Times
      <4>1. CASE DisconnectTimeout + t <= disconnectTimer + PollingRate
        <5>1. DisconnectTimeout + (t - 1) <= disconnectTimer' + PollingRate
          BY <3>2, <3>4, <4>0, <4>1, Margins
        <5>2. QED
          BY <5>1 DEF InTime
      <4>2. CASE up + t <= PollingRate
        <5>1. up' + (t - 1) <= PollingRate
          BY <3>2, <3>4, <4>0, <4>2, Margins
        <5>2. QED
          BY <5>1 DEF InTime
      <4>3. QED
        BY <3>1, <4>1, <4>2 DEF InTime
    <3>6. QED
      BY <3>3, <3>5 DEF Beats
  <2>4. Unheard'
    <3>1. responses = <<>> => responses' = <<>>
      BY <1>4 DEF Tick, Older
    <3>2. QED
      BY <1>0, <2>1, <3>1 DEF Unheard
  <2>5. QED
    BY <2>1, <2>3, <2>4 DEF LiveInv, Alive
<1>5. QED
  BY <1>1, <1>2, <1>3, <1>4

LEMMA LiveInit == Init => LiveInv
  BY DEF Init, LiveInv, Unheard

\* A step of the heartbeat, or none.
LEMMA HeartbeatTypes ==
  ASSUME TypeOK, Client \/ Server \/ ChangeStatus \/ Reload \/ CloseWindow \/ Tick
  PROVE  TypeOK'
  BY ClientTypes, OthersTypes DEF TypeOK, Messages, Scalars, Asks, Tells, Entries

LEMMA HeartbeatBeats ==
  ASSUME Prompt, TypeOK, LiveInv,
         Client \/ Server \/ ChangeStatus \/ Reload \/ CloseWindow \/ Tick
  PROVE  LiveInv'
  BY ClientBeats, ServerBeats, OthersBeat

LEMMA RestBeats == ASSUME LiveInv, UNCHANGED vars PROVE LiveInv'
<1>1. InTime(0) <=> InTime(0)'
  BY DEF vars, clientVars, serverVars, InTime
<1>2. \A t : InTime(t) <=> InTime(t)'
  BY DEF vars, clientVars, serverVars, InTime
<1>3. Beats <=> Beats'
  BY <1>1, <1>2 DEF vars, clientVars, serverVars, Beats, AnswerComes, Awaited
<1>4. QED
  BY <1>3 DEF vars, clientVars, serverVars, LiveInv, Alive, Unheard

\* The channel's close() only takes a server away.
LEMMA ClosingBeats ==
  ASSUME TypeOK, LiveInv, UNCHANGED <<phase, pending, disconnectTimer, polls, responses, up>>,
         WindowCloses \/ WindowStays
  PROVE  LiveInv'
<1>1. CASE WindowCloses
  BY <1>1 DEF WindowCloses, LiveInv, Alive, Unheard
<1>2. CASE WindowStays
  <2>1. \A t : InTime(t) <=> InTime(t)'
    BY DEF InTime
  <2>2. Beats <=> Beats'
    BY <1>2, <2>1 DEF WindowStays, Beats, AnswerComes, Awaited
  <2>3. QED
    BY <1>2, <2>2 DEF WindowStays, LiveInv, Alive, Unheard
<1>3. QED
  BY <1>1, <1>2

\* Whoever gives up does so after a silence that the signer is accountable for.
LEMMA GivesUpLate ==
  ASSUME Prompt, TypeOK, LiveInv, Disconnect, Alive
  PROVE  up < DisconnectTimeout
<1>1. InTime(0)
  BY BeatsInTime DEF Disconnect, LiveInv
<1>2. /\ up \in Nat /\ PollingRate \in Nat /\ DisconnectTimeout \in Nat
      /\ disconnectTimer = 0 /\ PollingRate < DisconnectTimeout
  BY Times DEF TypeOK, Disconnect, Prompt
<1>3. QED
  BY <1>1, <1>2 DEF InTime

\* Only onDisconnect disconnects the client.
LEMMA OnlyDisconnect ==
  ASSUME Client \/ Server \/ ChangeStatus \/ Reload \/ CloseWindow \/ Tick,
         phase' = "disconnected", phase # phase'
  PROVE  Disconnect
<1>1. ~EstablishPoll /\ ~EstablishTimesOut /\ ~Establish /\ ~Ignore /\ ~Receive /\ ~Poll
  BY DEF EstablishPoll, EstablishTimesOut, Establish, Ignore, Receive, Poll, clientVars
<1>2. ~Server /\ ~ChangeStatus /\ ~Reload /\ ~CloseWindow /\ ~Tick
  BY DEF Server, ServerStarts, ServerReceives, ServerTimesOut, ChangeStatus, Reload,
         CloseWindow, Tick, clientVars
<1>3. QED
  BY <1>1, <1>2 DEF Client

\* The client and the server have their types in every state of the heartbeat.
THEOREM HeartbeatTypesCorrect == Spec => []TypeOK
<1>1. Init => TypeOK
  <2>1. ASSUME Init PROVE Messages /\ Scalars
    BY <2>1, Times DEF Init, Messages, Scalars
  <2>2. QED
    BY <2>1, TypesSplit
<1>2. TypeOK /\ [Next]_vars => TypeOK'
  <2>1. ASSUME TypeOK, Next PROVE TypeOK'
    BY <2>1, HeartbeatTypes DEF Next
  <2>2. ASSUME TypeOK, UNCHANGED vars PROVE TypeOK'
    BY <2>2 DEF vars, clientVars, serverVars, TypeOK
  <2>3. QED
    BY <2>1, <2>2
<1>3. QED
  BY <1>1, <1>2, PTL DEF Spec

\* A signer that answers is not given up (client.ts, #maintain resets the timer
\* with every answer and every answer schedules the next request): the client
\* never disconnects from a page that has been running for the timeout, whatever
\* the other timeouts are and however often the signer's status changes.
THEOREM LiveSignersAreKept ==
  ASSUME Prompt
  PROVE  Spec => KeepsLiveSigner
<1> DEFINE Kept == phase' = "disconnected" /\ phase # phase'
                     => server \notin {"establishing", "maintaining"}
                        \/ up < DisconnectTimeout
<1>1. LiveInv /\ TypeOK /\ [Next]_vars => LiveInv'
  BY HeartbeatBeats, RestBeats DEF Next
<1>2. LiveInv /\ TypeOK /\ [Next]_vars => [Kept]_vars
  <2>1. ASSUME LiveInv, TypeOK, Next PROVE Kept
    BY <2>1, OnlyDisconnect, GivesUpLate DEF Next, Alive
  <2>2. QED
    BY <2>1
<1> HIDE DEF Kept
<1>3. Spec => [][Kept]_vars
  BY <1>1, <1>2, LiveInit, HeartbeatTypesCorrect, PTL DEF Spec
<1>4. QED
  BY <1>3 DEF Kept, KeepsLiveSigner

\* Nor is it given up below a channel, though the channel may close the window at
\* any time: disconnecting then is the answer to a server that is gone.
THEOREM ChannelsKeepLiveSigners ==
  ASSUME Prompt
  PROVE  ChannelSpec => KeepsLiveSigner
<1> DEFINE Kept == phase' = "disconnected" /\ phase # phase'
                     => server \notin {"establishing", "maintaining"}
                        \/ up < DisconnectTimeout
<1>0. ASSUME ChannelNext
      PROVE  \/ Client \/ Server \/ ChangeStatus \/ Reload \/ CloseWindow \/ Tick
             \/ Send \/ CloseChannel
  BY <1>0 DEF ChannelNext, Callbacks, OnEstablish, OnEstablishTimeout, OnResponse,
              OnDisconnect, HeartbeatOnly, Client
<1>1. LiveInv /\ CInv /\ [ChannelNext]_allVars => LiveInv'
  <2>1. ASSUME LiveInv, CInv, Send \/ UNCHANGED allVars PROVE LiveInv'
    BY <2>1, RestBeats DEF Send, allVars
  <2>2. ASSUME LiveInv, CInv, CloseChannel PROVE LiveInv'
    <3>1. WindowCloses \/ WindowStays
      BY <2>2, CloseFacts DEF CloseChannel
    <3>2. TypeOK /\ UNCHANGED <<phase, pending, disconnectTimer, polls, responses, up>>
      BY <2>2 DEF CloseChannel, clientVars, CInv
    <3>3. QED
      BY <2>2, <3>1, <3>2, ClosingBeats
  <2>3. QED
    BY <1>0, <2>1, <2>2, HeartbeatBeats DEF CInv
<1>2. LiveInv /\ CInv /\ [ChannelNext]_allVars => [Kept]_vars
  <2>1. ASSUME LiveInv, CInv, ChannelNext PROVE Kept
    <3>1. Send \/ CloseChannel => phase' = phase
      BY DEF Send, CloseChannel, vars, clientVars
    <3>2. QED
      BY <1>0, <2>1, <3>1, OnlyDisconnect, GivesUpLate DEF Alive, CInv
  <2>2. QED
    BY <2>1 DEF allVars
<1> HIDE DEF Kept
<1>3. ChannelInit => LiveInv
  BY LiveInit DEF ChannelInit
<1>4. ChannelSpec => [][Kept]_vars
  BY <1>1, <1>2, <1>3, InitCInv, NextCInv, PTL DEF ChannelSpec
<1>5. QED
  BY <1>4 DEF Kept, KeepsLiveSigner
=============================================================================
