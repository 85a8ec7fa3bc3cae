--------------------------- MODULE WindowChannel ---------------------------
(***************************************************************************)
(* The window transport on top of the heartbeat: the promise of            *)
(* PostMessageTransport.establishChannel, the PostMessageChannel it        *)
(* resolves to with its queue of requests, and the callbacks through which *)
(* the heartbeat establishes, informs and closes the channel.              *)
(*                                                                         *)
(* The requests are numbered in the order in which the channel accepts     *)
(* them.  A promised request is a request sent once it has resolved.       *)
(***************************************************************************)
EXTENDS Heartbeat

CONSTANTS
  CloseOnEstablishTimeout,  \* closeOnEstablishTimeout
  Survives,                 \* may the signer's page refuse to be closed?
  MaxSends                  \* bound: requests the channel accepts

ASSUME ChannelAssumption ==
  /\ CloseOnEstablishTimeout \in BOOLEAN /\ Survives \in BOOLEAN
  /\ MaxSends \in Nat

VARIABLES
  promise,       \* of establishChannel
  closed,        \* #closed of the channel
  signerStatus,  \* #options.signerStatus of the channel
  queue,         \* #pendingQueue
  posted,        \* the requests posted to the signer window
  accepted,      \* how many requests the channel has accepted
  notified       \* how often the close listeners have run

channelVars == <<promise, closed, signerStatus, queue, posted, accepted, notified>>
allVars     == <<vars, channelVars>>

ChannelInit ==
  /\ Init
  /\ promise = "pending"
  /\ closed = FALSE /\ signerStatus = "ready"
  /\ queue = <<>> /\ posted = <<>>
  /\ accepted = 0 /\ notified = 0

-----------------------------------------------------------------------------
\* signerWindow.close(): the page may ask the user, who may decline.
CloseSignerWindow ==
  \/ WindowCloses
  \/ Survives /\ WindowStays

\* A mutant: the close listeners run whenever close() is called.
ClosesAgain ==
  /\ closed' = TRUE
  /\ notified' = notified + 1
  /\ CloseSignerWindow

\* A mutant: the close listeners do not run if the window is gone already.
ClosesQuietly ==
  /\ closed' = TRUE
  /\ notified' = IF closed \/ server = "closed" THEN notified ELSE notified + 1
  /\ CloseSignerWindow

\* close(): the first time, the window is closed and the close listeners run.
Close ==
  IF closed
    THEN WindowStays /\ UNCHANGED <<closed, notified>>
    ELSE /\ closed' = TRUE
         /\ notified' = notified + 1
         /\ CloseSignerWindow

\* postMessage to the signer window; there is none to receive it if it is gone.
Posts(s) == posted' = IF server = "closed" THEN posted ELSE posted \o s

\* A mutant: the status changes and what is queued stays queued.
KeepsQueue(s) ==
  /\ signerStatus' = s
  /\ UNCHANGED <<queue, posted>>

\* A mutant: the queue is flushed and not emptied.
FlushesAgain(s) ==
  /\ signerStatus' = s
  /\ IF s = "ready" THEN Posts(queue) /\ UNCHANGED queue
                    ELSE UNCHANGED <<queue, posted>>

\* changeStatus(s), also of a channel that has been closed.
SignerStatusIs(s) ==
  /\ signerStatus' = s
  /\ IF s = "ready" THEN Posts(queue) /\ queue' = <<>>
                    ELSE UNCHANGED <<queue, posted>>

-----------------------------------------------------------------------------
(***************************************************************************)
(* The callbacks of the heartbeat                                          *)
(***************************************************************************)

\* onEstablish: the channel, with the status of the response.
OnEstablish ==
  /\ Establish
  /\ promise' = "resolved"
  /\ signerStatus' = Head(responses).result
  /\ UNCHANGED <<closed, queue, posted, accepted, notified>>

\* onEstablishTimeout.
OnEstablishTimeout ==
  /\ EstablishTimesOut
  /\ promise' = "rejected"
  /\ IF CloseOnEstablishTimeout THEN CloseSignerWindow ELSE WindowStays
  /\ UNCHANGED <<closed, signerStatus, queue, posted, accepted, notified>>

\* A response to the heartbeat: onStatusChange, if it tells another status.
OnResponse ==
  /\ Receive
  /\ IF status' # status THEN SignerStatusIs(status')
                         ELSE UNCHANGED <<signerStatus, queue, posted>>
  /\ UNCHANGED <<promise, closed, accepted, notified>>

\* onDisconnect: channel.close().
OnDisconnect ==
  /\ Disconnect
  /\ Close
  /\ UNCHANGED <<promise, signerStatus, queue, posted, accepted>>

-----------------------------------------------------------------------------
(***************************************************************************)
(* The users of the channel                                                *)
(***************************************************************************)

\* The getter `closed`: also true once the window is gone.
IsClosed == closed \/ server = "closed"

\* A request waits in the queue while the signer is pending.
Enqueue(r) ==
  IF signerStatus = "pending"
    THEN queue' = Append(queue, r) /\ UNCHANGED posted
    ELSE Posts(<<r>>) /\ UNCHANGED queue

\* send() of a request.  A channel that is closed refuses it and stays as it is.
Send ==
  /\ promise = "resolved" /\ ~IsClosed
  /\ accepted < MaxSends
  /\ accepted' = accepted + 1
  /\ Enqueue(accepted + 1)
  /\ UNCHANGED <<vars, promise, closed, signerStatus, notified>>

\* close() by the Signer or the application; the heartbeat goes on.
CloseChannel ==
  /\ promise = "resolved" /\ ~closed
  /\ Close
  /\ UNCHANGED <<clientVars, polls, responses, answer, serverTimer, events, up,
                 promise, signerStatus, queue, posted, accepted>>

-----------------------------------------------------------------------------
Callbacks == OnEstablish \/ OnEstablishTimeout \/ OnResponse \/ OnDisconnect

HeartbeatOnly ==
  /\ EstablishPoll \/ Ignore \/ Poll \/ Server \/ ChangeStatus \/ Reload
       \/ CloseWindow \/ Tick
  /\ UNCHANGED channelVars

ChannelNext == Callbacks \/ HeartbeatOnly \/ Send \/ CloseChannel

ChannelSpec == ChannelInit /\ [][ChannelNext]_allVars

\* That of the heartbeat: nothing is assumed of those who use the channel.
ChannelFairness ==
  /\ WF_allVars(Callbacks \/ (HeartbeatOnly /\ (EstablishPoll \/ Ignore \/ Poll)))
  /\ WF_allVars(HeartbeatOnly /\ Server)
  /\ WF_allVars(HeartbeatOnly /\ Tick)

FairChannelSpec == ChannelSpec /\ ChannelFairness

-----------------------------------------------------------------------------
(***************************************************************************)
(* Properties                                                              *)
(***************************************************************************)

\* The types; the close listeners run at most once, though the application,
\* the Signer's timer and onDisconnect may all close the channel.
ChannelTypeOK ==
  /\ promise \in {"pending", "resolved", "rejected"}
  /\ closed \in BOOLEAN /\ signerStatus \in Statuses
  /\ queue \in Seq(1..MaxSends) /\ posted \in Seq(1..MaxSends)
  /\ accepted \in 0..MaxSends /\ notified \in 0..1

\* What the channel accepted reaches the signer window once and in order, or
\* waits in the queue of a signer that, for all the client knows, is pending:
\* no request overtakes another when the status changes back and forth.
InOrder ==
  /\ server # "closed" => posted \o queue = [k \in 1..accepted |-> k]
  /\ queue # <<>> => signerStatus = "pending" /\ status = "pending"

\* No request waits in the queue of an open channel for ever while the signer
\* is ready and answers.
QueueDrains ==
  []<>(\/ queue = <<>> \/ closed
       \/ phase # "maintaining" \/ server # "maintaining" \/ answer = "pending")

\* A signer window that is closed, or whose page has stopped to answer, closes
\* the channel: its close listeners run and what waits for answers is rejected.
GoneCloses ==
  promise = "resolved" /\ server \in {"timedOut", "disconnected", "closed"}
    ~> notified = 1 \/ server \in {"loading", "establishing", "maintaining"}
=============================================================================
