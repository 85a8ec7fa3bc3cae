------------------------------- MODULE Signer -------------------------------
(***************************************************************************)
(* The Signer class of src/signer.ts: openChannel, sendRequest, the close  *)
(* and response listeners, and the automatic closing of the channel.       *)
(*                                                                         *)
(* A call of sendRequest or openChannel is a process of its own: it runs   *)
(* up to an await, and goes on in a later microtask.  `stage` is the await *)
(* it is suspended at:                                                     *)
(*                                                                         *)
(*   idle          not called yet                                          *)
(*   waiting       in openChannel, at `await this.#establishingChannel`    *)
(*   establishing  in openChannel, at `await channel.catch(...)`           *)
(*   opened        openChannel has a channel, its continuation is queued   *)
(*   resolving     listeners installed, the promised request is pending    *)
(*   posted        the request was handed to the channel                   *)
(*   refused       the promise of channel.send has rejected                *)
(*   finished      the async function has nothing left to run              *)
(*                                                                         *)
(* A channel is named by the call whose openChannel established it.        *)
(***************************************************************************)
EXTENDS Naturals, FiniteSets

CONSTANTS
  Plain,          \* calls of sendRequest with a request that has an id
  Notes,          \* calls of sendRequest with a notification (no id)
  Promised,       \* calls of sendRequest with a promise of a request
  Openers,        \* calls of openChannel, by SignerAgent or the application
  None,           \* `undefined`
  Faults,         \* the things that may go wrong
  MicroEvents,    \* may responses and closings come from microtasks?
  Intervenes      \* does the application close channels and set autoClose?

Requests == Plain \cup Notes \cup Promised \cup Openers

\* `tracked`: the calls that pendingRequestCount may count.
Tracked == Plain \cup Promised

ASSUME RequestsAssumption ==
  /\ IsFiniteSet(Plain) /\ IsFiniteSet(Notes)
  /\ IsFiniteSet(Promised) /\ IsFiniteSet(Openers)
  /\ Plain \cap (Notes \cup Promised \cup Openers) = {}
  /\ Notes \cap (Promised \cup Openers) = {}
  /\ Promised \cap Openers = {}
  /\ None \notin Requests

ASSUME FaultsAssumption ==
  Faults \subseteq {"establish", "transform", "input", "send", "notification",
                   "shut"}

ASSUME FlagsAssumption == MicroEvents \in BOOLEAN /\ Intervenes \in BOOLEAN

VARIABLES
  channel,             \* #channel
  establishing,        \* #establishingChannel, named by the call that made it
  scheduled,           \* #scheduledChannelClosure, the handle of one timer
  pendingRequestCount, \* #pendingRequestCount
  autoClose,           \* #options.autoCloseTransportChannel
  timers,              \* closing timers armed, named by the answered call
  stage,               \* where each call is suspended
  awaited,             \* the #establishingChannel a waiting call awaits
  chan,                \* the channel a call was given by openChannel
  settled,             \* the closure variable `settled` of each call
  outcome,             \* how the promise of each call has settled
  live,                \* each channel: unused, open, shut or closed
  inbox                \* the requests handed to a channel

signerVars == <<channel, establishing, scheduled, autoClose, timers>>
callVars   == <<stage, awaited, chan>>
endVars    == <<pendingRequestCount, settled, outcome>>
vars       == <<signerVars, callVars, endVars, live, inbox>>

Stages   == {"idle", "waiting", "establishing", "opened",
             "resolving", "posted", "refused", "finished"}
Outcomes == {"none", "opened", "response", "closed", "error"}
Lives    == {"unused", "open", "shut", "closed"}

TypeOK ==
  /\ channel \in Requests \cup {None}
  /\ establishing \in Requests \cup {None}
  /\ scheduled \in Requests \cup {None}
  /\ pendingRequestCount \in Nat
  /\ autoClose \in BOOLEAN
  /\ timers \subseteq Requests
  /\ stage \in [Requests -> Stages]
  /\ awaited \in [Requests -> Requests \cup {None}]
  /\ chan \in [Requests -> Requests \cup {None}]
  /\ settled \in [Requests -> BOOLEAN]
  /\ outcome \in [Requests -> Outcomes]
  /\ live \in [Requests -> Lives]
  /\ inbox \subseteq Requests

Init ==
  /\ channel = None
  /\ establishing = None
  /\ scheduled = None
  /\ pendingRequestCount = 0
  /\ autoClose = TRUE
  /\ timers = {}
  /\ stage = [r \in Requests |-> "idle"]
  /\ awaited = [r \in Requests |-> None]
  /\ chan = [r \in Requests |-> None]
  /\ settled = [r \in Requests |-> FALSE]
  /\ outcome = [r \in Requests |-> "none"]
  /\ live = [r \in Requests |-> "unused"]
  /\ inbox = {}

-----------------------------------------------------------------------------
(***************************************************************************)
(* The event loop and the listeners                                        *)
(***************************************************************************)

\* `channel && !channel.closed`.  A channel is shut when its `closed` getter
\* answers true but its close listeners have not run yet: the signer window
\* has gone and the heartbeat has not noticed, or the extension is still
\* being dismissed.
Usable(c) == c # None /\ live[c] = "open"

\* A mutant: a call does not await #establishingChannel.
AwaitsNothing(r) == stage[r] = "waiting"

\* The promise in #establishingChannel has resolved; it swallows a failure.
Awaitable(r) == stage[r] = "waiting" /\ stage[awaited[r]] # "establishing"

\* A continuation is queued: no other task runs before it.
MicrotaskPending ==
  \E r \in Requests : stage[r] \in {"opened", "refused"} \/ Awaitable(r)

\* When a response or a closing may be dispatched.  A window message, a timer
\* and a click are tasks of their own; the URL channel answers from a
\* microtask, and the application may close a channel in a continuation.
Dispatchable == MicroEvents \/ ~MicrotaskPending

\* The response and close listeners of r are installed.
Listening(r) ==
  stage[r] \in {"resolving", "posted", "refused"} /\ outcome[r] = "none"

\* A mutant: settle() is not idempotent.
SettleAgain(S) ==
  /\ settled' = [r \in Requests |-> settled[r] \/ r \in S]
  /\ pendingRequestCount' = pendingRequestCount - Cardinality(S \cap Tracked)

\* settle(), for each call of S: idempotent, it uncounts a tracked call once.
Settle(S) ==
  /\ settled' = [r \in Requests |-> settled[r] \/ r \in S]
  /\ pendingRequestCount' =
       pendingRequestCount - Cardinality({r \in S \cap Tracked : ~settled[r]})

\* A mutant: closing a channel forgets to run the close listeners.
NotifyNobody(c) ==
  /\ live' = [live EXCEPT ![c] = "closed"]
  /\ UNCHANGED endVars

\* The close listeners of channel c: every call listening on it is rejected.
NotifyClosed(c) ==
  LET listeners == {r \in Requests : chan[r] = c /\ Listening(r)} IN
  /\ live' = [live EXCEPT ![c] = "closed"]
  /\ outcome' = [r \in Requests |->
                   IF r \in listeners THEN "closed" ELSE outcome[r]]
  /\ Settle(listeners)

\* channel.close(): the listeners run within the call, or later, once the
\* extension has been dismissed.
Close(c) ==
  \/ NotifyClosed(c)
  \/ live' = [live EXCEPT ![c] = "shut"] /\ UNCHANGED endVars

-----------------------------------------------------------------------------
(***************************************************************************)
(* openChannel                                                             *)
(***************************************************************************)

\* Reuse the current channel if it is not closed, or establish a new one.
UseOrEstablish(r) ==
  \/ /\ Usable(channel)
     /\ stage' = [stage EXCEPT ![r] = "opened"]
     /\ chan' = [chan EXCEPT ![r] = channel]
     /\ UNCHANGED <<channel, establishing>>
  \/ /\ ~Usable(channel)
     /\ stage' = [stage EXCEPT ![r] = "establishing"]
     /\ channel' = None
     /\ establishing' = r
     /\ UNCHANGED chan

\* The synchronous part of a call: it cancels the scheduled closure, then
\* awaits #establishingChannel if there is one.
Call(r) ==
  /\ stage[r] = "idle"
  /\ timers' = timers \ {scheduled}
  /\ \/ /\ establishing # None
        /\ stage' = [stage EXCEPT ![r] = "waiting"]
        /\ awaited' = [awaited EXCEPT ![r] = establishing]
        /\ UNCHANGED <<channel, establishing, chan>>
     \/ /\ establishing = None
        /\ UseOrEstablish(r)
        /\ UNCHANGED awaited
  /\ UNCHANGED <<scheduled, autoClose, endVars, live, inbox>>

\* After the await: #establishingChannel is not looked at again.
Resume(r) ==
  /\ Awaitable(r)
  /\ UseOrEstablish(r)
  /\ UNCHANGED <<scheduled, autoClose, timers, awaited, endVars, live, inbox>>

\* The transport established a channel: the continuation of its caller is
\* queued before that of any call waiting for #establishingChannel.
Established(r) ==
  /\ stage[r] = "establishing"
  /\ stage' = [stage EXCEPT ![r] = "opened"]
  /\ live' = [live EXCEPT ![r] = "open"]
  /\ channel' = r
  /\ chan' = [chan EXCEPT ![r] = r]
  /\ establishing' = None
  /\ UNCHANGED <<scheduled, autoClose, timers, awaited, endVars, inbox>>

\* The transport failed: openChannel throws before it resets
\* #establishingChannel.
EstablishFails(r) ==
  /\ "establish" \in Faults
  /\ stage[r] = "establishing"
  /\ stage' = [stage EXCEPT ![r] = "finished"]
  /\ outcome' = [outcome EXCEPT ![r] = "error"]
  /\ UNCHANGED <<signerVars, awaited, chan, pendingRequestCount, settled,
                 live, inbox>>

\* A call of openChannel returns its channel.
Opened(r) ==
  /\ r \in Openers
  /\ stage[r] = "opened"
  /\ stage' = [stage EXCEPT ![r] = "finished"]
  /\ outcome' = [outcome EXCEPT ![r] = "opened"]
  /\ UNCHANGED <<signerVars, awaited, chan, pendingRequestCount, settled,
                 live, inbox>>

-----------------------------------------------------------------------------
(***************************************************************************)
(* sendRequest                                                             *)
(***************************************************************************)

\* A mutant: the channel does not look whether it is closed.
TransmitAnyway(r) ==
  /\ stage' = [stage EXCEPT ![r] = "posted"]
  /\ inbox' = inbox \cup {r}

\* channel.send of a transformed request: a closed channel refuses it.
Transmit(r) ==
  IF Usable(chan[r])
    THEN /\ stage' = [stage EXCEPT ![r] = "posted"]
         /\ inbox' = inbox \cup {r}
    ELSE /\ stage' = [stage EXCEPT ![r] = "refused"]
         /\ UNCHANGED inbox

\* The continuation of a call that was given its request: count it, install
\* the listeners, transform and send.  A notification is not counted; a request
\* that its transforms turn into one is counted and settled within the step.
BeginPlain(r) ==
  /\ r \in Plain \cup Notes
  /\ stage[r] = "opened"
  /\ \E silent \in BOOLEAN :
       /\ r \in Notes => silent
       /\ silent => r \in Notes \/ "notification" \in Faults
       /\ pendingRequestCount' = pendingRequestCount + (IF silent THEN 0 ELSE 1)
       /\ settled' = [settled EXCEPT ![r] = silent]
  /\ Transmit(r)
  /\ UNCHANGED <<signerVars, awaited, chan, outcome, live>>

\* The same, when a transform throws: counted and uncounted within the step.
TransformFails(r) ==
  /\ "transform" \in Faults
  /\ r \in Plain \cup Notes
  /\ stage[r] = "opened"
  /\ stage' = [stage EXCEPT ![r] = "finished"]
  /\ outcome' = [outcome EXCEPT ![r] = "error"]
  /\ settled' = [settled EXCEPT ![r] = TRUE]
  /\ UNCHANGED <<signerVars, awaited, chan, pendingRequestCount, live, inbox>>

\* The continuation of a call that was given a promise of its request.  A
\* channel that is closed refuses it now, or once the promise has resolved.
BeginPromised(r) ==
  /\ r \in Promised
  /\ stage[r] = "opened"
  /\ \/ stage' = [stage EXCEPT ![r] = "resolving"]
     \/ ~Usable(chan[r]) /\ stage' = [stage EXCEPT ![r] = "refused"]
  /\ pendingRequestCount' = pendingRequestCount + 1
  /\ UNCHANGED <<signerVars, awaited, chan, settled, outcome, live, inbox>>

\* The promised request resolves, is transformed and goes to the channel.  It
\* may turn out to be a notification.
ResolveInput(r) ==
  /\ stage[r] = "resolving"
  /\ Transmit(r)
  /\ \/ UNCHANGED <<settled, pendingRequestCount>>
     \/ "notification" \in Faults /\ Settle({r})
  /\ UNCHANGED <<signerVars, awaited, chan, outcome, live>>

\* The promised request rejects, or its transform throws.
InputFails(r) ==
  /\ {"input", "transform"} \cap Faults # {}
  /\ stage[r] = "resolving"
  /\ stage' = [stage EXCEPT ![r] = "refused"]
  /\ UNCHANGED <<signerVars, awaited, chan, endVars, live, inbox>>

\* The channel accepted the request and fails to send it, at once or later
\* (the extension's sendMessage rejects).
SendFails(r) ==
  /\ "send" \in Faults
  /\ stage[r] = "posted"
  /\ outcome[r] # "response"
  /\ stage' = [stage EXCEPT ![r] = "refused"]
  /\ UNCHANGED <<signerVars, awaited, chan, endVars, live, inbox>>

\* The catch clause around `await channel.send(outgoing)`: fail(error).
Fail(r) ==
  /\ stage[r] = "refused"
  /\ stage' = [stage EXCEPT ![r] = "finished"]
  /\ outcome' = [outcome EXCEPT ![r] = IF @ = "none" THEN "error" ELSE @]
  /\ Settle({r})
  /\ UNCHANGED <<signerVars, awaited, chan, live, inbox>>

\* A mutant: the closing is scheduled whatever is pending.
AnyAnswered == autoClose

\* Every tracked call that has begun is settled, and the channel may close.
LastAnswered == autoClose /\ pendingRequestCount' = 0

\* The response listener of r: a notification has no id and matches nothing.
\* The last call to be answered schedules the closing of its channel.
Respond(r) ==
  /\ stage[r] = "posted"
  /\ Listening(r)
  /\ ~settled[r]
  /\ Dispatchable
  /\ outcome' = [outcome EXCEPT ![r] = "response"]
  /\ Settle({r})
  /\ IF LastAnswered
       THEN timers' = timers \cup {r} /\ scheduled' = r
       ELSE UNCHANGED <<timers, scheduled>>
  /\ UNCHANGED <<channel, establishing, autoClose, callVars, live, inbox>>

-----------------------------------------------------------------------------
(***************************************************************************)
(* Closing                                                                 *)
(***************************************************************************)

\* The timer armed when t was answered fires, closeTransportChannelAfter
\* milliseconds later.
TimerFires(t) ==
  /\ t \in timers
  /\ ~MicrotaskPending
  /\ timers' = timers \ {t}
  /\ IF Usable(chan[t]) THEN Close(chan[t]) ELSE UNCHANGED <<live, endVars>>
  /\ UNCHANGED <<channel, establishing, scheduled, autoClose, callVars, inbox>>

\* closeChannel(), by the application.
CloseChannel ==
  /\ Intervenes
  /\ channel # None
  /\ live[channel] # "closed"
  /\ Dispatchable
  /\ Close(channel)
  /\ UNCHANGED <<signerVars, callVars, inbox>>

\* The setter of autoCloseTransportChannel.
SetAutoClose(value) ==
  /\ Intervenes
  /\ autoClose' = value
  /\ timers' = IF value THEN timers ELSE timers \ {scheduled}
  /\ UNCHANGED <<channel, establishing, scheduled, callVars, endVars, live, inbox>>

\* The signer's side shuts a channel: the user closes the signer window.
Shut(c) ==
  /\ "shut" \in Faults
  /\ live[c] = "open"
  /\ Dispatchable
  /\ live' = [live EXCEPT ![c] = "shut"]
  /\ UNCHANGED <<signerVars, callVars, endVars, inbox>>

\* The close listeners run: the heartbeat disconnects, the extension closes
\* unexpectedly, or its dismissal completes.
Disconnected(c) ==
  /\ live[c] = "shut" \/ (live[c] = "open" /\ "shut" \in Faults)
  /\ Dispatchable
  /\ NotifyClosed(c)
  /\ UNCHANGED <<signerVars, callVars, inbox>>

-----------------------------------------------------------------------------
Next ==
  \/ \E r \in Requests :
       \/ Call(r) \/ Resume(r) \/ Established(r) \/ EstablishFails(r)
       \/ Opened(r) \/ BeginPlain(r) \/ TransformFails(r) \/ BeginPromised(r)
       \/ ResolveInput(r) \/ InputFails(r) \/ SendFails(r) \/ Fail(r)
       \/ Respond(r) \/ TimerFires(r) \/ Shut(r) \/ Disconnected(r)
  \/ CloseChannel
  \/ \E value \in BOOLEAN : SetAutoClose(value)

Spec == Init /\ [][Next]_vars

\* The microtask queue is drained; a transport settles what it establishes; a
\* promised request settles; a timer fires; a channel that is shut notifies
\* its listeners; and, an assumption about the signer, a request it was given
\* is answered while its channel is open.
Fairness ==
  \A r \in Requests :
       /\ WF_vars(Resume(r))
       /\ WF_vars(Established(r) \/ EstablishFails(r))
       /\ WF_vars(Opened(r))
       /\ WF_vars(BeginPlain(r) \/ TransformFails(r) \/ BeginPromised(r))
       /\ WF_vars(ResolveInput(r) \/ InputFails(r))
       /\ WF_vars(Fail(r))
       /\ WF_vars(Usable(chan[r]) /\ Respond(r))
       /\ WF_vars(TimerFires(r))
       /\ WF_vars(live[r] = "shut" /\ Disconnected(r))

FairSpec == Spec /\ Fairness

-----------------------------------------------------------------------------
(***************************************************************************)
(* Properties                                                              *)
(***************************************************************************)

\* The calls that have incremented #pendingRequestCount and not decremented it.
Counted ==
  {r \in Tracked : stage[r] \in {"resolving", "posted", "refused"} /\ ~settled[r]}

\* #pendingRequestCount is exactly the number of tracked calls that have begun
\* and not settled, whichever of the response, the close listener, a failure
\* or a promise that turns into a notification settles them, in any order: it
\* never goes negative and never sticks above zero.
PendingCountExact == pendingRequestCount = Cardinality(Counted)

\* The calls that use a channel they were given and expect an answer on it.
InFlight(c) ==
  {r \in Requests : /\ chan[r] = c
                    /\ \/ stage[r] = "opened"
                       \/ r \in Counted /\ outcome[r] = "none"}

\* An armed timer never closes a channel under a call: while its channel is
\* open no call is in flight on it, and the timer is the one that the next
\* call cancels.
TimerSafe ==
  \A t \in timers :
    Usable(chan[t]) => t = scheduled /\ InFlight(chan[t]) = {}

\* One channel at a time: of all the channels being established or open, the
\* signer holds at most one, however its calls overlap.
SingleChannel ==
  \A c, d \in Requests :
    /\ stage[c] = "establishing" \/ live[c] = "open"
    /\ stage[d] = "establishing" \/ live[d] = "open"
    => c = d

\* A channel whose close listeners have run leaves nobody waiting for an
\* answer on it: what still listens is about to be refused by the channel.
NobodyStranded ==
  \A r \in Requests :
    Listening(r) /\ live[chan[r]] = "closed" => stage[r] # "posted"

\* Every call settles, or turns out to be a notification, whatever fails.
EventuallySettles ==
  \A r \in Tracked \cup Openers :
    stage[r] # "idle" ~> outcome[r] # "none" \/ settled[r]

\* A channel on which a response was received does not stay open for ever.
AutoCloses ==
  \A c \in Requests :
    (\E r \in Requests : chan[r] = c /\ outcome[r] = "response")
      ~> live[c] # "open"

-----------------------------------------------------------------------------
(***************************************************************************)
(* What the callers of sendRequest see                                     *)
(***************************************************************************)

Calls == Plain \cup Notes \cup Promised

callStatus ==
  [r \in Calls |->
     CASE outcome[r] = "response" -> "fulfilled"
       [] outcome[r] \in {"closed", "error"} -> "rejected"
       [] OTHER -> IF stage[r] = "idle" THEN "idle" ELSE "pending"]

Contract == INSTANCE SignerContract
  WITH Silent <- Notes, status <- callStatus, delivered <- inbox

\* The signer, for the callers of sendRequest, does what SignerContract says.
ImplementsContract == Contract!Spec
=============================================================================
