------------------------ MODULE SignerChannelProofs -------------------------
(***************************************************************************)
(* A signer whose transport never fails to establish a channel, and whose  *)
(* responses and closings are tasks of their own, holds one channel at a   *)
(* time and never closes it by a timer under a call.                       *)
(***************************************************************************)
EXTENDS SignerProofs

Quiet == "establish" \notin Faults /\ MicroEvents = FALSE

\* A call that has not established a channel has not opened one; an armed
\* timer belongs to a call that was answered.
Unopened ==
  /\ \A r \in Requests :
       stage[r] \in {"idle", "waiting", "establishing"} => live[r] = "unused"
  /\ \A t \in timers :
       /\ stage[t] \in {"posted", "refused", "finished"}
       /\ live[chan[t]] # "unused"
  /\ \A r \in Requests :
       stage[r] \in Begun \cup {"opened"} => live[chan[r]] # "unused"
  /\ channel # None => live[channel] # "unused"

\* Establishing and using a channel exclude each other, and a call resumes
\* after waiting only to find the channel it waited for still open.
OneChannel ==
  /\ establishing # None => /\ stage[establishing] = "establishing"
                            /\ channel = None
  /\ \A r \in Requests :
       /\ stage[r] = "establishing" => establishing = r
       /\ live[r] = "open" => channel = r
       /\ Awaitable(r) => Usable(channel)

ChannelInv == CountInv /\ Unopened /\ OneChannel

-----------------------------------------------------------------------------
LEMMA ChannelInvInit == Init => ChannelInv
<1>1. Init => Unopened /\ OneChannel
  BY DEF Init, Unopened, OneChannel, Awaitable, Begun
<1> QED
  BY <1>1, CountInvInit DEF ChannelInv

\* A closing comes when no call is about to resume, and opens no channel.
LEMMA CloseKeepsOne ==
  ASSUME Quiet, ChannelInv, NEW c \in Requests, Close(c), Dispatchable,
         live[c] # "unused",
         UNCHANGED <<channel, establishing, callVars>>, timers' \subseteq timers
  PROVE  (Unopened /\ OneChannel)'
<1> USE DEF ChannelInv, CountInv
<1>1. \E v \in {"shut", "closed"} : live' = [live EXCEPT ![c] = v]
  BY DEF Close, NotifyClosed
<1>2. \A r \in Requests : ~Awaitable(r)
  BY DEF Quiet, Dispatchable, MicrotaskPending
<1>3. Unopened'
  BY <1>1 DEF Unopened, Lifecycle, callVars, TypeOK, Begun
<1>4. OneChannel'
  BY <1>1, <1>2 DEF OneChannel, Awaitable, Usable, callVars, TypeOK
<1> QED
  BY <1>3, <1>4

LEMMA ChannelInvStep ==
  ASSUME Quiet, ChannelInv, [Next]_vars
  PROVE  (Unopened /\ OneChannel)'
<1> USE DEF ChannelInv, CountInv
<1>1. ASSUME NEW r \in Requests, Call(r)
      PROVE  (Unopened /\ OneChannel)'
  <2>1. Unopened'
    BY <1>1 DEF Call, UseOrEstablish, Usable, Unopened, Lifecycle, TypeOK, Begun
  <2>2. ASSUME establishing # None PROVE OneChannel'
    BY <1>1, <2>2 DEF Call, Usable, OneChannel, Awaitable, TypeOK, Lifecycle
  <2>3. ASSUME establishing = None, Usable(channel) PROVE OneChannel'
    BY <1>1, <2>3 DEF Call, UseOrEstablish, Usable, OneChannel, Awaitable, TypeOK,
                      Lifecycle
  <2>4. ASSUME establishing = None, ~Usable(channel) PROVE OneChannel'
    <3>1. /\ stage' = [stage EXCEPT ![r] = "establishing"]
          /\ establishing' = r /\ channel' = None
          /\ UNCHANGED <<awaited, live>>
      BY <1>1, <2>4 DEF Call, UseOrEstablish
    <3>2. \A q \in Requests : stage[q] # "waiting" /\ stage[q] # "establishing"
      BY <2>4, RequestsAssumption DEF OneChannel, Awaitable, Lifecycle
    <3>3. \A q \in Requests : live[q] # "open"
      BY <2>4, RequestsAssumption DEF OneChannel, Usable
    <3> QED
      BY <3>1, <3>2, <3>3, RequestsAssumption DEF OneChannel, Awaitable, TypeOK
  <2>5. OneChannel'
    BY <1>1, <2>2, <2>3, <2>4
  <2> QED
    BY <2>1, <2>5
<1>2. ASSUME NEW r \in Requests, Resume(r)
      PROVE  (Unopened /\ OneChannel)'
  <2>1. Usable(channel)
    BY <1>2 DEF Resume, OneChannel
  <2>2. /\ stage' = [stage EXCEPT ![r] = "opened"]
        /\ chan' = [chan EXCEPT ![r] = channel]
        /\ UNCHANGED <<channel, establishing, timers, awaited, live>>
        /\ stage[r] = "waiting"
    BY <1>2, <2>1 DEF Resume, UseOrEstablish, Awaitable
  <2>3. Unopened'
    BY <2>1, <2>2 DEF Unopened, Usable, Lifecycle, TypeOK, Begun
  <2>4. OneChannel'
    BY <2>1, <2>2 DEF OneChannel, Awaitable, Usable, TypeOK, Lifecycle
  <2> QED
    BY <2>3, <2>4
<1>3. ASSUME NEW r \in Requests, Established(r)
      PROVE  (Unopened /\ OneChannel)'
  <2>1. Unopened'
    BY <1>3 DEF Established, Unopened, Lifecycle, TypeOK, Begun
  <2>2. OneChannel'
    BY <1>3, RequestsAssumption
       DEF Established, OneChannel, Awaitable, Usable, TypeOK, Lifecycle
  <2> QED
    BY <2>1, <2>2
<1>4. ASSUME NEW r \in Requests, EstablishFails(r)
      PROVE  FALSE
  BY <1>4 DEF EstablishFails, Quiet
<1>5. ASSUME NEW r \in Requests,
             \/ Opened(r) \/ BeginPlain(r) \/ TransformFails(r)
             \/ BeginPromised(r) \/ ResolveInput(r) \/ InputFails(r)
             \/ SendFails(r) \/ Fail(r)
      PROVE  (Unopened /\ OneChannel)'
  <2>1. /\ UNCHANGED <<signerVars, awaited, chan, live>>
        /\ stage[r] \in {"opened", "resolving", "posted", "refused"}
        /\ \E s \in {"resolving", "posted", "refused", "finished"} :
             /\ stage' = [stage EXCEPT ![r] = s]
             /\ stage[r] \in {"posted", "refused"} => s # "resolving"
    BY <1>5 DEF Opened, BeginPlain, TransformFails, BeginPromised,
         ResolveInput, InputFails, SendFails, Fail, Transmit, endVars
  <2>2. Unopened'
    BY <2>1 DEF Unopened, Lifecycle, TypeOK, Begun, signerVars
  <2>3. OneChannel'
    BY <2>1 DEF OneChannel, Awaitable, Usable, TypeOK, Lifecycle, signerVars
  <2> QED
    BY <2>2, <2>3
<1>6. ASSUME NEW r \in Requests, Respond(r)
      PROVE  (Unopened /\ OneChannel)'
  <2>1. Unopened'
    BY <1>6 DEF Respond, Unopened, Lifecycle, TypeOK, Begun, callVars
  <2>2. OneChannel'
    BY <1>6 DEF Respond, OneChannel, Awaitable, Usable, callVars
  <2> QED
    BY <2>1, <2>2
<1>7. ASSUME NEW t \in Requests, TimerFires(t)
      PROVE  (Unopened /\ OneChannel)'
  <2>1. chan[t] \in Requests /\ live[chan[t]] # "unused" /\ Dispatchable
    BY <1>7 DEF TimerFires, Lifecycle, Unopened, Dispatchable
  <2>2. CASE Close(chan[t])
    BY <1>7, <2>1, <2>2, CloseKeepsOne DEF TimerFires
  <2>3. CASE UNCHANGED <<live, endVars>>
    BY <1>7, <2>3
       DEF TimerFires, Unopened, OneChannel, Awaitable, Usable, callVars, Begun
  <2> QED
    BY <1>7, <2>2, <2>3 DEF TimerFires
<1>8. ASSUME CloseChannel
      PROVE  (Unopened /\ OneChannel)'
  <2>1. channel \in Requests /\ live[channel] # "unused" /\ Close(channel)
    BY <1>8 DEF CloseChannel, TypeOK, Unopened
  <2> QED
    BY <1>8, <2>1, CloseKeepsOne DEF CloseChannel, signerVars
<1>9. ASSUME NEW c \in Requests, Disconnected(c) \/ Shut(c)
      PROVE  (Unopened /\ OneChannel)'
  <2>1. Close(c) /\ live[c] # "unused" /\ Dispatchable
    BY <1>9 DEF Disconnected, Shut, Close
  <2> QED
    BY <1>9, <2>1, CloseKeepsOne DEF Disconnected, Shut, signerVars
<1>10. ASSUME NEW value \in BOOLEAN, SetAutoClose(value)
       PROVE  (Unopened /\ OneChannel)'
  BY <1>10 DEF SetAutoClose, Unopened, OneChannel, Awaitable, Usable, callVars,
               Begun
<1>11. CASE UNCHANGED vars
  BY <1>11 DEF vars, signerVars, callVars, Unopened, OneChannel, Awaitable,
               Usable, Begun
<1> QED
  BY <1>1, <1>2, <1>3, <1>4, <1>5, <1>6, <1>7, <1>8, <1>9, <1>10, <1>11
     DEF Next

\* The signer holds one channel at a time (signer.ts, openChannel: it reuses
\* an open channel, and waits for one that is being established).
THEOREM OneChannelAtATime ==
  ASSUME Quiet
  PROVE  Spec => []SingleChannel
<1>1. ChannelInv /\ [Next]_vars => ChannelInv'
  BY ChannelInvStep, CountInvStep DEF ChannelInv
<1>2. ChannelInv => SingleChannel
  BY RequestsAssumption
     DEF ChannelInv, OneChannel, SingleChannel, CountInv, TypeOK
<1> QED
  BY ChannelInvInit, <1>1, <1>2, PTL DEF Spec

-----------------------------------------------------------------------------
(***************************************************************************)
(* The closing timers                                                      *)
(***************************************************************************)

\* While a timer may close an open channel the signer is at rest: no call is
\* counted, about to begin or about to resume.
TimersRest ==
  /\ \A t \in timers :
       Usable(chan[t]) =>
         /\ t = scheduled
         /\ Counted = {}
         /\ \A r \in Requests : stage[r] # "opened" /\ ~Awaitable(r)
  /\ \A r \in Notes : stage[r] \in Begun => settled[r]

TimerInv == ChannelInv /\ TimersRest

LEMMA TimerInvInit == Init => TimerInv
<1>1. Init => TimersRest
  BY DEF Init, TimersRest, Begun, Requests
<1> QED
  BY <1>1, ChannelInvInit DEF TimerInv

\* A closing opens no channel and counts no call.
LEMMA CloseKeepsRest ==
  ASSUME TimerInv, NEW c \in Requests, Close(c),
         UNCHANGED <<scheduled, callVars>>, timers' \subseteq timers
  PROVE  TimersRest'
<1> USE DEF TimerInv, ChannelInv, CountInv
<1>1. \A d \in Requests \cup {None} : Usable(d)' => Usable(d)
  BY RequestsAssumption DEF Close, NotifyClosed, Usable, TypeOK
<1>2. \A r \in Requests : settled[r] => settled'[r]
  BY DEF Close, NotifyClosed, Settle, endVars
<1>3. Counted' \subseteq Counted
  BY <1>2 DEF Counted, callVars, Requests, Tracked
<1>4. \A t \in timers' : chan[t] \in Requests
  BY DEF Lifecycle
<1> QED
  BY <1>1, <1>2, <1>3, <1>4
     DEF TimersRest, callVars, Awaitable, Begun, TypeOK, Requests

\* The step of a call that has its channel: it counts no other call, and
\* begins only while no timer may fire.
LEMMA CallKeepsRest ==
  ASSUME TimerInv, NEW r \in Requests, stage[r] \in Begun \cup {"opened"},
         NEW s \in {"resolving", "posted", "refused", "finished"},
         stage' = [stage EXCEPT ![r] = s],
         UNCHANGED <<signerVars, awaited, chan, live>>,
         \A q \in Requests : settled[q] => settled'[q],
         r \in Notes /\ stage[r] = "opened" /\ s \in Begun => settled'[r]
  PROVE  TimersRest'
<1> USE DEF TimerInv, ChannelInv, CountInv
<1>1. ASSUME NEW t \in timers, Usable(chan[t])
      PROVE  /\ t = scheduled
             /\ Counted' = {}
             /\ \A q \in Requests : stage'[q] # "opened" /\ ~Awaitable(q)'
  <2>1. /\ t = scheduled /\ Counted = {}
        /\ \A q \in Requests : stage[q] # "opened" /\ ~Awaitable(q)
    BY <1>1 DEF TimersRest
  <2>2. Counted' = {}
    BY <2>1 DEF Counted, TypeOK, Begun, Requests, Tracked
  <2>3. \A q \in Requests : stage'[q] # "opened" /\ ~Awaitable(q)'
    BY <2>1 DEF Awaitable, TypeOK, Lifecycle, Begun
  <2> QED
    BY <2>1, <2>2, <2>3
<1>2. \A q \in Notes : stage'[q] \in Begun => settled'[q]
  BY DEF TimersRest, TypeOK, Begun, Requests
<1>3. UNCHANGED <<timers, scheduled, chan, live>>
  BY DEF signerVars
<1> QED
  BY <1>1, <1>2, <1>3 DEF TimersRest, Usable

LEMMA TimerInvStep ==
  ASSUME Quiet, TimerInv, [Next]_vars
  PROVE  TimersRest'
<1> USE DEF TimerInv, ChannelInv, CountInv
<1>1. ASSUME NEW r \in Requests, Call(r)
      PROVE  TimersRest'
  <2>1. \A t \in timers' : chan[t] \in Requests /\ ~Usable(chan[t]) /\ t # r
    BY <1>1 DEF Call, TimersRest, Lifecycle, Unopened
  <2>2. \A t \in timers' : chan'[t] = chan[t] /\ live' = live
    BY <1>1, <2>1 DEF Call, UseOrEstablish, TypeOK
  <2>3. \A q \in Notes : stage'[q] \in Begun => settled'[q]
    BY <1>1 DEF Call, UseOrEstablish, TimersRest, TypeOK, Begun, endVars, Requests
  <2> QED
    BY <2>1, <2>2, <2>3 DEF TimersRest, Usable
<1>2. ASSUME NEW r \in Requests, Resume(r)
      PROVE  TimersRest'
  <2>1. \A t \in timers' : chan[t] \in Requests /\ ~Usable(chan[t]) /\ t # r
    BY <1>2 DEF Resume, Awaitable, TimersRest, Lifecycle, Unopened
  <2>2. \A t \in timers' : chan'[t] = chan[t] /\ live' = live
    BY <1>2, <2>1 DEF Resume, UseOrEstablish, TypeOK
  <2>3. \A q \in Notes : stage'[q] \in Begun => settled'[q]
    BY <1>2
       DEF Resume, UseOrEstablish, TimersRest, TypeOK, Begun, endVars, Requests
  <2> QED
    BY <2>1, <2>2, <2>3 DEF TimersRest, Usable
<1>3. ASSUME NEW r \in Requests, Established(r)
      PROVE  TimersRest'
  <2>1. \A d \in Requests : live[d] # "open"
    BY <1>3, RequestsAssumption DEF Established, OneChannel
  <2>2. live[r] = "unused"
    BY <1>3 DEF Established, Unopened
  <2>3. \A t \in timers' : /\ t # r /\ chan[t] \in Requests
                           /\ chan'[t] = chan[t] /\ chan[t] # r
    BY <1>3, <2>2 DEF Established, Unopened, Lifecycle, TypeOK
  <2>4. \A t \in timers' : ~Usable(chan[t])'
    BY <1>3, <2>1, <2>3 DEF Established, Usable, TypeOK
  <2>5. \A q \in Notes : stage'[q] \in Begun => settled'[q]
    BY <1>3 DEF Established, TimersRest, TypeOK, Begun, endVars, Requests
  <2> QED
    BY <2>4, <2>5 DEF TimersRest
<1>4. ASSUME NEW r \in Requests, EstablishFails(r)
      PROVE  FALSE
  BY <1>4 DEF EstablishFails, Quiet
<1>5. ASSUME NEW r \in Requests,
             \/ Opened(r) \/ BeginPlain(r) \/ TransformFails(r)
             \/ BeginPromised(r) \/ ResolveInput(r) \/ InputFails(r)
             \/ SendFails(r) \/ Fail(r)
      PROVE  TimersRest'
  <2>1. /\ UNCHANGED <<signerVars, awaited, chan, live>>
        /\ stage[r] \in Begun \cup {"opened"}
        /\ \E s \in {"resolving", "posted", "refused", "finished"} :
             stage' = [stage EXCEPT ![r] = s]
    BY <1>5 DEF Opened, BeginPlain, TransformFails, BeginPromised,
         ResolveInput, InputFails, SendFails, Fail, Transmit, endVars, Begun
  <2>2. \A q \in Requests : settled[q] => settled'[q]
    BY <1>5 DEF Opened, BeginPlain, TransformFails, BeginPromised,
         ResolveInput, InputFails, SendFails, Fail, Settle, endVars, TypeOK,
         Lifecycle
  <2>3. r \in Notes /\ stage[r] = "opened" /\ stage'[r] \in Begun => settled'[r]
    BY <1>5, RequestsAssumption
       DEF Opened, BeginPlain, TransformFails, BeginPromised, ResolveInput,
           InputFails, SendFails, Fail, TypeOK, Begun
  <2>4. PICK s \in {"resolving", "posted", "refused", "finished"} :
               stage' = [stage EXCEPT ![r] = s]
    BY <2>1
  <2>5. r \in Notes /\ stage[r] = "opened" /\ s \in Begun => settled'[r]
    BY <2>3, <2>4 DEF TypeOK
  <2> QED
    BY <2>1, <2>2, <2>4, <2>5, CallKeepsRest
<1>6. ASSUME NEW r \in Requests, Respond(r)
      PROVE  TimersRest'
  <2>1. r \in Counted /\ Counted # {}
    BY <1>6 DEF Respond, Counted, TimersRest, Lifecycle, Begun, Tracked, Requests
  <2>2. \A t \in timers : ~Usable(chan[t])
    BY <2>1 DEF TimersRest
  <2>3. \A q \in Requests : stage[q] # "opened" /\ ~Awaitable(q)
    BY <1>6 DEF Respond, Dispatchable, MicrotaskPending, Quiet
  <2>4. \A q \in Notes : stage'[q] \in Begun => settled'[q]
    BY <1>6 DEF Respond, Settle, TimersRest, Begun, callVars, Requests
  <2>5. timers' # timers => timers' = timers \cup {r} /\ scheduled' = r
                            /\ pendingRequestCount' = 0
    BY <1>6 DEF Respond, LastAnswered
  <2>6. pendingRequestCount' = 0 => Counted' = {}
    <3>1. CountInv'
      BY CountInvStep
    <3>2. Counted' \in SUBSET Tracked
      BY DEF Counted
    <3> QED
      BY <3>1, <3>2, TrackedFinite, FS_EmptySet DEF PendingCountExact
  <2>7. UNCHANGED <<stage, awaited, chan, live>>
    BY <1>6 DEF Respond, callVars
  <2> QED
    BY <2>2, <2>3, <2>4, <2>5, <2>6, <2>7 DEF TimersRest, Usable, Awaitable
<1>7. ASSUME NEW t \in Requests, TimerFires(t)
      PROVE  TimersRest'
  <2>1. chan[t] \in Requests
    BY <1>7 DEF TimerFires, Lifecycle
  <2>2. CASE Close(chan[t])
    BY <1>7, <2>1, <2>2, CloseKeepsRest DEF TimerFires
  <2>3. CASE UNCHANGED <<live, endVars>>
    BY <1>7, <2>3
       DEF TimerFires, TimersRest, Usable, Awaitable, callVars, Counted, endVars
  <2> QED
    BY <1>7, <2>2, <2>3 DEF TimerFires
<1>8. ASSUME CloseChannel
      PROVE  TimersRest'
  <2>1. channel \in Requests /\ Close(channel)
    BY <1>8 DEF CloseChannel, TypeOK
  <2> QED
    BY <1>8, <2>1, CloseKeepsRest DEF CloseChannel, signerVars
<1>9. ASSUME NEW c \in Requests, Disconnected(c) \/ Shut(c)
      PROVE  TimersRest'
  <2>1. Close(c)
    BY <1>9 DEF Disconnected, Shut, Close
  <2> QED
    BY <1>9, <2>1, CloseKeepsRest DEF Disconnected, Shut, signerVars
<1>10. ASSUME NEW value \in BOOLEAN, SetAutoClose(value)
       PROVE  TimersRest'
  BY <1>10 DEF SetAutoClose, TimersRest, Usable, Awaitable, callVars, Counted,
               endVars
<1>11. CASE UNCHANGED vars
  BY <1>11 DEF vars, signerVars, callVars, endVars, TimersRest, Usable,
               Awaitable, Counted
<1> QED
  BY <1>1, <1>2, <1>3, <1>4, <1>5, <1>6, <1>7, <1>8, <1>9, <1>10, <1>11
     DEF Next

\* No closing timer ever fires under a call (signer.ts, the response listener
\* schedules the close once every concurrent request has resolved, and the
\* next call cancels it).
THEOREM TimersAreSafe ==
  ASSUME Quiet
  PROVE  Spec => []TimerSafe
<1>1. TimerInv /\ [Next]_vars => TimerInv'
  BY TimerInvStep, ChannelInvStep, CountInvStep DEF TimerInv, ChannelInv
<1>2. TimerInv => TimerSafe
  BY DEF TimerInv, TimersRest, TimerSafe, InFlight
<1> QED
  BY TimerInvInit, <1>1, <1>2, PTL DEF Spec
=============================================================================
