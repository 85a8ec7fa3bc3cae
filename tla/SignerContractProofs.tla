------------------------ MODULE SignerContractProofs ------------------------
(***************************************************************************)
(* The Signer implements SignerContract, and a closed channel leaves no    *)
(* call waiting on it, whatever fails and however the steps interleave.    *)
(***************************************************************************)
EXTENDS SignerProofs

\* What a call has been told, what the signer was given, and which channels
\* have closed agree.
Delivery ==
  /\ \A r \in Requests :
       /\ stage[r] \in {"idle", "waiting", "establishing"} => live[r] = "unused"
       /\ stage[r] = "posted" => r \in inbox
       /\ r \in inbox => stage[r] \in {"posted", "refused", "finished"}
       /\ r \in inbox => r \notin Openers
       /\ outcome[r] = "closed" /\ stage[r] = "resolving"
            => live[chan[r]] = "closed"
       /\ stage[r] = "resolving" => outcome[r] \in {"none", "closed"}
       /\ stage[r] = "posted" /\ outcome[r] = "none" => live[chan[r]] # "closed"
       /\ stage[r] \in Begun => live[chan[r]] # "unused"
       /\ stage[r] = "opened" => live[chan[r]] # "unused"
       /\ outcome[r] = "opened" => r \in Openers
       /\ r \in Notes /\ stage[r] \in Begun => settled[r]
       /\ outcome[r] = "none" => stage[r] # "finished"
  /\ channel # None => live[channel] # "unused"

DeliveryInv == CountInv /\ Delivery

-----------------------------------------------------------------------------
LEMMA DeliveryInit == Init => DeliveryInv
<1>1. Init => Delivery
  BY DEF Init, Delivery, Begun
<1> QED
  BY <1>1, CountInvInit DEF DeliveryInv

\* Closing a channel tells every call that waits on it.
LEMMA CloseKeepsDelivery ==
  ASSUME DeliveryInv, NEW c \in Requests, Close(c),
         live[c] \in {"open", "shut"},
         UNCHANGED <<channel, callVars, inbox>>
  PROVE  Delivery'
<1> USE DEF DeliveryInv, CountInv
<1>1. CASE live' = [live EXCEPT ![c] = "shut"] /\ UNCHANGED endVars
  BY <1>1 DEF Delivery, Lifecycle, TypeOK, callVars, endVars, Begun
<1>2. CASE NotifyClosed(c)
  <2>1. /\ live' = [live EXCEPT ![c] = "closed"]
        /\ \A r \in Requests :
             /\ outcome'[r] = IF chan[r] = c /\ Listening(r) THEN "closed"
                                                             ELSE outcome[r]
             /\ settled[r] => settled'[r]
    BY <1>2 DEF NotifyClosed, Settle
  <2> QED
    BY <2>1 DEF Delivery, Lifecycle, TypeOK, callVars, Begun, Listening
<1> QED
  BY <1>1, <1>2 DEF Close

LEMMA DeliveryStep == DeliveryInv /\ [Next]_vars => Delivery'
<1> SUFFICES ASSUME DeliveryInv, [Next]_vars
             PROVE  Delivery'
  OBVIOUS
<1> USE DEF DeliveryInv, CountInv
<1>1. ASSUME NEW r \in Requests, Call(r)
      PROVE  Delivery'
  BY <1>1 DEF Call, UseOrEstablish, Usable, Delivery, Lifecycle, TypeOK, Begun,
              endVars
<1>2. ASSUME NEW r \in Requests, Resume(r)
      PROVE  Delivery'
  BY <1>2 DEF Resume, Awaitable, UseOrEstablish, Usable, Delivery, Lifecycle,
              TypeOK, Begun, endVars
<1>3. ASSUME NEW r \in Requests, Established(r)
      PROVE  Delivery'
  BY <1>3 DEF Established, Delivery, Lifecycle, TypeOK, Begun, endVars
<1>4. ASSUME NEW r \in Requests, EstablishFails(r)
      PROVE  Delivery'
  BY <1>4 DEF EstablishFails, Delivery, Lifecycle, TypeOK, Begun, signerVars
<1>5. ASSUME NEW r \in Requests, Opened(r)
      PROVE  Delivery'
  BY <1>5 DEF Opened, Delivery, Lifecycle, TypeOK, Begun, signerVars
<1>6. ASSUME NEW r \in Requests, BeginPlain(r)
      PROVE  Delivery'
  <2>1. /\ \A q \in Requests : q # r => settled'[q] = settled[q]
        /\ r \in Notes => settled'[r]
    BY <1>6 DEF BeginPlain, TypeOK
  <2>2. /\ Transmit(r) /\ stage[r] = "opened" /\ r \notin Openers
        /\ UNCHANGED <<signerVars, awaited, chan, outcome, live>>
    BY <1>6, RequestsAssumption DEF BeginPlain
  <2>3. CASE Usable(chan[r])
    BY <2>1, <2>2, <2>3
       DEF Transmit, Usable, Delivery, Lifecycle, TypeOK, Begun, signerVars
  <2>4. CASE ~Usable(chan[r])
    BY <2>1, <2>2, <2>4
       DEF Transmit, Delivery, Lifecycle, TypeOK, Begun, signerVars
  <2> QED
    BY <2>3, <2>4
<1>7. ASSUME NEW r \in Requests, TransformFails(r)
      PROVE  Delivery'
  BY <1>7, RequestsAssumption
     DEF TransformFails, Delivery, Lifecycle, TypeOK, Begun, signerVars
<1>8. ASSUME NEW r \in Requests, BeginPromised(r)
      PROVE  Delivery'
  BY <1>8, RequestsAssumption
     DEF BeginPromised, Delivery, Lifecycle, TypeOK, Begun, signerVars
<1>9. ASSUME NEW r \in Requests, ResolveInput(r)
      PROVE  Delivery'
  <2>1. \A q \in Requests : settled[q] => settled'[q]
    BY <1>9 DEF ResolveInput, Settle
  <2>2. /\ Transmit(r) /\ stage[r] = "resolving"
        /\ UNCHANGED <<signerVars, awaited, chan, outcome, live>>
    BY <1>9 DEF ResolveInput
  <2> QED
    BY <2>1, <2>2
       DEF Transmit, Usable, Delivery, Lifecycle, TypeOK, Begun, signerVars
<1>10. ASSUME NEW r \in Requests, InputFails(r) \/ SendFails(r)
       PROVE  Delivery'
  BY <1>10 DEF InputFails, SendFails, Delivery, Lifecycle, TypeOK, Begun,
               signerVars, endVars
<1>11. ASSUME NEW r \in Requests, Fail(r)
       PROVE  Delivery'
  BY <1>11 DEF Fail, Settle, Delivery, Lifecycle, TypeOK, Begun, signerVars
<1>12. ASSUME NEW r \in Requests, Respond(r)
       PROVE  Delivery'
  BY <1>12 DEF Respond, Settle, Delivery, Lifecycle, TypeOK, Begun, callVars
<1>13. ASSUME NEW t \in Requests, TimerFires(t)
       PROVE  Delivery'
  <2>1. CASE Usable(chan[t])
    <3>1. chan[t] \in Requests /\ Close(chan[t]) /\ live[chan[t]] = "open"
      BY <1>13, <2>1 DEF TimerFires, Lifecycle, Usable
    <3> QED
      BY <1>13, <3>1, CloseKeepsDelivery DEF TimerFires
  <2>2. CASE ~Usable(chan[t])
    BY <1>13, <2>2 DEF TimerFires, Delivery, callVars, endVars, Begun
  <2> QED
    BY <2>1, <2>2
<1>14. ASSUME CloseChannel
       PROVE  Delivery'
  <2>1. /\ channel \in Requests /\ Close(channel)
        /\ live[channel] \in {"open", "shut"}
    BY <1>14 DEF CloseChannel, TypeOK, Delivery, Lives
  <2> QED
    BY <1>14, <2>1, CloseKeepsDelivery DEF CloseChannel, signerVars
<1>15. ASSUME NEW c \in Requests, Disconnected(c) \/ Shut(c)
       PROVE  Delivery'
  <2>1. Close(c) /\ live[c] \in {"open", "shut"}
    BY <1>15 DEF Disconnected, Shut, Close
  <2> QED
    BY <1>15, <2>1, CloseKeepsDelivery DEF Disconnected, Shut, signerVars
<1>16. ASSUME NEW value \in BOOLEAN, SetAutoClose(value)
       PROVE  Delivery'
  BY <1>16 DEF SetAutoClose, Delivery, callVars, endVars, Begun
<1>17. CASE UNCHANGED vars
  BY <1>17 DEF vars, signerVars, callVars, endVars, Delivery, Begun
<1> QED
  BY <1>1, <1>2, <1>3, <1>4, <1>5, <1>6, <1>7, <1>8, <1>9, <1>10, <1>11,
     <1>12, <1>13, <1>14, <1>15, <1>16, <1>17 DEF Next

LEMMA DeliveryInvStep == DeliveryInv /\ [Next]_vars => DeliveryInv'
  BY DeliveryStep, CountInvStep DEF DeliveryInv

\* A channel whose close listeners have run leaves no request waiting for its
\* answer (signer.ts, the close listener of sendRequest).
THEOREM NobodyIsStranded == Spec => []NobodyStranded
<1>1. DeliveryInv => NobodyStranded
  BY DEF DeliveryInv, Delivery, NobodyStranded, Listening
<1> QED
  BY DeliveryInit, DeliveryInvStep, <1>1, PTL DEF Spec

-----------------------------------------------------------------------------
(***************************************************************************)
(* The refinement                                                          *)
(***************************************************************************)

\* A step that tells no caller anything and gives the signer nothing.
LEMMA SilentStep ==
  ASSUME \A q \in Calls : stage'[q] = "idle" <=> stage[q] = "idle",
         UNCHANGED <<outcome, inbox>>
  PROVE  [Contract!Next]_<<callStatus, inbox>>
BY DEF callStatus

\* Rejecting the calls of S, perhaps of no call.
LEMMA RejectingStep ==
  ASSUME NEW S \in SUBSET Calls, UNCHANGED inbox,
         \A q \in S : outcome[q] = "none" /\ stage[q] # "idle",
         \A q \in S : outcome'[q] \in {"closed", "error"},
         \A q \in Calls \ S : outcome'[q] = outcome[q],
         \A q \in Calls : stage'[q] = "idle" <=> stage[q] = "idle"
  PROVE  [Contract!Next]_<<callStatus, inbox>>
<1>1. \A q \in S : callStatus[q] = "pending"
  BY DEF callStatus
<1>2. callStatus' = [q \in Calls |-> IF q \in S THEN "rejected" ELSE callStatus[q]]
  BY DEF callStatus
<1>3. Contract!Reject(S)
  BY <1>1, <1>2 DEF Contract!Reject
<1> QED
  BY <1>3 DEF Contract!Next

\* Giving the signer the request of r.
LEMMA DeliveringStep ==
  ASSUME NEW r \in Calls, r \notin inbox, inbox' = inbox \cup {r},
         outcome[r] = "none", stage[r] # "idle", UNCHANGED outcome,
         \A q \in Calls : stage'[q] = "idle" <=> stage[q] = "idle"
  PROVE  [Contract!Next]_<<callStatus, inbox>>
<1>1. callStatus[r] = "pending" /\ callStatus' = callStatus
  BY DEF callStatus
<1>2. Contract!Deliver(r)
  BY <1>1 DEF Contract!Deliver
<1> QED
  BY <1>2 DEF Contract!Next

\* Closing a channel rejects the calls that listen on it, all at once.
LEMMA ClosingStep ==
  ASSUME DeliveryInv, NEW c \in Requests, Close(c), UNCHANGED <<callVars, inbox>>
  PROVE  [Contract!Next]_<<callStatus, inbox>>
<1>1. CASE UNCHANGED endVars
  BY <1>1, SilentStep DEF callVars, endVars
<1>2. CASE NotifyClosed(c)
  <2> DEFINE S == {q \in Calls : chan[q] = c /\ Listening(q)}
  <2>1. \A q \in S : outcome[q] = "none" /\ stage[q] # "idle"
    BY DEF Listening
  <2>2. /\ \A q \in S : outcome'[q] = "closed"
        /\ \A q \in Calls \ S : outcome'[q] = outcome[q]
    BY <1>2 DEF NotifyClosed, Calls, Requests
  <2>3. \A q \in Calls : stage'[q] = "idle" <=> stage[q] = "idle"
    BY DEF callVars
  <2> HIDE DEF S
  <2>4. S \in SUBSET Calls
    BY DEF S
  <2> QED
    BY <2>1, <2>2, <2>3, <2>4, RejectingStep
<1> QED
  BY <1>1, <1>2 DEF Close

LEMMA ContractStep ==
  ASSUME DeliveryInv, [Next]_vars
  PROVE  [Contract!Next]_<<callStatus, inbox>>
<1> USE DEF DeliveryInv, CountInv
<1>0. Calls \subseteq Requests /\ Requests = Calls \cup Openers
  BY DEF Calls, Requests
<1>1. ASSUME NEW r \in Requests, Call(r)
      PROVE  [Contract!Next]_<<callStatus, inbox>>
  <2>1. \A q \in Requests : stage'[q] = IF q = r THEN stage'[r] ELSE stage[q]
    BY <1>1 DEF Call, UseOrEstablish, TypeOK
  <2>2. stage[r] = "idle" /\ stage'[r] # "idle" /\ UNCHANGED <<outcome, inbox>>
    BY <1>1 DEF Call, UseOrEstablish, TypeOK, endVars
  <2>3. CASE r \in Calls
    <3>1. callStatus[r] = "idle"
      BY <2>2, <2>3 DEF callStatus, Delivery, Lifecycle, Calls, Requests
    <3>2. callStatus' = [callStatus EXCEPT ![r] = "pending"]
      <4>1. outcome[r] = "none"
        BY <2>2 DEF Lifecycle
      <4>2. \A q \in Calls : q # r => (stage'[q] = "idle" <=> stage[q] = "idle")
        BY <1>0, <2>1
      <4> QED
        BY <2>2, <2>3, <4>1, <4>2 DEF callStatus
    <3>3. Contract!Issue(r)
      BY <2>2, <3>1, <3>2 DEF Contract!Issue
    <3> QED
      BY <2>3, <3>3 DEF Contract!Next
  <2>4. CASE r \notin Calls
    BY <1>0, <2>1, <2>2, <2>4, SilentStep
  <2> QED
    BY <2>3, <2>4
<1>2. ASSUME NEW r \in Requests,
             \/ Resume(r) \/ Established(r) \/ BeginPromised(r)
             \/ InputFails(r) \/ SendFails(r)
      PROVE  [Contract!Next]_<<callStatus, inbox>>
  <2>1. \A q \in Requests : stage'[q] = "idle" <=> stage[q] = "idle"
    BY <1>2 DEF Resume, Awaitable, UseOrEstablish, Established, BeginPromised,
                InputFails, SendFails, TypeOK
  <2>2. UNCHANGED <<outcome, inbox>>
    BY <1>2 DEF Resume, Established, BeginPromised, InputFails, SendFails, endVars
  <2> QED
    BY <1>0, <2>1, <2>2, SilentStep
<1>3. ASSUME NEW r \in Requests,
             EstablishFails(r) \/ Opened(r) \/ TransformFails(r) \/ Fail(r)
      PROVE  [Contract!Next]_<<callStatus, inbox>>
  <2> DEFINE S == {q \in Calls : q = r /\ outcome[q] = "none"}
  <2>1. \A q \in Requests : stage'[q] = "idle" <=> stage[q] = "idle"
    BY <1>3 DEF EstablishFails, Opened, TransformFails, Fail, TypeOK
  <2>2. \A q \in S : stage[q] # "idle" /\ outcome[q] = "none"
    BY <1>3 DEF EstablishFails, Opened, TransformFails, Fail
  <2>3. \A q \in S : outcome'[q] \in {"closed", "error"}
    BY <1>0, <1>3, RequestsAssumption
       DEF EstablishFails, Opened, TransformFails, Fail, TypeOK, Calls
  <2>4. \A q \in Calls \ S : outcome'[q] = outcome[q]
    BY <1>0, <1>3 DEF EstablishFails, Opened, TransformFails, Fail, TypeOK,
                      Lifecycle
  <2>5. UNCHANGED inbox
    BY <1>3 DEF EstablishFails, Opened, TransformFails, Fail
  <2>6. S \in SUBSET Calls
    OBVIOUS
  <2> HIDE DEF S
  <2> QED
    BY <1>0, <2>1, <2>2, <2>3, <2>4, <2>5, <2>6, RejectingStep
<1>4. ASSUME NEW r \in Requests, BeginPlain(r) \/ ResolveInput(r)
      PROVE  [Contract!Next]_<<callStatus, inbox>>
  <2>1. /\ Transmit(r) /\ UNCHANGED outcome
        /\ stage[r] \in {"opened", "resolving"}
    BY <1>4 DEF BeginPlain, ResolveInput
  <2>2. \A q \in Requests : stage'[q] = "idle" <=> stage[q] = "idle"
    BY <2>1 DEF Transmit, TypeOK
  <2>3. r \in Calls /\ r \notin inbox
    BY <1>0, <1>4, <2>1 DEF BeginPlain, ResolveInput, Calls, Lifecycle, Delivery,
                            Begun
  <2>4. CASE Usable(chan[r])
    <3>1. inbox' = inbox \cup {r}
      BY <2>1, <2>4 DEF Transmit
    <3>2. outcome[r] = "none"
      BY <2>1, <2>4 DEF Usable, Delivery, Lifecycle
    <3>3. stage[r] # "idle"
      BY <2>1
    <3> QED
      BY <1>0, <2>1, <2>2, <2>3, <3>1, <3>2, <3>3, DeliveringStep
  <2>5. CASE ~Usable(chan[r])
    <3>1. UNCHANGED inbox
      BY <2>1, <2>5 DEF Transmit
    <3> QED
      BY <1>0, <2>1, <2>2, <3>1, SilentStep
  <2> QED
    BY <2>4, <2>5
<1>5. ASSUME NEW r \in Requests, Respond(r)
      PROVE  [Contract!Next]_<<callStatus, inbox>>
  <2>1. /\ stage[r] = "posted" /\ outcome[r] = "none" /\ ~settled[r]
        /\ outcome' = [outcome EXCEPT ![r] = "response"]
        /\ UNCHANGED <<stage, inbox>>
    BY <1>5 DEF Respond, Listening, callVars
  <2>2. r \in Calls /\ r \in inbox \ Notes
    BY <1>0, <2>1 DEF Delivery, Lifecycle, Begun
  <2>3. callStatus[r] = "pending"
    BY <2>1, <2>2 DEF callStatus
  <2>4. callStatus' = [callStatus EXCEPT ![r] = "fulfilled"]
    BY <1>0, <2>1, <2>2 DEF callStatus, TypeOK
  <2>5. Contract!Fulfil(r)
    BY <2>1, <2>2, <2>3, <2>4 DEF Contract!Fulfil
  <2> QED
    BY <2>2, <2>5 DEF Contract!Next
<1>6. ASSUME NEW t \in Requests, TimerFires(t)
      PROVE  [Contract!Next]_<<callStatus, inbox>>
  <2>1. CASE Usable(chan[t])
    <3>1. chan[t] \in Requests /\ Close(chan[t]) /\ UNCHANGED <<callVars, inbox>>
      BY <1>6, <2>1 DEF TimerFires, Lifecycle
    <3> QED
      BY <3>1, ClosingStep
  <2>2. CASE ~Usable(chan[t])
    BY <1>6, <2>2, SilentStep DEF TimerFires, callVars, endVars
  <2> QED
    BY <2>1, <2>2
<1>7. ASSUME CloseChannel
      PROVE  [Contract!Next]_<<callStatus, inbox>>
  <2>1. channel \in Requests /\ Close(channel) /\ UNCHANGED <<callVars, inbox>>
    BY <1>7 DEF CloseChannel, TypeOK
  <2> QED
    BY <2>1, ClosingStep
<1>8. ASSUME NEW c \in Requests, Disconnected(c) \/ Shut(c)
      PROVE  [Contract!Next]_<<callStatus, inbox>>
  <2>1. Close(c) /\ UNCHANGED <<callVars, inbox>>
    BY <1>8 DEF Disconnected, Shut, Close
  <2> QED
    BY <2>1, ClosingStep
<1>9. ASSUME NEW value \in BOOLEAN, SetAutoClose(value)
      PROVE  [Contract!Next]_<<callStatus, inbox>>
  BY <1>9, SilentStep DEF SetAutoClose, callVars, endVars
<1>10. CASE UNCHANGED vars
  BY <1>10, SilentStep DEF vars, callVars, endVars
<1> QED
  BY <1>1, <1>2, <1>3, <1>4, <1>5, <1>6, <1>7, <1>8, <1>9, <1>10 DEF Next

\* The Signer gives its callers what SignerContract promises (signer.ts,
\* sendRequest): one settlement per call, an answer only to a request that was
\* handed over, and no request handed over twice or after a rejection.
THEOREM SignerImplementsContract == Spec => ImplementsContract
<1>1. Init => Contract!Init
  BY DEF Init, Contract!Init, callStatus, Calls, Requests
<1> QED
  BY <1>1, DeliveryInit, DeliveryInvStep, ContractStep, PTL
     DEF Spec, ImplementsContract, Contract!Spec
=============================================================================
