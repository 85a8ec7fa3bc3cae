---------------------------- MODULE SignerProofs ----------------------------
(***************************************************************************)
(* Theorems about Signer, for any finite sets of calls, any faults and any *)
(* scheduling.                                                             *)
(***************************************************************************)
EXTENDS Signer, FiniteSetTheorems, TLAPS

Begun == {"resolving", "posted", "refused"}

\* What the stage of a call says of its variables: nothing has happened to a
\* call that has not begun, a call that has a channel has a real one, and only
\* the calls that send reach the stages of sendRequest.
Lifecycle ==
  /\ \A r \in Requests :
       /\ stage[r] \in {"idle", "waiting", "establishing", "opened"}
            => ~settled[r] /\ outcome[r] = "none"
       /\ stage[r] = "waiting" => awaited[r] \in Requests
       /\ stage[r] \in Begun \cup {"opened"} => chan[r] \in Requests
       /\ stage[r] \in Begun => r \notin Openers
  /\ \A t \in timers : chan[t] \in Requests

CountInv == TypeOK /\ Lifecycle /\ PendingCountExact

-----------------------------------------------------------------------------
\* Every set of tracked calls is finite.
LEMMA TrackedFinite ==
  ASSUME NEW T \in SUBSET Tracked
  PROVE  IsFiniteSet(T) /\ Cardinality(T) \in Nat
<1>1. IsFiniteSet(Tracked)
  BY RequestsAssumption, FS_Union DEF Tracked
<1>2. IsFiniteSet(T)
  BY <1>1, FS_Subset
<1> QED
  BY <1>2, FS_CardinalityType

\* Taking D out of a set of tracked calls takes its size out of the count.
LEMMA TakeOut ==
  ASSUME NEW T \in SUBSET Tracked, NEW D \in SUBSET T
  PROVE  Cardinality(T \ D) = Cardinality(T) - Cardinality(D)
<1>1. /\ IsFiniteSet(T \ D) /\ Cardinality(T \ D) \in Nat
      /\ IsFiniteSet(D) /\ Cardinality(D) \in Nat
      /\ Cardinality(T) \in Nat
  BY TrackedFinite
<1>2. Cardinality((T \ D) \cup D) =
        Cardinality(T \ D) + Cardinality(D) - Cardinality((T \ D) \cap D)
  BY <1>1, FS_Union
<1>3. (T \ D) \cup D = T /\ (T \ D) \cap D = {}
  OBVIOUS
<1>4. Cardinality((T \ D) \cup D) = Cardinality(T)
  BY <1>3
<1>5. Cardinality((T \ D) \cap D) = 0
  BY <1>3, FS_EmptySet
<1> QED
  BY <1>1, <1>2, <1>4, <1>5

\* The count survives a step that leaves the same calls counted.
LEMMA SameCount ==
  ASSUME PendingCountExact, Counted' = Counted,
         pendingRequestCount' = pendingRequestCount
  PROVE  PendingCountExact' /\ pendingRequestCount' \in Nat
<1>1. Counted \in SUBSET Tracked
  BY DEF Counted
<1> QED
  BY <1>1, TrackedFinite DEF PendingCountExact

\* A call that begins is counted once.
LEMMA CountsOne ==
  ASSUME PendingCountExact, NEW r \in Tracked, r \notin Counted,
         Counted' = Counted \cup {r},
         pendingRequestCount' = pendingRequestCount + 1
  PROVE  PendingCountExact' /\ pendingRequestCount' \in Nat
<1>1. Counted \in SUBSET Tracked
  BY DEF Counted
<1>2. Cardinality(Counted \cup {r}) = Cardinality(Counted) + 1
  BY <1>1, TrackedFinite, FS_AddElement
<1> QED
  BY <1>1, <1>2, TrackedFinite DEF PendingCountExact

\* Settling a set of calls uncounts exactly those of them that were counted.
LEMMA SettleCounts ==
  ASSUME TypeOK, PendingCountExact, NEW S \in SUBSET Requests, Settle(S),
         \A r \in Requests : ~settled[r] /\ r \in S => stage[r] \in Begun,
         \A r \in Requests : r \notin S => stage'[r] = stage[r]
  PROVE  PendingCountExact' /\ pendingRequestCount' \in Nat
<1> DEFINE D == {r \in S \cap Tracked : ~settled[r]}
<1>1. Counted \in SUBSET Tracked /\ D \in SUBSET Counted
  BY DEF Counted, Begun, Requests, Tracked
<1>2. Counted' = Counted \ D
  BY DEF Counted, Settle, TypeOK, Begun, Requests, Tracked
<1>3. Cardinality(Counted \ D) = Cardinality(Counted) - Cardinality(D)
  BY <1>1, TakeOut
<1>4. Cardinality(Counted \ D) \in Nat
  BY <1>1, TrackedFinite
<1> QED
  BY <1>2, <1>3, <1>4 DEF PendingCountExact, Settle
-----------------------------------------------------------------------------
\* Closing a channel, whether its listeners run now or later, rejects and
\* uncounts the calls that listen on it.
LEMMA CloseKeepsCount ==
  ASSUME CountInv, NEW c \in Requests, Close(c),
         UNCHANGED <<channel, establishing, scheduled, autoClose, callVars, inbox>>,
         timers' \subseteq timers
  PROVE  CountInv'
<1> USE DEF CountInv
<1>1. PendingCountExact' /\ pendingRequestCount' \in Nat
  <2>1. CASE UNCHANGED endVars
    <3>1. Counted' = Counted
      BY <2>1 DEF Counted, callVars, endVars
    <3> QED
      BY <2>1, <3>1, SameCount DEF endVars
  <2>2. CASE NotifyClosed(c)
    <3> DEFINE S == {r \in Requests : chan[r] = c /\ Listening(r)}
    <3>1. S \in SUBSET Requests /\ Settle(S)
      BY <2>2 DEF NotifyClosed
    <3>2. \A r \in Requests : r \in S => stage[r] \in Begun
      BY DEF Listening, Begun
    <3>3. stage' = stage
      BY DEF callVars
    <3> QED
      BY <3>1, <3>2, <3>3, SettleCounts
  <2> QED
    BY <2>1, <2>2 DEF Close
<1>2. TypeOK'
  BY <1>1
     DEF Close, NotifyClosed, Settle, TypeOK, Lives, Outcomes, callVars,
         endVars
<1>3. Lifecycle'
  BY
     DEF Close, NotifyClosed, Settle, Listening, TypeOK, Lifecycle, Begun,
         callVars, endVars
<1> QED
  BY <1>1, <1>2, <1>3

\* Every step keeps the invariant.
LEMMA CountInvStep ==
  CountInv /\ [Next]_vars => CountInv'
<1> SUFFICES ASSUME CountInv, [Next]_vars
             PROVE  CountInv'
  OBVIOUS
<1> USE DEF CountInv
<1>1. ASSUME NEW r \in Requests, Call(r)
      PROVE  CountInv'
  <2>1. Counted' = Counted /\ pendingRequestCount' = pendingRequestCount
    BY <1>1
       DEF Call, UseOrEstablish, endVars, Counted, TypeOK, Tracked, Requests
  <2>2. PendingCountExact' /\ pendingRequestCount' \in Nat
    BY <2>1, SameCount
  <2>3. TypeOK'
    BY <1>1, <2>2
       DEF Call, UseOrEstablish, signerVars, endVars, TypeOK, Lifecycle,
           Lives, Stages, Outcomes
  <2>4. Lifecycle'
    BY <1>1 DEF Call, UseOrEstablish, Usable, endVars, TypeOK, Lifecycle, Begun
  <2> QED
    BY <2>2, <2>3, <2>4 DEF CountInv
<1>2. ASSUME NEW r \in Requests, Resume(r)
      PROVE  CountInv'
  <2>1. Counted' = Counted /\ pendingRequestCount' = pendingRequestCount
    BY <1>2
       DEF Resume, Awaitable, UseOrEstablish, endVars, Counted, TypeOK,
           Tracked,
            Requests
  <2>2. PendingCountExact' /\ pendingRequestCount' \in Nat
    BY <2>1, SameCount
  <2>3. TypeOK'
    BY <1>2, <2>2
       DEF Resume, Awaitable, UseOrEstablish, endVars, TypeOK, Lifecycle,
           Lives, Stages, Outcomes
  <2>4. Lifecycle'
    BY <1>2
       DEF Resume, Awaitable, UseOrEstablish, Usable, endVars, TypeOK,
           Lifecycle,
            Begun
  <2> QED
    BY <2>2, <2>3, <2>4 DEF CountInv
<1>3. ASSUME NEW r \in Requests, Established(r)
      PROVE  CountInv'
  <2>1. Counted' = Counted /\ pendingRequestCount' = pendingRequestCount
    BY <1>3 DEF Established, endVars, Counted, Lifecycle, TypeOK
  <2>2. PendingCountExact' /\ pendingRequestCount' \in Nat
    BY <2>1, SameCount
  <2>3. TypeOK'
    BY <1>3, <2>2
       DEF Established, endVars, TypeOK, Lifecycle, Lives, Stages, Outcomes
  <2>4. Lifecycle'
    BY <1>3
       DEF Established, endVars, TypeOK, Lifecycle, Begun, Tracked, Requests
  <2> QED
    BY <2>2, <2>3, <2>4 DEF CountInv
<1>4. ASSUME NEW r \in Requests, EstablishFails(r)
      PROVE  CountInv'
  <2>1. Counted' = Counted /\ pendingRequestCount' = pendingRequestCount
    BY <1>4 DEF EstablishFails, signerVars, Counted, Lifecycle, TypeOK
  <2>2. PendingCountExact' /\ pendingRequestCount' \in Nat
    BY <2>1, SameCount
  <2>3. TypeOK'
    BY <1>4, <2>2
       DEF EstablishFails, signerVars, TypeOK, Lifecycle, Lives, Stages,
           Outcomes
  <2>4. Lifecycle'
    BY <1>4
       DEF EstablishFails, signerVars, TypeOK, Lifecycle, Begun, Tracked,
           Requests
  <2> QED
    BY <2>2, <2>3, <2>4 DEF CountInv
<1>5. ASSUME NEW r \in Requests, Opened(r)
      PROVE  CountInv'
  <2>1. Counted' = Counted /\ pendingRequestCount' = pendingRequestCount
    BY <1>5 DEF Opened, signerVars, Counted, Lifecycle, TypeOK
  <2>2. PendingCountExact' /\ pendingRequestCount' \in Nat
    BY <2>1, SameCount
  <2>3. TypeOK'
    BY <1>5, <2>2
       DEF Opened, signerVars, TypeOK, Lifecycle, Lives, Stages, Outcomes
  <2>4. Lifecycle'
    BY <1>5 DEF Opened, signerVars, TypeOK, Lifecycle, Begun, Tracked, Requests
  <2> QED
    BY <2>2, <2>3, <2>4 DEF CountInv
<1>6. ASSUME NEW r \in Requests, BeginPlain(r)
      PROVE  CountInv'
  <2>1. PICK silent \in BOOLEAN :
          /\ r \notin Tracked => silent
          /\ pendingRequestCount' = pendingRequestCount + (IF silent THEN 0 ELSE 1)
          /\ settled' = [settled EXCEPT ![r] = silent]
    BY <1>6, RequestsAssumption DEF BeginPlain, Tracked
  <2>2. PendingCountExact' /\ pendingRequestCount' \in Nat
    <3>1. r \notin Counted /\ stage'[r] \in {"posted", "refused"}
      BY <1>6 DEF BeginPlain, Transmit, Counted, TypeOK
    <3>2. \A q \in Requests : q # r => stage'[q] = stage[q] /\ settled'[q] = settled[q]
      BY <1>6, <2>1 DEF BeginPlain, Transmit, TypeOK
    <3>3. CASE ~silent
      <4>1. r \in Tracked
        BY <2>1, <3>3
      <4>2. Counted' = Counted \cup {r}
        BY <2>1, <3>1, <3>2, <3>3, <4>1 DEF Counted, TypeOK, Tracked, Requests
      <4>3. pendingRequestCount' = pendingRequestCount + 1
        BY <2>1, <3>3
      <4> QED
        BY <3>1, <4>1, <4>2, <4>3, CountsOne
    <3>4. CASE silent
      <4>1. Counted' = Counted
        BY <2>1, <3>1, <3>2, <3>4 DEF Counted, TypeOK, Tracked, Requests
      <4>2. pendingRequestCount' = pendingRequestCount
        BY <2>1, <3>4 DEF TypeOK
      <4> QED
        BY <4>1, <4>2, SameCount
    <3> QED
      BY <3>3, <3>4
  <2>3. TypeOK'
    BY <1>6, <2>1, <2>2
       DEF BeginPlain, Transmit, signerVars, TypeOK, Lifecycle, Lives, Stages,
           Outcomes
  <2>4. Lifecycle'
    BY <1>6, <2>1, RequestsAssumption
      DEF BeginPlain, Transmit, signerVars, TypeOK, Lifecycle, Begun, Requests
  <2> QED
    BY <2>2, <2>3, <2>4 DEF CountInv
<1>7. ASSUME NEW r \in Requests, TransformFails(r)
      PROVE  CountInv'
  <2>1. Counted' = Counted /\ pendingRequestCount' = pendingRequestCount
    BY <1>7 DEF TransformFails, signerVars, Counted, Lifecycle, TypeOK
  <2>2. PendingCountExact' /\ pendingRequestCount' \in Nat
    BY <2>1, SameCount
  <2>3. TypeOK'
    BY <1>7, <2>2
       DEF TransformFails, signerVars, TypeOK, Lifecycle, Lives, Stages,
           Outcomes
  <2>4. Lifecycle'
    BY <1>7
       DEF TransformFails, signerVars, TypeOK, Lifecycle, Begun, Tracked,
           Requests
  <2> QED
    BY <2>2, <2>3, <2>4 DEF CountInv
<1>8. ASSUME NEW r \in Requests, BeginPromised(r)
      PROVE  CountInv'
  <2>1. PendingCountExact' /\ pendingRequestCount' \in Nat
    <3>1. CASE r \in Tracked
      <4>1. r \notin Counted
        BY <1>8 DEF BeginPromised, signerVars, Counted
      <4>2. Counted' = Counted \cup {r}
        BY <1>8, <3>1
           DEF BeginPromised, Counted, Lifecycle, TypeOK, Tracked, Requests
      <4>3. pendingRequestCount' = pendingRequestCount + 1
        BY <1>8, <3>1 DEF BeginPromised, signerVars
      <4> QED
        BY <3>1, <4>1, <4>2, <4>3, CountsOne
    <3>2. CASE r \notin Tracked
      <4>1. Counted' = Counted /\ pendingRequestCount' = pendingRequestCount
        BY <1>8, <3>2 DEF BeginPromised, signerVars, Counted, TypeOK, Tracked
      <4> QED
        BY <4>1, SameCount
    <3> QED
      BY <3>1, <3>2
  <2>2. TypeOK'
    BY <1>8, <2>1
       DEF BeginPromised, signerVars, TypeOK, Lifecycle, Lives, Stages,
           Outcomes
  <2>3. Lifecycle'
    BY <1>8, RequestsAssumption
      DEF BeginPromised, signerVars, TypeOK, Lifecycle, Begun, Requests
  <2> QED
    BY <2>1, <2>2, <2>3 DEF CountInv
<1>9. ASSUME NEW r \in Requests, ResolveInput(r)
      PROVE  CountInv'
  <2>1. PendingCountExact' /\ pendingRequestCount' \in Nat
    <3>1. CASE UNCHANGED <<settled, pendingRequestCount>>
      <4>1. Counted' = Counted
        BY <1>9, <3>1
           DEF ResolveInput, Transmit, Counted, TypeOK, Tracked, Requests
      <4> QED
        BY <3>1, <4>1, SameCount
    <3>2. CASE Settle({r})
      <4>1. /\ stage[r] \in Begun
            /\ \A q \in Requests : q \notin {r} => stage'[q] = stage[q]
        BY <1>9 DEF ResolveInput, Transmit, signerVars, TypeOK, Begun
      <4> QED
        BY <3>2, <4>1, SettleCounts
    <3> QED
      BY <1>9, <3>1, <3>2 DEF ResolveInput
  <2>2. TypeOK'
    <3>1. settled' \in [Requests -> BOOLEAN]
      BY <1>9 DEF ResolveInput, Settle, TypeOK
    <3>2. stage' \in [Requests -> Stages] /\ inbox' \subseteq Requests
      BY <1>9 DEF ResolveInput, Transmit, TypeOK, Stages
    <3> QED
      BY <1>9, <2>1, <3>1, <3>2 DEF ResolveInput, signerVars, TypeOK
  <2>3. Lifecycle'
    BY <1>9
       DEF ResolveInput, Transmit, signerVars, Settle, TypeOK, Lifecycle,
           Begun, Tracked, Requests
  <2> QED
    BY <2>1, <2>2, <2>3 DEF CountInv
<1>10. ASSUME NEW r \in Requests, InputFails(r)
      PROVE  CountInv'
  <2>1. Counted' = Counted /\ pendingRequestCount' = pendingRequestCount
    BY <1>10 DEF InputFails, signerVars, endVars, Counted, Lifecycle, TypeOK
  <2>2. PendingCountExact' /\ pendingRequestCount' \in Nat
    BY <2>1, SameCount
  <2>3. TypeOK'
    BY <1>10, <2>2
       DEF InputFails, signerVars, endVars, TypeOK, Lifecycle, Lives, Stages,
           Outcomes
  <2>4. Lifecycle'
    BY <1>10
       DEF InputFails, signerVars, endVars, TypeOK, Lifecycle, Begun, Tracked,
           Requests
  <2> QED
    BY <2>2, <2>3, <2>4 DEF CountInv
<1>11. ASSUME NEW r \in Requests, SendFails(r)
      PROVE  CountInv'
  <2>1. Counted' = Counted /\ pendingRequestCount' = pendingRequestCount
    BY <1>11 DEF SendFails, signerVars, endVars, Counted, Lifecycle, TypeOK
  <2>2. PendingCountExact' /\ pendingRequestCount' \in Nat
    BY <2>1, SameCount
  <2>3. TypeOK'
    BY <1>11, <2>2
       DEF SendFails, signerVars, endVars, TypeOK, Lifecycle, Lives, Stages,
           Outcomes
  <2>4. Lifecycle'
    BY <1>11
       DEF SendFails, signerVars, endVars, TypeOK, Lifecycle, Begun, Tracked,
           Requests
  <2> QED
    BY <2>2, <2>3, <2>4 DEF CountInv
<1>12. ASSUME NEW r \in Requests, Fail(r)
      PROVE  CountInv'
  <2>1. PendingCountExact' /\ pendingRequestCount' \in Nat
    <3>1. Settle({r}) /\ stage[r] \in Begun
      BY <1>12 DEF Fail, signerVars, Begun
    <3>2. \A q \in Requests : q \notin {r} => stage'[q] = stage[q]
      BY <1>12 DEF Fail, signerVars, TypeOK
    <3> QED
      BY <3>1, <3>2, SettleCounts
  <2>2. TypeOK'
    BY <1>12, <2>1
       DEF Fail, signerVars, Settle, TypeOK, Lifecycle, Lives, Stages, Outcomes
  <2>3. Lifecycle'
    BY <1>12
       DEF Fail, signerVars, Settle, TypeOK, Lifecycle, Begun, Tracked,
           Requests
  <2> QED
    BY <2>1, <2>2, <2>3 DEF CountInv
<1>13. ASSUME NEW r \in Requests, Respond(r)
      PROVE  CountInv'
  <2>1. PendingCountExact' /\ pendingRequestCount' \in Nat
    <3>1. Settle({r}) /\ stage[r] \in Begun
      BY <1>13 DEF Respond, callVars, Begun
    <3>2. \A q \in Requests : q \notin {r} => stage'[q] = stage[q]
      BY <1>13 DEF Respond, callVars, TypeOK
    <3> QED
      BY <3>1, <3>2, SettleCounts
  <2>2. TypeOK'
    BY <1>13, <2>1
       DEF Respond, callVars, Settle, TypeOK, Lifecycle, Lives, Stages,
           Outcomes
  <2>3. Lifecycle'
    BY <1>13
       DEF Respond, callVars, Settle, TypeOK, Lifecycle, Begun, Tracked,
           Requests
  <2> QED
    BY <2>1, <2>2, <2>3 DEF CountInv
<1>14. ASSUME NEW t \in Requests, TimerFires(t)
       PROVE  CountInv'
  <2>1. chan[t] \in Requests
    BY <1>14 DEF TimerFires, Lifecycle
  <2>2. CASE Close(chan[t])
    BY <1>14, <2>1, <2>2, CloseKeepsCount DEF TimerFires
  <2>3. CASE UNCHANGED <<live, endVars>>
    <3>1. Counted' = Counted /\ pendingRequestCount' = pendingRequestCount
      BY <1>14, <2>3 DEF TimerFires, Counted, callVars, endVars
    <3>2. PendingCountExact' /\ pendingRequestCount' \in Nat
      BY <3>1, SameCount
    <3>3. TypeOK' /\ Lifecycle'
      BY <1>14, <2>3, <3>2 DEF TimerFires, TypeOK, Lifecycle, callVars, endVars
    <3> QED
      BY <3>2, <3>3
  <2> QED
    BY <1>14, <2>2, <2>3 DEF TimerFires
<1>15. ASSUME CloseChannel
       PROVE  CountInv'
  <2>1. channel \in Requests /\ Close(channel)
    BY <1>15 DEF CloseChannel, TypeOK
  <2> QED
    BY <1>15, <2>1, CloseKeepsCount DEF CloseChannel, signerVars
<1>16. ASSUME NEW c \in Requests, Disconnected(c)
       PROVE  CountInv'
  <2>1. Close(c)
    BY <1>16 DEF Disconnected, Close
  <2> QED
    BY <1>16, <2>1, CloseKeepsCount DEF Disconnected, signerVars
<1>17. ASSUME NEW c \in Requests, Shut(c)
       PROVE  CountInv'
  <2>1. Close(c)
    BY <1>17 DEF Shut, Close, endVars
  <2> QED
    BY <1>17, <2>1, CloseKeepsCount DEF Shut, signerVars
<1>18. ASSUME NEW value \in BOOLEAN, SetAutoClose(value)
       PROVE  CountInv'
  <2>1. Counted' = Counted /\ pendingRequestCount' = pendingRequestCount
    BY <1>18 DEF SetAutoClose, Counted, callVars, endVars
  <2>2. PendingCountExact' /\ pendingRequestCount' \in Nat
    BY <2>1, SameCount
  <2>3. TypeOK' /\ Lifecycle'
    BY <1>18, <2>2 DEF SetAutoClose, TypeOK, Lifecycle, callVars, endVars
  <2> QED
    BY <2>2, <2>3
<1>19. CASE UNCHANGED vars
  <2>1. Counted' = Counted /\ pendingRequestCount' = pendingRequestCount
    BY <1>19 DEF Counted, vars, callVars, endVars
  <2>2. PendingCountExact' /\ pendingRequestCount' \in Nat
    BY <2>1, SameCount
  <2>3. TypeOK' /\ Lifecycle'
    BY <1>19, <2>2 DEF TypeOK, Lifecycle, vars, signerVars, callVars, endVars
  <2> QED
    BY <2>2, <2>3
<1> QED
  BY <1>1, <1>2, <1>3, <1>4, <1>5, <1>6, <1>7, <1>8, <1>9, <1>10, <1>11,
     <1>12, <1>13, <1>14, <1>15, <1>16, <1>17, <1>18, <1>19 DEF Next

\* The invariant holds initially.
LEMMA CountInvInit == Init => CountInv
<1> SUFFICES ASSUME Init
             PROVE  CountInv
  OBVIOUS
<1>1. TypeOK /\ Lifecycle
  BY DEF Init, TypeOK, Lifecycle, Begun, Stages, Outcomes, Lives
<1>2. Counted = {}
  BY DEF Init, Counted, Tracked, Requests
<1>3. PendingCountExact
  BY <1>2, FS_EmptySet DEF Init, PendingCountExact
<1> QED
  BY <1>1, <1>3 DEF CountInv

-----------------------------------------------------------------------------
\* The variables of the signer keep their types; in particular the counter
\* #pendingRequestCount never becomes negative.
THEOREM TypeCorrect == Spec => []TypeOK
<1>1. CountInv => TypeOK
  BY DEF CountInv
<1> QED
  BY CountInvInit, CountInvStep, <1>1, PTL DEF Spec

\* #pendingRequestCount (signer.ts, sendRequest) is the number of tracked
\* calls that have begun and not settled, however they settle.
THEOREM CountIsExact == Spec => []PendingCountExact
<1>1. CountInv => PendingCountExact
  BY DEF CountInv
<1> QED
  BY CountInvInit, CountInvStep, <1>1, PTL DEF Spec
=============================================================================
