----------------------------- MODULE Heartbeat ------------------------------
(***************************************************************************)
(* The heartbeat of the window transport: HeartbeatClient on the page of   *)
(* the relying party, HeartbeatServer in the signer window, and the        *)
(* messages between the two windows.                                       *)
(*                                                                         *)
(* Time is discrete and a timer holds the ticks it has left.  A timer that *)
(* is due fires before time goes on, in any order with the other events of *)
(* the tick; a message is delivered within Delay ticks.  The ids of status *)
(* requests are drawn from those that nothing refers to any more.          *)
(***************************************************************************)
EXTENDS Naturals, Sequences, FiniteSets, SequencesExt

CONSTANTS
  PollingRate,        \* statusPollingRate
  EstablishTimeout,   \* establishTimeout, of both sides
  DisconnectTimeout,  \* disconnectTimeout of the client
  PendingTimeout,     \* pendingTimeout of the client
  ServerTimeout,      \* disconnectTimeout of the server
  Delay,              \* the ticks a message may take
  WakesUp,            \* is allowedOrigin known to the server?
  Faults,             \* what may happen to the signer window
  MaxEvents,          \* bound: faults and changes of the signer's status
  MaxIds              \* bound: status requests remembered at a time

ASSUME TimesAssumption ==
  /\ PollingRate \in Nat \ {0} /\ EstablishTimeout \in Nat \ {0}
  /\ DisconnectTimeout \in Nat \ {0} /\ PendingTimeout \in Nat
  /\ PendingTimeout >= DisconnectTimeout
  /\ ServerTimeout \in Nat \ {0} /\ Delay \in Nat

ASSUME BoundsAssumption ==
  /\ WakesUp \in BOOLEAN /\ Faults \subseteq {"reload", "close"}
  /\ MaxEvents \in Nat /\ MaxIds \in Nat \ {0}

VARIABLES
  phase,            \* which listener the client has installed
  status,           \* #status of the client
  pending,          \* the ids waiting for a response, with their age
  establishTimer,   \* `timeout` of #establish
  interval,         \* `interval` of #establish
  disconnectTimer,  \* `timeout` of #maintain
  polls,            \* the status requests scheduled, by the ticks they have left
  requests,         \* messages on their way to the signer window
  responses,        \* messages on their way back
  server,           \* which listener the server has installed
  answer,           \* #options.status of the server
  serverTimer,      \* the one timer the server has armed
  events,           \* how often something happened to the signer window
  up                \* ticks since the signer's page last started

clientVars == <<phase, status, pending, establishTimer, interval, disconnectTimer>>
serverVars == <<server, answer, serverTimer>>
vars == <<clientVars, polls, requests, responses, serverVars, events, up>>

Statuses == {"pending", "ready"}
Ids      == 1..MaxIds
WakeUp   == 0    \* the id of the response that answers nothing

TypeOK ==
  /\ phase \in {"establishing", "maintaining", "timedOut", "disconnected"}
  /\ status \in Statuses \cup {"unknown"}
  /\ pending \in SUBSET [id: Ids, age: 0..(DisconnectTimeout + 1)]
  /\ establishTimer \in 0..EstablishTimeout
  /\ interval \in 0..PollingRate
  /\ disconnectTimer \in 0..PendingTimeout
  /\ polls \in [0..PollingRate -> Nat]
  /\ requests \in Seq([id: Ids, age: 0..Delay])
  /\ responses \in Seq([id: Ids \cup {WakeUp}, result: Statuses, age: 0..Delay])
  /\ server \in {"loading", "establishing", "maintaining",
                 "timedOut", "disconnected", "closed"}
  /\ answer \in Statuses
  /\ serverTimer \in 0..EstablishTimeout \cup 0..ServerTimeout
  /\ events \in 0..MaxEvents
  /\ up \in 0..DisconnectTimeout

\* The window has been opened, the page of the signer is loading.
Init ==
  /\ phase = "establishing" /\ status = "unknown" /\ pending = {}
  /\ establishTimer = EstablishTimeout /\ interval = PollingRate
  /\ disconnectTimer = 0
  /\ polls = [t \in 0..PollingRate |-> 0]
  /\ requests = <<>> /\ responses = <<>>
  /\ server = "loading" /\ answer \in Statuses /\ serverTimer = 0
  /\ events = 0 /\ up = 0

-----------------------------------------------------------------------------
(***************************************************************************)
(* The client                                                              *)
(***************************************************************************)

UsedIds == {e.id : e \in pending} \cup {m.id : m \in ToSet(requests)}
                                  \cup {m.id : m \in ToSet(responses)}

\* randomUUID(): an id that nothing refers to, the least one.
Fresh(id) == id \in Ids \ UsedIds /\ \A i \in Ids \ UsedIds : id <= i

Entry(id) == [id |-> id, age |-> 0]

\* Status request id is posted to the signer window.
Post(id) == requests' = Append(requests, [id |-> id, age |-> 0])

\* create() of #maintain filters the ids it remembers before it adds one: it
\* keeps those that were sent before the disconnect window.
Remembered == {e \in pending : e.age > DisconnectTimeout}

\* A mutant: a response does not lead to another request.
SchedulesNothing == UNCHANGED polls

\* Another request is sent PollingRate ticks from now.
SchedulePoll == polls' = [polls EXCEPT ![PollingRate] = @ + 1]

\* A mutant: one timeout is added to the other.
BothTimeouts(s) == PendingTimeout + DisconnectTimeout

\* The timer of #maintain, when the signer last said that it is s.
TimeoutFor(s) == IF s = "pending" THEN PendingTimeout ELSE DisconnectTimeout

\* The interval of #establish sends a request.
EstablishPoll ==
  /\ phase = "establishing" /\ interval = 0
  /\ interval' = PollingRate
  /\ \E id \in Ids : Fresh(id) /\ Post(id) /\ pending' = pending \cup {Entry(id)}
  /\ UNCHANGED <<phase, status, establishTimer, disconnectTimer, polls,
                 responses, serverVars, events, up>>

\* The window is gone, with the messages that were posted to it.
WindowCloses == server' = "closed" /\ requests' = <<>>
WindowStays  == server' = server /\ requests' = requests

\* onEstablishTimeout: the handshake took too long.  Whoever is called back
\* may close the window.
EstablishTimesOut ==
  /\ phase = "establishing" /\ establishTimer = 0
  /\ phase' = "timedOut"
  /\ WindowCloses \/ WindowStays
  /\ UNCHANGED <<status, pending, establishTimer, interval, disconnectTimer,
                 polls, responses, answer, serverTimer, events, up>>

Awaited(m) == \E e \in pending : e.id = m.id

\* The first response to an id of #establish: onEstablish, and #maintain sends
\* its first request with a list of ids of its own.
Establish ==
  /\ responses # <<>>
  /\ phase = "establishing" /\ Awaited(Head(responses))
  /\ responses' = Tail(responses)
  /\ phase' = "maintaining"
  /\ status' = Head(responses).result
  /\ disconnectTimer' = TimeoutFor(Head(responses).result)
  /\ \E id \in Ids : Fresh(id) /\ Post(id) /\ pending' = {Entry(id)}
  /\ UNCHANGED <<establishTimer, interval, polls, serverVars, events, up>>

\* A mutant: the listener of #maintain is never removed.
ListensForEver == phase \in {"maintaining", "disconnected"}

\* The listener of #maintain is installed.
Listening == phase = "maintaining"

\* A mutant: a signer that was ready once is taken to be ready.
RemainsReady(result) == status' = IF status = "ready" THEN status ELSE result

\* onStatusChange, if the status is another one.
Learn(result) == status' = result

\* Nobody listens to this response: it answers no id of #establish, or the
\* client has given up.
Ignore ==
  /\ responses # <<>>
  /\ ~Listening
  /\ phase = "establishing" => ~Awaited(Head(responses))
  /\ responses' = Tail(responses)
  /\ UNCHANGED <<clientVars, polls, requests, serverVars, events, up>>

\* The listener of #maintain: a response to an id it remembers resets the
\* timer, and every response schedules a request.
Receive ==
  /\ responses # <<>>
  /\ Listening
  /\ LET m == Head(responses) IN
     IF Awaited(m)
       THEN /\ pending' = {e \in pending : e.id # m.id}
            /\ disconnectTimer' = TimeoutFor(m.result)
            /\ Learn(m.result)
       ELSE UNCHANGED <<pending, disconnectTimer, status>>
  /\ SchedulePoll
  /\ responses' = Tail(responses)
  /\ UNCHANGED <<phase, establishTimer, interval, requests, serverVars, events, up>>

\* A scheduled request is sent.
Poll ==
  /\ polls[0] > 0
  /\ polls' = [polls EXCEPT ![0] = @ - 1]
  /\ \E id \in Ids : Fresh(id) /\ Post(id) /\ pending' = Remembered \cup {Entry(id)}
  /\ UNCHANGED <<phase, status, establishTimer, interval, disconnectTimer,
                 responses, serverVars, events, up>>

\* onDisconnect: the listener is removed, what is scheduled is still sent.
Disconnect ==
  /\ phase = "maintaining" /\ disconnectTimer = 0
  /\ phase' = "disconnected"
  /\ WindowCloses \/ WindowStays
  /\ UNCHANGED <<status, pending, establishTimer, interval, disconnectTimer,
                 polls, responses, answer, serverTimer, events, up>>

-----------------------------------------------------------------------------
(***************************************************************************)
(* The server                                                              *)
(***************************************************************************)

Response(id) == [id |-> id, result |-> answer, age |-> 0]

\* The page of the signer constructs its HeartbeatServer, which wakes up the
\* client if it knows whose window opened it.
ServerStarts ==
  /\ server = "loading"
  /\ server' = "establishing"
  /\ serverTimer' = EstablishTimeout
  /\ responses' = IF WakesUp THEN Append(responses, Response(WakeUp)) ELSE responses
  /\ up' = 0
  /\ UNCHANGED <<clientVars, polls, requests, answer, events>>

\* A status request: the first one establishes, each one resets the timer and
\* is answered.
ServerReceives ==
  /\ requests # <<>>
  /\ requests' = Tail(requests)
  /\ IF server \in {"establishing", "maintaining"}
       THEN /\ server' = "maintaining"
            /\ serverTimer' = ServerTimeout
            /\ responses' = Append(responses, Response(Head(requests).id))
       ELSE UNCHANGED <<server, serverTimer, responses>>
  /\ UNCHANGED <<clientVars, polls, answer, events, up>>

\* onEstablishTimeout and onDisconnect of the server.
ServerTimesOut ==
  /\ server \in {"establishing", "maintaining"} /\ serverTimer = 0
  /\ server' = IF server = "establishing" THEN "timedOut" ELSE "disconnected"
  /\ UNCHANGED <<clientVars, polls, requests, responses, answer, serverTimer,
                 events, up>>

Happens == events < MaxEvents /\ events' = events + 1

\* changeStatus(): the signer becomes ready, or pending again.
ChangeStatus ==
  /\ Happens
  /\ server \in {"establishing", "maintaining"}
  /\ answer' = IF answer = "ready" THEN "pending" ELSE "ready"
  /\ UNCHANGED <<clientVars, polls, requests, responses, server, serverTimer, up>>

\* The signer navigates or reloads: its page is gone, with the messages that
\* were posted to it, and loads anew.
Reload ==
  /\ Happens /\ "reload" \in Faults
  /\ server \notin {"loading", "closed"}
  /\ server' = "loading"
  /\ requests' = <<>>
  /\ UNCHANGED <<clientVars, polls, responses, answer, serverTimer, up>>

\* The user closes the signer window.
CloseWindow ==
  /\ Happens /\ "close" \in Faults
  /\ server # "closed"
  /\ WindowCloses
  /\ UNCHANGED <<clientVars, polls, responses, answer, serverTimer, up>>

-----------------------------------------------------------------------------
Down(t) == IF t = 0 THEN 0 ELSE t - 1

Older(s) == [k \in DOMAIN s |-> [s[k] EXCEPT !.age = @ + 1]]

\* Nothing is due any more at this time.
NothingDue ==
  /\ phase = "establishing" => establishTimer > 0 /\ interval > 0
  /\ phase = "maintaining" => disconnectTimer > 0
  /\ polls[0] = 0
  /\ server \in {"establishing", "maintaining"} => serverTimer > 0
  /\ \A m \in ToSet(requests) \cup ToSet(responses) : m.age < Delay

Tick ==
  /\ NothingDue
  /\ establishTimer' = Down(establishTimer)
  /\ interval' = Down(interval)
  /\ disconnectTimer' = Down(disconnectTimer)
  /\ serverTimer' = Down(serverTimer)
  /\ polls' = [t \in 0..PollingRate |-> IF t < PollingRate THEN polls[t + 1] ELSE 0]
  /\ pending' = {[e EXCEPT !.age = IF @ > DisconnectTimeout THEN @ ELSE @ + 1] : e \in pending}
  /\ requests' = Older(requests)
  /\ responses' = Older(responses)
  /\ up' = IF up < DisconnectTimeout THEN up + 1 ELSE up
  /\ UNCHANGED <<phase, status, server, answer, events>>

Client == \/ EstablishPoll \/ EstablishTimesOut \/ Establish \/ Ignore
          \/ Receive \/ Poll \/ Disconnect

Server == ServerStarts \/ ServerReceives \/ ServerTimesOut

Next == Client \/ Server \/ ChangeStatus \/ Reload \/ CloseWindow \/ Tick

Spec == Init /\ [][Next]_vars

\* Both pages run their tasks, and time goes on.
Fairness == WF_vars(Client) /\ WF_vars(Server) /\ WF_vars(Tick)

FairSpec == Spec /\ Fairness

-----------------------------------------------------------------------------
(***************************************************************************)
(* Properties                                                              *)
(***************************************************************************)

\* A signer that answers is not given up: the client never disconnects from a
\* server that has been running for DisconnectTimeout.
KeepsLiveSigner ==
  [][phase' = "disconnected" /\ phase # phase'
       => server \notin {"establishing", "maintaining"} \/ up < DisconnectTimeout]_vars

\* Neither side stays connected to a side that has given up or gone: both
\* notice, or the signer's page is loaded once more.
BothNotice ==
  /\ (server \in {"timedOut", "disconnected", "closed"}
        ~> \/ phase \in {"timedOut", "disconnected"}
           \/ server \in {"loading", "establishing", "maintaining"})
  /\ (phase \in {"timedOut", "disconnected"} ~> server # "maintaining")

\* While the two sides are connected, the status that the client acts on
\* catches up with the one the signer has.
StatusConverges ==
  []<>(phase # "maintaining" \/ server # "maintaining" \/ status = answer)
=============================================================================
