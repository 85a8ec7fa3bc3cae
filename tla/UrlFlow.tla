------------------------------ MODULE UrlFlow -------------------------------
(***************************************************************************)
(* The redirect transport: src/web/urlFlow.ts with the sends of            *)
(* urlChannel.ts and the loads of the page around it.                      *)
(*                                                                         *)
(* The calling code is a program: a set of steps, each of them a memoize   *)
(* or a request, issued once the steps it comes `after` have their values; *)
(* steps that come after the same ones are issued in one turn.  It runs    *)
(* from its start on every load of the page.  A memoize takes the next     *)
(* call-order slot when it is issued.  A request is made through a Signer  *)
(* (signer.ts): sendRequest awaits the channel first, so the request takes *)
(* its slot some microtasks after the call.  The journal keeps, for each   *)
(* slot, the value of the step that held it.                               *)
(*                                                                         *)
(* A value is a pair <<step, n>>: a producer makes <<i, n>> on its n-th    *)
(* run, and the request of step i carrying the value <<m, n>> of a memoize *)
(* step has the content <<i, n>>, which is also the content of its answer: *)
(* the signer answers what it was asked.                                   *)
(***************************************************************************)
EXTENDS Naturals, Sequences, FiniteSets

CONSTANTS
  Steps,        \* 1..n, in the order the code issues those that are ready
  Programs,     \* the calling codes: for each step its kind, what it comes
                \* after, and whose value it uses
  Urls,         \* what `url` the transport may be constructed with
  FlowTimeout,  \* options.flowTimeout
  Faults,       \* the things that may go wrong
  MaxLoads,     \* bound: loads of the page
  MaxTime,      \* bound: the clock
  None          \* `undefined`

Kinds == {"sync", "async", "plain", "promised"}

ASSUME ProgramAssumption ==
  /\ IsFiniteSet(Steps) /\ Steps # {} /\ Steps = 1..Cardinality(Steps)
  /\ Programs \subseteq [Steps -> [kind: Kinds, after: SUBSET Steps,
                                   uses: Steps \cup {None}]]
  /\ \A p \in Programs, i \in Steps :
       /\ \A j \in p[i].after : j < i
       /\ p[i].uses # None => p[p[i].uses].kind \in {"sync", "async"}
       /\ p[i].kind = "plain" /\ p[i].uses # None => p[i].uses \in p[i].after

ASSUME BoundsAssumption ==
  /\ FlowTimeout \in Nat /\ MaxLoads \in Nat \ {0} /\ MaxTime \in Nat
  /\ Faults \subseteq {"visit", "stale", "partial", "producer"}
  /\ Urls # {}

VARIABLES
  program,     \* the calling code, the same on every load
  stored,      \* the StoredFlow under storageKey: a journal and `pending`
  journal,     \* #createdAt, #url, #results, #asyncSlots and #requestKeys
  index,       \* #index: the slots taken on this load
  buffer,      \* #buffer
  inFlight,    \* #inFlight
  calls,       \* the calls of sendRequest that still await the channel
  flushTimer,  \* is #flushTimer armed?
  navigated,   \* #navigated
  slot,        \* the slot each step took on this load
  status,      \* where each step is on this load
  value,       \* what each step resolved to on this load
  navs,        \* the navigations to the signer so far
  now,         \* the clock
  loads,       \* the loads of the page so far
  runs,        \* how often each producer has run
  given        \* what each step of each flow was last resolved to

pageVars == <<index, buffer, inFlight, flushTimer, navigated, calls>>
stepVars == <<slot, status, value, given>>
vars     == <<program, stored, journal, pageVars, stepVars, navs, now, loads, runs>>

Slots    == Steps
Statuses == {"new", "running", "resolving", "sent", "done", "failed", "diverged"}
Values   == Steps \X Nat
Batches  == SUBSET [index: Slots, id: Steps, key: Values]
Journals == [flow: 1..MaxLoads, createdAt: Nat \cup {None}, url: Urls,
             results: [Slots -> Values \cup {None}], asyncSlots: SUBSET Slots,
             requestKeys: [Slots -> Values \cup {None}]]
Pendings == [state: Nat, requests: Batches]
Flows    == [journal: Journals, pending: Pendings \cup {None}]
Navs     == [flow: 1..MaxLoads, url: Urls, batch: Batches]

ASSUME NoneAssumption ==
  None \notin Nat /\ None \notin Values /\ None \notin Pendings /\ None \notin Flows

TypeOK ==
  /\ program \in Programs
  /\ stored \in Flows \cup {None}
  /\ journal \in Journals
  /\ index \in 0..Cardinality(Steps)
  /\ buffer \in Batches
  /\ inFlight \in Nat
  /\ calls \in SUBSET Steps
  /\ flushTimer \in BOOLEAN /\ navigated \in BOOLEAN
  /\ slot \in [Steps -> Slots \cup {None}]
  /\ status \in [Steps -> Statuses]
  /\ value \in [Steps -> Values \cup {None}]
  /\ navs \in Seq(Navs)
  /\ now \in 0..MaxTime /\ loads \in 1..MaxLoads
  /\ runs \in [Steps -> Nat]
  /\ given \in [1..MaxLoads -> [Steps -> Values \cup {None}]]

\* The journal of a load that is not a signer return.
FreshJournal(f, u) ==
  [flow |-> f, createdAt |-> None, url |-> u,
   results |-> [s \in Slots |-> None], asyncSlots |-> {},
   requestKeys |-> [s \in Slots |-> None]]

Init ==
  /\ program \in Programs
  /\ stored = None
  /\ \E u \in Urls : journal = FreshJournal(1, u)
  /\ index = 0 /\ buffer = {} /\ inFlight = 0 /\ calls = {}
  /\ flushTimer = FALSE /\ navigated = FALSE
  /\ slot = [i \in Steps |-> None]
  /\ status = [i \in Steps |-> "new"]
  /\ value = [i \in Steps |-> None]
  /\ navs = <<>>
  /\ now = 0 /\ loads = 1
  /\ runs = [i \in Steps |-> 0]
  /\ given = [f \in 1..MaxLoads |-> [i \in Steps |-> None]]

-----------------------------------------------------------------------------
(***************************************************************************)
(* The calling code and its microtasks                                     *)
(***************************************************************************)

IsMemo(i) == program[i].kind \in {"sync", "async"}

\* A step the code can issue: what it comes after has resolved.
Ready(i) ==
  /\ status[i] = "new" /\ i \notin calls
  /\ \A j \in program[i].after : status[j] = "done"

\* A promised request whose promise has settled.
Settled(i) ==
  /\ status[i] = "resolving"
  /\ program[i].uses # None =>
       status[program[i].uses] \in {"done", "failed", "diverged"}

\* No microtask is queued: the event loop may run a task.
Quiescent == calls = {} /\ \A i \in Steps : ~Ready(i) /\ ~Settled(i)

\* The code issues what is ready in its own order.
Turn(i) == Ready(i) /\ \A j \in Steps : j < i => ~Ready(j)

SameTurn(i, j) == program[i].after = program[j].after

\* The code calls sendRequest, which goes on to await the channel.
Request(i) ==
  /\ Turn(i) /\ ~IsMemo(i)
  /\ calls' = calls \cup {i}
  /\ UNCHANGED <<stored, journal, index, buffer, inFlight, flushTimer,
                 navigated, stepVars, navs, now, loads, runs>>

\* A mutant: a call that waited for the channel to be established goes on after
\* the calls that did not wait.
ArrivesAnyhow(i) == i \in calls

\* Call i has the channel and sends: not before its turn is over, nor before the
\* calls made earlier in its turn.  Calls of other turns, and memoize steps, may
\* come in between.
Arrives(i) ==
  /\ i \in calls
  /\ \A j \in Steps : SameTurn(i, j) => ~Ready(j) /\ (j \in calls => j >= i)

Resolve(i, v) ==
  /\ status' = [status EXCEPT ![i] = "done"]
  /\ value' = [value EXCEPT ![i] = v]
  /\ given' = [given EXCEPT ![journal.flow][i] = v]

Become(i, s) ==
  /\ status' = [status EXCEPT ![i] = s]
  /\ UNCHANGED <<value, given>>

-----------------------------------------------------------------------------
(***************************************************************************)
(* The journal                                                             *)
(***************************************************************************)

\* A mutant: what was pending stays pending until the next redirect.
PersistKeepingPending(j, pending) ==
  LET stamped == [j EXCEPT !.createdAt = IF @ = None THEN now ELSE @] IN
  /\ journal' = stamped
  /\ stored' = [journal |-> stamped,
                pending |-> IF pending = None /\ stored # None
                              THEN stored.pending ELSE pending]

\* #persist(pending), after the journal has become j.
Persist(j, pending) ==
  LET stamped == [j EXCEPT !.createdAt = IF @ = None THEN now ELSE @] IN
  /\ journal' = stamped
  /\ stored' = [journal |-> stamped, pending |-> pending]

\* A mutant: a step whose slot has a result leaves the slot to the next step.
TakeUnlessCached(i) ==
  /\ index' = IF journal.results[index + 1] = None THEN index + 1 ELSE index
  /\ slot' = [slot EXCEPT ![i] = index + 1]

\* Step i takes the next slot: next().
Take(i) ==
  /\ index' = index + 1
  /\ slot' = [slot EXCEPT ![i] = index + 1]

\* A mutant: the journal does not remember which producers are asynchronous.
NoSlotIsAsync(i, s) == journal.asyncSlots

\* The slots of asynchronous producers, with that of step i if it is one.
AsyncSlotsWith(i, s) ==
  IF program[i].kind = "async" THEN journal.asyncSlots \cup {s}
                               ELSE journal.asyncSlots

\* record(value, isAsync): the producer of step i has run, for slot s.
Record(i, s) ==
  LET v == <<i, runs[i] + 1>> IN
  /\ runs' = [runs EXCEPT ![i] = @ + 1]
  /\ Persist([journal EXCEPT
                !.results[s] = v,
                !.asyncSlots = AsyncSlotsWith(i, s)],
             None)
  /\ Resolve(i, v)

-----------------------------------------------------------------------------
(***************************************************************************)
(* memoize                                                                 *)
(***************************************************************************)

\* A memoize step whose slot has a value replays it, unless a request held
\* the slot.
Replay(i) ==
  LET s == index + 1 IN
  /\ Turn(i) /\ IsMemo(i)
  /\ journal.results[s] # None
  /\ Take(i)
  /\ IF journal.requestKeys[s] = None
       THEN Resolve(i, journal.results[s])
       ELSE Become(i, "diverged")
  /\ UNCHANGED <<stored, journal, buffer, inFlight, flushTimer, navigated,
                 calls, navs, now, loads, runs>>

\* A synchronous producer runs, is recorded and releases its hold at once.
MemoizeSync(i) ==
  /\ Turn(i) /\ program[i].kind = "sync"
  /\ journal.results[index + 1] = None
  /\ Take(i)
  /\ \/ Record(i, index + 1)
     \/ /\ "producer" \in Faults
        /\ Become(i, "failed")
        /\ UNCHANGED <<stored, journal, runs>>
  /\ flushTimer' = TRUE
  /\ UNCHANGED <<buffer, inFlight, navigated, calls, navs, now, loads>>

\* An asynchronous producer starts; it holds the redirect.
MemoizeAsync(i) ==
  /\ Turn(i) /\ program[i].kind = "async"
  /\ journal.results[index + 1] = None
  /\ Take(i)
  /\ Become(i, "running")
  /\ inFlight' = inFlight + 1
  /\ UNCHANGED <<stored, journal, buffer, flushTimer, navigated, calls, navs,
                 now, loads, runs>>

\* A mutant: the release of a hold does not reschedule the flush.
ReleaseSilently == inFlight' = inFlight - 1 /\ UNCHANGED flushTimer

\* A mutant: a hold is released when its step fails, and then once more.
ReleaseTwice == inFlight' = inFlight - 2 /\ flushTimer' = TRUE

\* release(): the hold of a step ends and the flush is rescheduled.
Release == inFlight' = inFlight - 1 /\ flushTimer' = TRUE

\* An asynchronous producer resolves and is recorded, or rejects.
Produced(i) ==
  /\ status[i] = "running"
  /\ Quiescent
  /\ \/ Record(i, slot[i])
     \/ /\ "producer" \in Faults
        /\ Become(i, "failed")
        /\ UNCHANGED <<stored, journal, runs>>
  /\ Release
  /\ UNCHANGED <<index, buffer, navigated, calls, slot, navs, now, loads>>

-----------------------------------------------------------------------------
(***************************************************************************)
(* send                                                                    *)
(***************************************************************************)

\* The content of the request of step i.
Content(i) ==
  <<i, IF program[i].uses = None THEN 0 ELSE value[program[i].uses][2]>>

\* A mutant: a slot's answer is replayed to whatever request takes the slot.
AnyRequest(i, s) == TRUE

\* Slot s was recorded for a request with the content of step i.
SameRequest(i, s) == journal.requestKeys[s] = Content(i)

\* #sendAt(s, request): a recorded answer is replayed if it answers the same
\* content, and a request without one is buffered for the next redirect.
SendAt(i, s) ==
  \/ /\ journal.results[s] # None
     /\ SameRequest(i, s)
     /\ Resolve(i, journal.results[s])
     /\ UNCHANGED <<journal, buffer>>
  \/ /\ journal.results[s] # None
     /\ ~SameRequest(i, s)
     /\ Become(i, "diverged")
     /\ UNCHANGED <<journal, buffer>>
  \/ /\ journal.results[s] = None
     /\ buffer' = buffer \cup {[index |-> s, id |-> i, key |-> Content(i)]}
     /\ journal' = [journal EXCEPT !.requestKeys[s] = Content(i)]
     /\ Become(i, "sent")

\* send() of a request: the flush is rescheduled only if it was buffered.
Send(i) ==
  /\ Arrives(i) /\ program[i].kind = "plain"
  /\ calls' = calls \ {i}
  /\ Take(i)
  /\ SendAt(i, index + 1)
  /\ flushTimer' = (flushTimer \/ journal.results[index + 1] = None)
  /\ UNCHANGED <<stored, inFlight, navigated, navs, now, loads, runs>>

\* send() of a promised request: it takes its slot and holds the redirect.
SendPromise(i) ==
  /\ Arrives(i) /\ program[i].kind = "promised"
  /\ calls' = calls \ {i}
  /\ Take(i)
  /\ Become(i, "resolving")
  /\ inFlight' = inFlight + 1
  /\ UNCHANGED <<stored, journal, buffer, flushTimer, navigated, navs, now,
                 loads, runs>>

\* The promise settles: the request is sent at the slot it took.
PromiseSettles(i) ==
  /\ Settled(i)
  /\ IF program[i].uses # None /\ status[program[i].uses] # "done"
       THEN Become(i, "failed") /\ UNCHANGED <<journal, buffer>>
       ELSE SendAt(i, slot[i])
  /\ Release
  /\ UNCHANGED <<stored, index, navigated, calls, slot, navs, now, loads, runs>>

-----------------------------------------------------------------------------
(***************************************************************************)
(* The redirect                                                            *)
(***************************************************************************)

\* A mutant: the redirect waits for nothing.
NeverHeld == FALSE

\* A producer is running or a promised request has not settled.
Held == inFlight > 0

\* #flush and #navigate.
Flush ==
  /\ flushTimer /\ Quiescent
  /\ flushTimer' = FALSE
  /\ IF Held \/ buffer = {} \/ navigated
       THEN UNCHANGED <<stored, journal, buffer, navigated, navs>>
       ELSE /\ navigated' = TRUE
            /\ buffer' = {}
            /\ Persist(journal, [state |-> Len(navs) + 1, requests |-> buffer])
            /\ navs' = Append(navs, [flow |-> journal.flow, url |-> journal.url,
                                     batch |-> buffer])
  /\ UNCHANGED <<index, inFlight, calls, stepVars, now, loads, runs>>

\* A mutant: the answers are not matched with the ids of the requests.
AbsorbAnyId(results, requests, answers) ==
  [s \in Slots |->
     IF answers # {} /\ \E q \in requests : q.index = s
       THEN (CHOOSE a \in answers : TRUE).content ELSE results[s]]

\* A mutant: a return replaces the results instead of adding to them.
AbsorbOnly(results, requests, answers) ==
  [s \in Slots |->
     LET matches == {a \in answers :
                       \E q \in requests : q.index = s /\ q.id = a.id}
     IN IF matches = {} THEN None ELSE (CHOOSE a \in matches : TRUE).content]

\* The results with the answers folded in: the batch says which slot awaits
\* the answer to which id.
Absorb(results, requests, answers) ==
  [s \in Slots |->
     LET matches == {a \in answers :
                       \E q \in requests : q.index = s /\ q.id = a.id}
     IN IF matches = {} THEN results[s] ELSE (CHOOSE a \in matches : TRUE).content]

\* A mutant: a return goes on to the url it was constructed with.
OwnTarget(u) == u

\* The redirect target of a return that was constructed with url u: the one
\* captured on the first load of the flow.
Target(u) == stored.journal.url

Expired == stored # None /\ now - stored.journal.createdAt > FlowTimeout

\* A load of the page, constructing the flow: state None is a bare visit, any
\* other state is the one in the fragment, with the signer's answers.
Load(state, answers) ==
  /\ loads < MaxLoads
  /\ loads' = loads + 1
  /\ \E u \in Urls :
       IF state # None /\ stored # None /\ ~Expired
            /\ stored.pending # None /\ stored.pending.state = state
         THEN Persist([stored.journal EXCEPT
                         !.url = Target(u),
                         !.results = Absorb(@, stored.pending.requests, answers)],
                      None)
         ELSE /\ journal' = FreshJournal(loads + 1, u)
              /\ stored' = IF Expired THEN None ELSE stored
  /\ index' = 0 /\ buffer' = {} /\ inFlight' = 0 /\ calls' = {}
  /\ flushTimer' = FALSE /\ navigated' = FALSE
  /\ slot' = [i \in Steps |-> None]
  /\ status' = [i \in Steps |-> "new"]
  /\ value' = [i \in Steps |-> None]
  /\ UNCHANGED <<given, navs, now, runs>>

\* The answers of the signer to a batch.
Answers(batch) == {[id |-> q.id, content |-> q.key] : q \in batch}

\* The signer returns the answers to the k-th navigation: all of them unless
\* "partial"; once and before anything else unless "stale".
Return(k) ==
  /\ k \in 1..Len(navs)
  /\ "stale" \in Faults \/ (k = Len(navs) /\ navigated)
  /\ \E answered \in SUBSET navs[k].batch :
       /\ "partial" \in Faults \/ answered = navs[k].batch
       /\ Load(k, Answers(answered))

\* The user reloads the page, comes back to it, or visits it again.
Visit == "visit" \in Faults /\ Load(None, {})

Tick ==
  /\ now < MaxTime
  /\ now' = now + 1
  /\ UNCHANGED <<stored, journal, pageVars, stepVars, navs, loads, runs>>

-----------------------------------------------------------------------------
Code(i) ==
  \/ Replay(i) \/ MemoizeSync(i) \/ MemoizeAsync(i)
  \/ Send(i) \/ SendPromise(i) \/ PromiseSettles(i)

Next ==
  /\ \/ \E i \in Steps : Request(i) \/ Code(i) \/ Produced(i)
     \/ Flush
     \/ \E k \in 1..MaxLoads : Return(k)
     \/ Visit
     \/ Tick
  /\ UNCHANGED program

Spec == Init /\ [][Next]_vars

\* The page runs its microtasks and timers, a producer settles, and the
\* signer returns.
Fairness ==
  /\ \A i \in Steps : WF_vars(Request(i) /\ UNCHANGED program)
                     /\ WF_vars(Code(i) /\ UNCHANGED program)
                     /\ WF_vars(Produced(i) /\ UNCHANGED program)
  /\ WF_vars(Flush /\ UNCHANGED program)
  /\ \A k \in 1..MaxLoads : WF_vars(Return(k) /\ UNCHANGED program)

FairSpec == Spec /\ Fairness

-----------------------------------------------------------------------------
(***************************************************************************)
(* Properties                                                              *)
(***************************************************************************)

\* Within a flow a step resolves to the same value on every load, however
\* often the page was left and came back: a producer's nonce is not produced
\* anew, and an answer is not replaced by that to a later request.
StableValues ==
  [][\A f \in 1..MaxLoads, i \in Steps :
       given[f][i] # None => given'[f][i] = given[f][i]]_vars

\* The answer a request resolves to is the signer's answer to that very
\* request, carrying the very value the code now holds.  With partial answers a
\* memoize step that takes the slot of an unanswered request would break it: there
\* every memoize step must come before the first request, as in the programs
\* it is checked with, or the slots be taken in a fixed order.
AnswersMatch ==
  \A i \in Steps :
    status[i] = "done" /\ ~IsMemo(i) => value[i] = Content(i)

\* A step awaits at least what the steps before it await: the order in which
\* the calls are made does not depend on how long anything takes.
CalledInOrder == \A i, j \in Steps : i < j => program[i].after \subseteq program[j].after

\* A request, which takes its slot some time after its call, is waited for by
\* the steps that follow, but for the requests that are made in the same turn.
\* (Memoize steps of a turn are numbered before its requests: their slots are.)
RequestsAwaited ==
  \A i, j \in Steps : i < j /\ ~IsMemo(i) =>
    i \in program[j].after \/ (~IsMemo(j) /\ SameTurn(i, j))

\* The order in which the steps take their slots does not depend on how long
\* anything takes.
InFixedOrder == CalledInOrder /\ RequestsAwaited

\* Code whose steps take their slots in a fixed order never diverges on replay.
NeverDiverges == InFixedOrder => \A i \in Steps : status[i] # "diverged"

\* "Issue the same requests in the same order on every load": code that makes
\* its calls in the same order never diverges on replay.
CallOrderReplays == CalledInOrder => \A i \in Steps : status[i] # "diverged"

\* A flow whose steps have all been given their values is over: no return,
\* late or repeated, runs the calling code in it again.
FinishesOnce ==
  [][\A f \in 1..MaxLoads :
       /\ \A i \in Steps : given[f][i] # None
       /\ loads' # loads
       => journal'.flow # f]_vars

\* The page is not left while a producer runs or a request is still resolving.
RedirectWaits ==
  [][navs' # navs => \A i \in Steps : status[i] \notin {"running", "resolving"}]_vars

\* Every redirect of a flow goes to the url its first load was given, though
\* later loads may be constructed with another one.
SameSigner ==
  \A k, m \in DOMAIN navs : navs[k].flow = navs[m].flow => navs[k].url = navs[m].url

\* Requests issued together share one redirect, and an answered request is
\* never sent again in its flow.
OneHopPerStage ==
  \A k, m \in DOMAIN navs :
    k # m /\ navs[k].flow = navs[m].flow =>
      \A p \in navs[k].batch, q \in navs[m].batch :
        program[p.id].after # program[q.id].after

\* A replayed memoize step has the shape its producer had: a promise exactly
\* if it was asynchronous.
ShapeKept ==
  \A i \in Steps :
    status[i] = "done" /\ IsMemo(i) =>
      (slot[i] \in journal.asyncSlots <=> program[i].kind = "async")

\* The code runs to its end, in as many redirects as it needs.
Completes == <>(\A i \in Steps : status[i] = "done")
=============================================================================
