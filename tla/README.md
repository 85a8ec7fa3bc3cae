# Verification of @icp-sdk/signer

TLA+ models of the library in `src/src/`, the TLC runs that check them on small
instances, and TLAPS proofs for every instance. Line numbers refer to the
repository's files under `src/`.

## The system

| Component | State | Operations | What makes it hard |
|---|---|---|---|
| `Signer` (`signer.ts`) | `#channel`, `#establishingChannel`, `#scheduledChannelClosure`, `#pendingRequestCount`, the `settled`, `id` and listeners of each call | `openChannel`, `closeChannel`, `sendRequest`, response and close listeners, the closing timer, `autoCloseTransportChannel` | every call is suspended at two to four awaits, and the calls share the four fields |
| Window transport (`web/postMessageTransport.ts`, `postMessageChannel.ts`) | the signer window, `#closed`, the queue of a pending signer | `establishChannel`, `send`, `close`, `changeStatus` | the window closes without an event; only the heartbeat notices |
| Heartbeat (`web/heartbeat/client.ts`, `server.ts`) | the ids waiting for a response, three timers, `#status` | establish, maintain, on each side | lost messages, late responses, timers against responses |
| URL transport (`web/urlFlow.ts`, `urlChannel.ts`, `urlTransport.ts`) | the journal in storage, the slot counter, the batch, the holds, the flush timer | `memoize`, `send`, flush, redirect, load | the page is lost at every redirect; returns may be stale, repeated or partial |
| Extension transport (`extension/`) | `#closed`, the listeners | `discover`, `send`, `close`, unexpected closing | `closed` is set before `dismiss` completes |
| Delegation validation (`signer.ts:50-152`) | none | `toExpiration`, `assertLeafKey`, `assertTargetScope`, `assertLifetime` | 64-bit bounds, intersections, unscoped hops |
| `SignerAgent` (`agent/agent.ts`) | the queue `#pending`, `#certificates`, the account, a static construction guard | `create`, `call`, `update`, `query`, `readState`, `replaceAccount` | the account and the guard are read on both sides of an await |
| Typed requests (`signer.ts:546-832`) | none | encode, `#rpc`, decode, transforms | none beyond the shape of one message |

A `Signer` asks its transport for a channel, hands requests to it and listens
to its `response` and `close` events. The window channel is created and closed
by the callbacks of a `HeartbeatClient`; the URL channel shares one `UrlFlow`
with the calling code's `memoize` steps; a `SignerAgent` opens the channel
before it queues a call on the `Signer`.

What each component owes its users:

* Signer: a call is answered at most once and only if its request was handed
  over; a closed channel rejects its calls; the pending count is exact; there is
  one channel; it is closed after the last answer and never under a call.
* Heartbeat: a signer that answers is kept, one that is gone is noticed, the
  status converges.
* URL transport: whatever loads happen, code whose steps take their slots in a
  fixed order sees one flow: the same values, its own answers, the same signer, and an end.
* Delegation: an accepted chain grants no more than was asked, and one that
  honours the request is accepted.
* Window channel: what was accepted reaches the signer once and in order, its
  close listeners run once, and a signer that is gone closes it.
* SignerAgent: calls run one at a time, all of them settle, and whatever the signer
  answers, the result of a query was executed for that very query and that of an
  update for its target.

## Modules

| Module | Models |
|---|---|
| `Signer.tla` | `signer.ts:282-544`, with the channels as `Signer` sees them |
| `SignerContract.tla` | what a caller of `sendRequest` may rely on: the abstract specification |
| `MCSigner.tla` | symmetry for the runs of `Signer` |
| `SignerProofs.tla` | type correctness and the exact pending count |
| `SignerChannelProofs.tla` | one channel, safe timers |
| `SignerContractProofs.tla` | nobody stranded, and the refinement of `SignerContract` |
| `UrlFlow.tla` | `web/urlFlow.ts` with the sends of `web/urlChannel.ts` and the loads of the page |
| `MCUrlFlow.tla` | four programs: the calling code |
| `UrlFlowProofs.tla` | the type, `RedirectWaits`, `SameSigner`; for code with a fixed slot order its replay, its answers, its redirects, the values it is given and the end of its flows; for code in any order its answers |
| `Heartbeat.tla` | `web/heartbeat/client.ts` and `server.ts`, and the two windows |
| `WindowChannel.tla` | `web/postMessageTransport.ts` and `web/postMessageChannel.ts` on top of `Heartbeat` |
| `WindowChannelProofs.tla` | the types of both, the order of the requests, and that a signer which answers is kept |
| `SignerAgent.tla` | `agent/agent.ts`: calls, queue, verification, `readState`, `replaceAccount` |
| `MCSignerAgent.tla` | an instance in which all calls have the same target |
| `SignerAgentProofs.tla` | its type and four of its properties |
| `AgentCreation.tla` | the guarded constructor of `SignerAgent`, and a theorem about it |
| `Delegation.tla` | `requestDelegation` and the validation of what it returns (`signer.ts:50-152`, `676-727`) |
| `MCDelegation.tla` | symmetry for the run of `Delegation` |
| `DelegationProofs.tla` | what the loops of the validation compute, and all four properties |

`WindowChannel` extends `Heartbeat`: its actions are those of the heartbeat
together with the callback that each of them runs. `Signer` refines
`SignerContract`, and that contract, each request settles once, is all that
`SignerAgent` assumes of the `Signer` below it.

The operators that start with `A mutant:` in their comment are not part of a
model: each is a wrong version of the definition after it, used to show that a
property notices it.

### Signer

A call of `sendRequest` or `openChannel` is a process and `stage` the await it
is suspended at. One action is what runs between two awaits. A channel is named
by the call whose `openChannel` established it. `Call` is everything up to the
first await (`clearTimeout`, `#establishingChannel`, `#channel`); `Resume` goes
on after `await this.#establishingChannel` and, as the code, does not look at it
again; `Established` and `EstablishFails` are the two ends of
`await channel.catch(...)`. `BeginPlain`, `BeginPromised` and `TransformFails`
are the continuation of `sendRequest` up to `channel.send` (with the fault
`notification` a transform may turn any request into a notification); `ResolveInput`,
`InputFails` and `SendFails` are what happens to the promise given to
`channel.send`, and `Fail` the catch clause around it.

The three channels are one, with the outcomes of all of them as alternatives.
`live` tells a channel that is `shut` (its `closed` getter answers true and its
close listeners have not run: the window was closed by the user, or an extension
is being dismissed) from one that is `closed`. `Close` may do either. A
promised request given to a closed channel is refused at once (extension, URL)
or once it has resolved (window).

`Dispatchable` says when responses and closings reach their listeners. Window
messages, timers and clicks are tasks of their own and run when no continuation
is queued. `UrlChannel` answers from a microtask and an application may close a
channel in a continuation; with `MicroEvents` they may come in between.

`Established` sets `stage` of the caller to `opened` before a waiting call can
resume; microtasks of different calls may otherwise run in any order, a superset
of the real order.

### UrlFlow

The calling code is `program`, one of the constant `Programs`, chosen in the
initial state: its steps with what each of them comes after. Steps that come after
the same ones are issued in one turn. The program runs from its start on every load.

A memoize step takes the next slot on the call (`urlFlow.ts:268`): `Replay`,
`MemoizeSync`, `MemoizeAsync`. A request is made through a `Signer`. `Request` is the
call of `sendRequest`, up to the await of the channel (`signer.ts:376`), and `Send`
and `SendPromise` are what follows when the channel is there (395, 524), some
microtasks later: only then does the request take its slot (`urlChannel.ts:76`).
`Arrives` is when this may be: after the turn of the call, in the order of the calls
of that turn, with any steps of other turns, and their memoize steps in particular,
in between. `calls` are the calls on the way. The real number of microtasks is not
modelled, so what the model lets happen is a superset. Producers settle in a task of
their own (they wait for a server, say), when no microtask is left; one that settles
in a microtask is not modelled. `Produced` and `PromiseSettles` are the continuations
of the program's promises, `Flush` is the macrotask of `#scheduleFlush`, with `#flush` and `#navigate`. `Load` is the constructor.
`Return(k)` comes with the answers to the k-th redirect, in and out of date,
`Visit` without any. A value is the number of its step and a count, so that two
runs of a producer differ and an answer names the request it answers; the
fingerprint of a request is its content. What the callback's storage holds
between two loads is `stored`, everything else is reset.

### Heartbeat

Time is discrete; timers count down and fire before the next `Tick`, in any
order with the messages of the tick. `Delay` bounds the age of a message. `polls`
are the `setTimeout`s of the polling chains. Ids are drawn from those that no
list and no message holds, which is what a random UUID amounts to. `Reload`
loses what was posted to the signer's page; `ServerStarts` constructs a new
`HeartbeatServer`, which sends `wake-up-client` if it knows its opener.

### WindowChannel

`promise` is that of `establishChannel`; `OnEstablish`, `OnEstablishTimeout`,
`OnResponse` and `OnDisconnect` are the steps of the heartbeat that call back,
with what the transport does in the callback: the status is passed to the channel
only if it changed, a disconnected heartbeat closes the channel. `Send` and
`CloseChannel` are the calls of the `Signer` or the application, `IsClosed` the
getter, which also answers true for a window that is gone. The queue, and
`posted`, hold the numbers of the requests in the order in which the channel
accepted them; a promised request is a request sent when it has resolved.
`SignerStatusIs` flushes also after `close()`, as the code does. With `Survives`
the signer's page may refuse to be closed (a `beforeunload` dialog).

### SignerAgent

`stage` is the await at which a call of `#sendAndVerify` is: `opening` is the
await of `openChannel`, `queued` that of the promises before it, `sent` that of
`callCanister`, `verifying` that of `Certificate.create`. `Dispatch` reads the
account when the turn of a call comes, `Verify` once more. The signer answers with
a content map: what it executes now, for this call or another target, account or
nonce, what it had executed before, or what it never executed. It cannot certify
the last, and it does not know the nonce of a query that it was not given (`Known`).
The certificate that comes with an answer need not hold a reply (`replied`): it has
none when the canister rejected the call or trapped, and one that is too old or not
signed by the root key is not valid. `Certify` refuses all of these
(`agent.ts:216-228`; a test exercises the rejected call, `agent.test.ts:303`):
`HoldsReply` is the check. `certificates` are what `readState` hands out. `executed`
and `handed` are history: no guard of the agent reads them but `HoldsReply`, where
`executed` stands for the signature.

`AgentCreation` has the static flag that `create()` and `createSync()` set and the
constructor clears; `Create` ends at the await of `HttpAgent.create()`.

### Delegation

The relying party asks for a key, a scope and a lifetime; the signer answers with
any chain of hops. `ToExpiration`, `LeafKey`, `TargetScope` and `Lifetime` are
the functions of the code, with its loops as folds (`EffectiveScope` is the
variable `effective`, `Both` one turn of its loop); `Receive` is the decode of
the result, which happens once with a window and again on every load with the
URL transport, by the clock of that moment. The properties never look at these
operators: `Reaches` and `Lives` say hop by hop what the Internet Computer lets a
chain do, and `GrantsOnly` compares that with the request, also for a canister
that nobody named. `honest` remembers whether the signer kept to the request by
its own clock, which is up to the skew margin ahead or behind. The clock of the relying
party does not go backwards: `StaysAccepted` would fail for a `Date.now` that is set
back between two loads.

## Runs

| Run | Instance | Shows |
|---|---|---|
| `signer_safety` | one plain request, one notification, one promised request; every fault but a rejected input, which `signer_channel` has; microtask events; 980 000 states | `TypeOK`, `PendingCountExact`, `NobodyStranded`, `ImplementsContract` |
| `signer_channel` | a plain request, a promised one, an `openChannel`; an application that closes and toggles; every fault but a failing establishment; 53 000 states | `SingleChannel`, `TimerSafe`, `EventuallySettles` |
| `signer_two_channels` | three requests, a failing establishment | `SingleChannel` violated |
| `signer_left_open` | two requests, a failing send | `AutoCloses` violated |
| `url_returns` | the nonce flow of the repository's README, and two branches that race for their slots; four loads, two urls, expiry; every fault; 2 380 000 states | `TypeOK`, `AnswersMatch`, `NeverDiverges`, `SameSigner`, `StableValues`, `RedirectWaits`, `FinishesOnce` |
| `url_completes` | eight steps of every kind, three redirects, no fault | `OneHopPerStage`, `ShapeKept`, `Completes` |
| `url_overtaken` | an asynchronous memoize, a request that is not awaited, a memoize after the first; two loads, no fault | `CallOrderReplays` violated |
| `window` | messages within a tick, two reloads, closings or status changes, two requests, a window that may refuse to close; 49 000 states | `TypeOK`, `ChannelTypeOK`, `InOrder`, `KeepsLiveSigner`, `BothNotice`, `StatusConverges`, `QueueDrains`, `GoneCloses` |
| `heartbeat_superseded` | messages that take up to a tick, no fault, the default ratio of timeout to polling rate | `KeepsLiveSigner` violated |
| `delegation` | every request, every chain of up to two hops, two canisters, expirations up to one beyond the range, a signer's clock one ahead or behind; 620 000 states | `TypeOK`, `GrantsNoMore`, `HonestAccepted`, `StaysAccepted` |
| `agent` | a query and an update, two targets, two accounts, two replacements; 250 000 states | `TypeOK`, `OneAtATime`, `OwnResult`, `HandedOnce`, `HonestAccepted`, `EventuallySettles` |
| `agent_create` | two creations | `CreateSucceeds` violated |

Bounds. Three calls are enough for `Signer`: one that establishes, one that
waits, one that comes when the others are done; the races found need two or
three. The proofs cover every number. Four loads (`MaxLoads`) let a flow make two redirects,
return twice, and meet a stale return or a visit in between. In the branching
program the two requests take their slots in the order in which the producers
finish, so replays do diverge: there `AnswersMatch` says that a diverging request
is rejected and not given the answer of another. Both programs issue their
memoize steps before their requests; with a memoize step that may take the slot
of a request `AnswersMatch` is false (below). `NeverDiverges` is about
programs whose steps take their slots in a fixed order (`InFixedOrder`): each step
awaits at least what the steps before it await (`CalledInOrder`), and a request is
awaited by the steps that follow it, but for the requests of its own turn
(`RequestsAwaited`). In one turn the memoize steps are numbered before the requests,
since their slots come first whatever the order of the calls. The README of the
repository (51) asks for the order of the calls only, which is not enough
(`url_overtaken`). `MaxTime` and
`FlowTimeout` make a journal expire between any two loads. In the heartbeat
`MaxEvents` bounds reloads, closings and status changes together, and `MaxIds`
is above the number of ids that are ever in use (time would stop otherwise, and
the liveness properties would fail). Two requests let one wait in the queue and
another one overtake it; two events let the status change and change back, or
the window close after either. One query and one update differ in the nonce, and
can overlap, replay each other's execution and wait for each other's turn; the
proofs cover every number of calls and requests.
Two hops make every difference between a hop and the chain: an empty
intersection, an unscoped hop beside a scoped one, an earlier expiration in
either place. `MaxU64`, `Skew`, `MaxTtl` and `MaxTime` are such that the latest
permitted expiration lies below, at and above the largest one.

`CHECK_DEADLOCK FALSE` is set everywhere because calls, loads and events are
finite: when they are used up, nothing is left to do.

### What disagrees with the documentation

* `signer_two_channels`. `openChannel` throws at line 347 before it resets
  `#establishingChannel`. After one failed establishment every later call awaits
  the settled promise, and two concurrent ones both establish a channel, though
  the doc (331) says that it "Reuses an existing open channel if available". With
  a window transport both use the same named window.
* `url_overtaken`. `sendRequest` reaches `channel.send` only after it has awaited
  `openChannel` (`signer.ts:376`, `395`, `524`), so a request takes its slot some
  microtasks after its call, and a memoize step on its call (`urlFlow.ts:268`). Take
  `x = memoize(async)`, then `getAccounts()` without `await`, `await x`, and
  `memoize(sync)`. The first load gives slot 2 to the request and slot 3 to the second
  memoize, since the producer takes long. On the return load `x` is replayed in a
  microtask, the second memoize comes to slot 2 before the request and throws, though
  the code made "the same requests in the same order" (`README.md:51`) and the comment
  of `sendRequest` (`signer.ts:368-371`) promises a request the place of its call.
  Code that sends on a `UrlChannel` directly is not affected.
* `signer_left_open`. Only a response schedules the closing. If another call is
  pending when it arrives and then fails, the channel stays open for ever; the
  doc of the option (235) says "Automatically close the transport channel after
  a response is received". `#pendingRequestCount` is also shared by calls on
  channels that have already shut.
* `heartbeat_superseded`. The filter at `client.ts:140` keeps what it should drop.
  With `time - disconnectTimeout < entry.time` instead the same instance
  satisfies `KeepsLiveSigner`.
* `agent_create`. `create()` sets the guard (137), awaits `HttpAgent.create()`
  (140), and any constructor in between clears it: of two overlapping creations
  one throws, and a creation whose `HttpAgent` rejects leaves the guard set.

Not in a run:

* The account of a call is read when its turn comes (`agent.ts:178`), so
  `replaceAccount` also changes calls made before it, that wait for the channel or for
  their turn, though the doc (391) speaks of "subsequent calls". It is read again at
  205, so that the honest answer to a call that was with the signer is refused;
  `HonestAccepted` shows that this is the only way to lose an honest answer whose
  certificate holds a reply.
* A memoize step can leave a false answer behind (`urlFlow.ts:267-293`). Take code
  whose order varies: a promised request, an asynchronous memoize step after it,
  and a plain request that awaits neither (but a timer, say). On the first load the plain request
  takes slot 2; the signer answers the first request only. On the second load that
  answer is replayed before the plain request is made, and the memoize step takes
  slot 2. The test for a recorded request key (267-284) is made only
  `if (cached !== undefined)`, so the step does not diverge: it records its value and
  leaves the key in `#requestKeys[2]`. On a third load in the order of the first the
  plain request finds its own key in slot 2 and is resolved with the value of the
  memoize step. The comments at `urlFlow.ts:272` ("a memoize step landing here is a
  divergence") and `urlChannel.ts:101` assume that this cannot be. It takes a
  program without a fixed slot order, and a signer
  that answers a part of what it is asked: without such a signer
  `AnswersMatchInAnyOrder` shows that the fingerprint does protect every program, and
  with a fixed slot order `AnswersAreOwn` needs no such hypothesis.
* `onPendingTimeout` (`heartbeat/client.ts:33`) is never called, so
  `closeOnPendingTimeout` has no effect.
* A call that has cancelled the closing timer (`signer.ts:334`) and is not yet
  counted (414) can meet a microtask of `UrlChannel` that delivers a response and
  arms a timer under it, against the comment at 457. `TimerSafe` is checked, and
  proved, without `MicroEvents`; with them TLC finds this race.
* A window channel that was closed while its signer was pending, and whose window
  survived, still flushes its queue when the signer becomes ready
  (`postMessageChannel.ts:155`).
* Certificates of `update` and `query` stay in `#certificates` until somebody
  calls `readState` for them.

`SingleChannel` also needs that no channel closes in a microtask while calls
wait for it: a waiting call that resumes after another has begun to establish
does not look at `#establishingChannel` again. `signer_channel` therefore checks
it without `MicroEvents`.

### Fairness

* Signer: microtasks run, a transport settles the promise of a channel, a
  promised request settles, a timer fires, a channel that is shut runs its close
  listeners (the heartbeat's timeout, or the end of the dismissal), and a request
  on an open channel is answered. The last one is an assumption about the signer:
  the code has no timeout for an answer. Faults, calls and the application's
  interventions have no fairness.
* UrlFlow: the page runs its microtasks and timers, producers settle, and the
  signer returns.
* Delegation, AgentCreation: none, they have safety properties only.
* Heartbeat: both pages run their tasks and time goes on; nothing is assumed of
  reloads, closings and status changes.
* WindowChannel: that of the heartbeat, with its callbacks; nothing is assumed of
  those who send on the channel or close it.
* SignerAgent: each call goes on. The transport settles `openChannel`, and every
  `callCanister` settles, by an answer or because its channel closes: this is
  `EventuallySettles` of `Signer`.

## Proofs

Every theorem holds for every value of the constants that satisfies the
assumptions of its module: any finite set of calls, any set of faults and both
flags for `Signer` (its kinds of calls are finite and disjoint, `None` is none of
them); any programs whose steps use the values of memoize steps, any faults and
bounds for `UrlFlow`; any timeouts with `PendingTimeout >= DisconnectTimeout`, any
delay, faults and number of requests for `Heartbeat` and `WindowChannel`; any finite
sets of updates and queries, any accounts and targets for `SignerAgent`; any
canisters and keys, chains of any length, and any clocks, margins and bounds for
`Delegation`.

Some theorems have a hypothesis of their own, each because the property is false
without it:

* `Quiet`, for `OneChannelAtATime` and `TimersAreSafe`: no establishment fails, and
  responses and closings are tasks.
* `Prompt`, for `LiveSignersAreKept`: messages arrive within a tick, the polling rate
  is below the timeout (300 ms and 2 s as `PostMessageTransport` passes them, against the
  delivery time of a `postMessage`), and a page that is loaded anew wakes the client up, or none is.
  `heartbeat_superseded` shows what slower messages do; a reload without a wake-up
  loses the request that was under way, and with it the polling chain.
* `NothingLost`, for `OneRedirectForEachStage`: the signer answers all it is asked and
  no producer rejects. What was left without an answer is asked again, on another
  redirect.
* No partial answers, for `AnswersMatchInAnyOrder`: see the first item of "Not in a
  run" above.
* `InFixedOrder`, that the steps take their slots in an order that does not depend on
  how long anything takes (see Bounds), where a fixed slot order is named below. It
  asks more of the calling code than the repository's README (51): `BranchingProgram`,
  which breaks the order of the calls, diverges, and so does `OvertakenProgram`, which
  keeps that order and does not wait for a request. The flows that the README shows
  satisfy it.

* `TypeCorrect`, `CountIsExact` (`SignerProofs`). The inductive invariant is
  `CountInv`: the type, `Lifecycle`, and `PendingCountExact`. `Lifecycle` ties
  the stage of a call to its `settled` and `outcome`; without it nothing says
  that a call that begins was not counted yet, or that one that ends was. The
  steps then add a call to `Counted` or take away the ones a listener
  settles; the arithmetic is that of finite sets.
* `OneChannelAtATime`, `TimersAreSafe` (`SignerChannelProofs`), under `Quiet`: no
  establishment fails and responses and closings are tasks. These two hypotheses
  are exactly what the violating runs need to break the properties. The
  invariant says that the channel being established is the one named by
  `#establishingChannel`, that waiting calls wait for it, and that an open
  channel is `#channel`; for the timers, that a call with a channel and no
  continuation queued is counted, so that a timer armed when the count is zero
  finds no call.
* `NobodyIsStranded`, `SignerImplementsContract` (`SignerContractProofs`). Every
  step of `Signer` is a step of `SignerContract` or leaves `callStatus` and
  `inbox` alone; the invariant relates the stage of a call to what it was
  handed over and how its promise has settled.
* `TypeCorrect`, `RedirectsWait` (`UrlFlowProofs`). The invariant `TInv` adds to
  the type that `#index` is the number of steps issued on this load and
  `#inFlight` that of the steps that run or resolve. The first is what makes the
  next slot exist, the second is `RedirectWaits`.
* `SignerIsKept`. `SInv` says that the journal in memory, the one in storage and
  those of the redirects agree on the url if they are of the same flow, and that
  a load that starts afresh has a flow of its own.
* `FixedOrderReplays`, `ShapesAreKept`, for code with a fixed slot order. A step always
  takes the slot of its number (`TakesOwnSlot`): the steps before one that is issued
  have been issued too, their calls may still be on the way (`EarlierCalled`), but
  none of them that this step could overtake. `Consistent` then says of each slot of a journal that a
  memoize step has no request key there, that an answer is the one to the request
  recorded, and that the request carries the value that the journal holds for the
  step it uses; `Valued`, that a step which is done has the value of the journal;
  `StoredFits`, that what is pending is the batch of the redirect it names. A
  return therefore puts answers only where they belong, and a replayed request
  has the content that was recorded; `AnswersAreOwn` follows.
* `AnswersMatchInAnyOrder`, for code without that order, whose slots have other
  owners on other loads. `KInv` therefore speaks of the slots and not of the steps:
  a slot whose request waits for an answer has its key and no result (`Awaiting`), a
  slot with a key and a result has the answer to that request (`Keyed`), the requests
  of the batch and of the pending redirect are those of their keys (`Asking`), and
  every slot that awaits an answer is in the batch that asks for it. So a full
  return leaves no slot half filled, which is where a memoize step does the damage
  described above.
* `OneRedirectForEachStage`, for code with a fixed slot order. `HopInv` says
  that once a stage has left the page with a redirect (`Asked`), each of its requests
  has its answer or is in the batch that asks for it (`Covered`), and that a step is
  issued only when what it comes after is done (`Issued`). A return therefore
  finds every request of the stage in the batch, and none is sent a second time.
* `ValuesAreStable`, `FlowsFinishOnce`, for the same programs. `GivenInv` says
  that the journal in memory and the one in storage hold every value that the
  steps of their flows were given, that they have the same results if they are of
  the same flow, that the requests which wait for a redirect have no answer yet,
  and that a flow which has not begun was given nothing. A flow that is pending
  thus has a step without a value, so that a finished flow is never resumed.
* `TypesCorrect`, `RequestsStayInOrder` (`WindowChannelProofs`). `CInv` ties the
  promise and the channel to the phase of the heartbeat: the channel has the
  status that the client has learnt, and a queue only while that is `pending`. So
  a flush empties the queue before anything can be posted past it. That
  `notified` is 1 exactly if the channel is closed bounds the close listeners.
* `HeartbeatTypesCorrect`, `LiveSignersAreKept`, `ChannelsKeepLiveSigners`
  (`WindowChannelProofs`). `LiveInv` says that while a server is there to answer, the
  connection `Beats`: a request is scheduled `t` ticks away, or a message that the
  client still waits for is on its way, or the page has just started and its wake-up
  is. Each time the timer has enough left for it (`InTime`): the timeout but for the
  polling period that has passed, unless the page itself is younger than that. A
  chain that is superseded by another does no harm, since the invariant asks for one
  beat and the newest request is always answered within its tick.
* `TypeCorrect`, `OneCallAtATime` (`SignerAgentProofs`). `QueueInv`: the queue
  holds the calls that wait or are sent, each once, and the one that is sent comes
  first.
* `ResultsAreOwn`: a query returns a reply to an execution made for that very query, an
  update one to an execution of its target, possibly an earlier one, since it has no
  nonce. `Fresh` adds that the nonce of a query which was not sent yet
  is in no content map that was executed or answered, so that an answer with this
  nonce was made after the query was sent.
* `HonestAnswersAreAccepted` is an action property, from the same invariants: an honest
  answer that comes with a reply is refused only after a `replaceAccount`.
  `CertificatesAreHandedOnce` counts: each hand-out takes away an entry that the
  verification of one call has put there.
* `ChainExpirationIsEarliest`, `EffectiveScopeIsIntersection` (`DelegationProofs`).
  The folds of the validation are evaluated over the positions of a chain. The
  induction that this takes is stated with sets: of the sets of positions for which
  a fold and its closed form differ, one would be the smallest (`SmallestSet`, from
  the well-foundedness of strict inclusion), and the step from it to its largest
  position refutes it.
* `TypeCorrect`, `AcceptedGrantsNoMore`, `HonestSignersAreAccepted`, `AcceptanceStays`
  (`DelegationProofs`). With the two facts above `Validates` says of each hop what
  `GrantsOnly` asks of the chain. `Judged`, the invariant, adds that what was accepted
  or honest passes now: the clock that reads an answer is never behind the one that
  judged it, and a later clock is more lenient.
* `RefusalsFollowCreations` (`AgentCreation`). The guard is clear under a creation
  that waits only if another one has passed the constructor.

Not provable with TLAPS and left to TLC: the liveness properties
(`EventuallySettles` of `Signer` and `SignerAgent`, `Completes`, `BothNotice`,
`StatusConverges`, `QueueDrains`, `GoneCloses`) and their fairness. Every safety
property of a passing run is stated by a theorem. Only model-checked is what the runs
say beyond the hypotheses: `StableValues` and `FinishesOnce` for code without a fixed
slot order, with `BranchingProgram`, and `AnswersMatch` for that program when answers are
partial.

## Not modelled

* `UrlTransport` is a constructor that checks two urls and fills in defaults;
  `memoize` and `establishChannel` forward to `UrlFlow` and `UrlChannel`.
* The checks before the signer window is opened (secure context, a click), a
  window that cannot be opened, focus, and the filter on a message's source and
  origin: the models have two windows and well-formed messages.
* The discovery of browser extensions, a `dismiss` that rejects, and an extension
  that answers with something that is no response. `Signer` models what the
  extension channel does in every other case.
* The shape checks of `transport.ts` and of the decoders: single JSON objects,
  without state.
* Storage that holds no valid journal; a page restored from the back/forward
  cache with its memory; two transports that share a storage key.
* `fetchRootKey` and `status` of the agent, which forward to the `HttpAgent`; the
  age of a certificate; a read of a state tree by a path that is not a request
  status.
* A transform that turns a notification into a request.
* The generated documentation and the end-to-end tests are not part of the
  library.

## Plan

1. `Extension`: the two-step close with a `dismiss` that rejects, and a call that
   the extension answers with something else.
2. A journal for each storage key, and two transports that share one.
