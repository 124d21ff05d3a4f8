# A verification of the core of the DevTools front end

The repository is the Chrome DevTools front end with the patches of React Native. It is a
single page application in TypeScript that talks to a back end over the Chrome DevTools
Protocol (CDP). Almost all of its hard behaviour comes from one source: the front end is
single threaded, yet every command, promise and timer splits an operation into tasks, between
which the user, the back end and other operations change the state. The modules here model the
components in which such interleavings matter most, with **one action per JavaScript task or
microtask continuation**: a handler and everything it calls synchronously is one atomic step,
and each `await`, `.then` or timer begins a new one.

All paths below are relative to `src/front_end/`.

## Inventory

| Component | State it keeps | Operations | Talks to | What is hard | What makes it correct |
|---|---|---|---|---|---|
| **Session router** `core/protocol_client/InspectorBackend.ts` | sessions with their callbacks, message ids, count of pending responses, long polling ids, parked scripts | register / unregister session, send, receive, run after pending dispatches | connection, every agent and target | sessions that go with commands in flight, late error responses, timers | each callback runs exactly once; scripts wait for commands; counts are exact |
| **Connections** `core/sdk/Connections.ts` | socket, its handlers, kept messages | send, close, disconnect | router, host | messages while connecting, a failure that closes too, a disconnection of what is gone | an ordered channel, which ends once |
| **Child target manager** `core/sdk/ChildTargetManager.ts` | child targets by session, target infos | attached, detached, info changed, parallel connections, suspend | router, target manager | awaits in the attach handshake | a child per session, gone with its parent |
| **Target manager** `core/sdk/TargetManager.ts`, `Target.ts` | set of targets, models, observers, listeners, scope | create / remove target, observe, listen, set scope | every panel and model | any order of creation, registration and scope changes | observers know exactly what is in their scope |
| **Suspension** `Target.ts`, `TargetManager.ts`, `SDKModel.ts` | a flag per target, one for all, the state of each model | suspend / resume all | profilers, Lighthouse, coverage | calls that overlap, targets and models made meanwhile | flags and models agree, every call settles |
| **Coverage model** `panels/coverage/CoverageModel.ts` | suspension state, poll timer, promise of the poll, backlog | start, stop, poll, four steps of suspension | suspension, its view, agents | polls in flight when it is stopped or suspended | one loop, no poll of a suspended target, nothing lost |
| **Isolate manager** `core/sdk/IsolateManager.ts` | isolate of each model, isolates, observers, polling loop | model added / removed, observe, poll | runtime models | ids that arrive for models that are gone, loops that outlive their stop | isolates and observers in step, one loop |
| **Page resource loader** `core/sdk/PageResourceLoader.ts` | load count, queue, table of resources | load, cancel on navigation | host bindings, network | a cancelled load and a slot it never had | the limit on loads, no load stuck, no slot leaked |
| **Source map manager** `core/sdk/SourceMapManager.ts` | client data, maps, enabled flag | attach, detach, enable, inspected URL changed | page resource loader, bindings | a load that settles after a detach | lookups agree, events alternate |
| **Network manager** `core/sdk/NetworkManager.ts`, `NetworkRequest.ts` | requests by id, a builder per load, main requests in flight | the events of the network domain | network panel | events of one load out of order, redirects with one id, adoption by another target | a request has its own infos; one dispatcher knows it |
| **Breakpoints** `models/breakpoints/BreakpointManager.ts` with `core/sdk/DebuggerModel.ts` | wanted state, ids and state believed set, a mutex per model, a cancellation flag | user edits, updates, live edits, suspension, removal of the target | debugger agent, bindings | several awaits under a mutex, one reset outside it, a flag read later by somebody else | front end and back end agree in the end |
| **Issues manager** `models/issues_manager/IssuesManager.ts` | stored and shown issues, counters, ids, hidden flags | add, filter, hide, navigate | target manager, settings, issues panel | kept incrementally and rebuilt, by six kinds of events | what is shown is what the filter accepts now |
| **Resolvers** `core/common/ResolverBase.ts` | a promise per id, one listener | wait, resolve, clear | issues manager, network log | waiters that come and go, clearing | who waits is heard |
| **Throttler** `core/common/Throttler.ts` | last process, timer, promise | schedule, run, complete | many panels | calls during a run, haste | no call forgotten, no promise early, pauses kept |
| **Event target** `core/common/Object.ts` | listeners per event type | add, remove, once, dispatch | everything | listeners that add, remove, dispatch and throw | a dispatch calls once whoever was there and still is |
| **Mutex** `core/common/Mutex.ts` | queue | acquire / release | breakpoints | | order; nobody waits for ever |
| **Render coordinator** `ui/components/render_coordinator/RenderCoordinator.ts` | collected work, work under way, an animation frame asked for | read, write, done, cancel | every component | callbacks that ask for work, wait for it, throw, never end | nothing forgotten; readers before writers; frames go on |
| **Formatter worker pool** `models/formatter/FormatterWorkerPool.ts` with `core/common/Worker.ts` | queue, workers with their tasks | run a task, answer, error | workers | messages without ids; a worker that throws | each task over once, with its own answer |
| **Lighthouse** `panels/lighthouse/` | run, worker, connection, saved emulation | start, collect, cancel, attach, detach | suspension, parallel connections, worker, emulation | cancelling at any await, failures half way, fields shared by runs | what was taken is given back |
| **Workspace, persistence, bindings** `models/` | files, bindings, live locations | UI driven | everything | large, mostly synchronous | bindings one to one |
| Settings, trace, timeline, heap snapshot, formatter | none of interest, or functions of their input | | workers | size | |
| Other panels, UI toolkit, recorder | views | | the above | | |
| Host bindings, CDP back end | external | | | may answer late, with an error, or never after a disconnection | |
| `third_party`, `generated` | vendored and generated | | | | |

`PROJECT.json` repeats this list under `components` with what is modelled of each, and lists
under `hazards` what in the code is hard to test, at its line, with the properties that cover it.

## The modules

| Module | Models | Run as |
|---|---|---|
| `ProtocolCalls` | abstract: the life of a protocol call | refined by `SessionRouter` |
| `SessionRouter` | `SessionRouter`, `TargetBase`, `invoke` | `MCSessionRouter` |
| `PageResourceLoader` | the loader | `MCSdk`, `MCPageResourceLoader` |
| `IsolateManager` | the manager and its polling loops | `MCSdk` |
| `NetworkDispatcher` | the dispatchers of network events and the builders of extra infos | `MCSdk` |
| `SourceMapManager` | the manager | `MCSdkModels` |
| `Suspension` | suspending and resuming all targets | `MCSdkModels` |
| `TargetManager` | targets, models, observers, scope | `MCTargets` |
| `Issues` | the issues manager, a source of `Resolver` | `MCTargets` |
| `Resolver` | promises for ids | extended by `Issues` |
| `ModelBreakpoint` | one breakpoint in one target, the debugger and the back end | itself |
| `Throttler` | the throttler with its clock | `MCCommon` |
| `EventDispatch` | listeners of one event type | `MCCommon` |
| `TaskPool` | abstract: a queue in front of a few workers | refined by `FormatterWorkerPool` |
| `FormatterWorkerPool` | the pool, its workers and their wrappers | `MCCommon` |
| `Channel` | abstract: an ordered channel that ends | refined by `WebSocketConnection` |
| `WebSocketConnection` | the connection and the browser's socket | `MCPanels` |
| `CoverageModel` | the polling loop with view and suspension | `MCPanels` |
| `LighthouseRuns` | panel, controller and service of Lighthouse | `MCPanels` |
| `RenderCoordinator` | the coordinator, microtasks and frames | itself |

The proofs are in `SessionRouterProofs`, `SdkProofs`, `SdkModelsProofs`, `TargetsProofs`,
`ModelBreakpointProofs`, `CommonProofs`, `PanelsProofs` and `RenderCoordinatorProofs`; each extends the
module its name begins with, or the union of components (`MC...`) its theorems are about.

`MCCommon`, `MCSdk`, `MCSdkModels`, `MCTargets` and `MCPanels` check components side by side that
share nothing: a variable `part`, chosen in the initial state, says which of them moves, and the
others stay as they were made. The states of the parts therefore add up instead of multiplying, a
behaviour is one of exactly one component, and nothing of a part that does not move is enabled, so
that its fairness asks for nothing. A property of a component is an invariant of the whole, because
the untouched initial states of the others satisfy it.

Definitions keep the names of the code where there is one. A definition whose comment says
*mutant* is a plausible bug of the definition it precedes; no specification uses it. It is there
so that every property can be shown to notice a bug.

### SessionRouter and ProtocolCalls

A *call* is one use of a callback. Its history (`kind`, `issuer`, `settled`, `outcome`) is kept
beside the state of the router: `callbacks[s][id]` is the map of session `s`, `errorTimers[c]`
the timers that `dispatchUnregisterSessionError` and `dispatchConnectionError` set. `router[s]`
is `routerInternal` of the owner: a target that was disposed of still accepts commands and
answers them with an error (`InvokeDisposed`). `RegisterSession`, `UnregisterSessions`,
`SendMessage`, `OnResponse` and `OnIgnoredResponse` are the methods of the same names;
`Dispose` and `Disconnect` take the whole subtree of targets, as `ChildTargetManager.dispose`
does. Parallel connections (`Proxies`) number their own messages, so a response to a proxied
session may carry any id. The backend may answer any command once, and repeat an answer as an
error after the session is closed; `Receive` therefore does not require the command to be
unanswered. Events and their dispatch are left out.

`ProtocolCalls` says what an agent's caller is promised: a call is pending until it is answered
while its session is open, or closed with an error after the session is closed; never both and
never twice. `ImplementsProtocolCalls` is checked and proved.

### PageResourceLoader

`phase` says where a call of `loadResource` is suspended. Resolving or rejecting the promise of
a queued load only schedules its continuation, and so `resolved` and `rejected` are phases of
their own: in the gap new loads may come in, which is how the limit is passed. Fetching through
the target may fall back to the host (`fallback`). A navigation is a task and therefore finds no
continuation pending.

### SourceMapManager

The n-th `clientData` of a client is the number n, so that "is this still my client data" is a
comparison of numbers as it is one of references in the code. `Reattach` is what `setEnabled`
and `inspectedURLChanged` share: detach all, switch, attach all. Whether a URL resolves, and so
whether a load starts, is a choice. A payload that parses but is no source map (`null`, or without
`sources`) makes the constructor of `SourceMap` throw (SourceMapManager.ts:127); the handler of
failures is not chained after that one, so the promise is rejected and neither event follows the
announcement. `constructorThrows` is that outcome, `rejected` remembers whom it met, and
`AnnouncedIsConcluded` names it as the exception.

### Throttler

Time is discrete; `sinceComplete` is `getTime() - lastCompleteTime`, cut off just above the
timeout because the code only compares it with that. A due timer may fire late. Promises are
named by rounds: `schedulePromise` is replaced whenever a timer fires.

### IsolateManager

The two awaits of the code are actions of their own: the id of a model (`isolateIdSettles`) and
the rounds of a polling loop (`updateSettles`, `allUpdated`, `poll`). Every call of `poll` is a
loop with the `pollId` it started with; an old loop notices only at its timer.

### ModelBreakpoint

A breakpoint's updates are processes that queue on `updateMutex`; `phase` says what each one
awaits. `Decide` is the four cases of `#updateInDebugger`. The resolution of locations may give
any non-empty set of locations (the fallback to the last resolved state or to the URL is one of
them; the experiment that switches the fallback off is not modelled). A state's positions are set
and removed by commands that are sent and awaited together, which are one command here. The
back end sees commands in order, may refuse a position, refuses positions it already has, and
refuses all while its agent is off. `cleanUpAfterDebuggerIsGone` is modelled with the twist of
the code: with ids it takes `cancelCallback` back and keeps the ids; without ids it leaves the
flag set for whoever comes next. The history `cutShort` records that this flag has ended an
update of a live agent; `InStep` and `NeverSetTwice` are claimed of all behaviours in which it
has not, and the run `breakpoint_case3` shows what happens when it has. `onScriptWasEdited` resets
the breakpoint outside the mutex, as the code does.

`disableDebugger` and `enableDebugger` come whenever the code's conditions hold, whatever is under
way: their only other guard is the bound `Switches` on switching commands that are not answered.
Enabling may fail, for a live target too (`registerDebugger`, DebuggerModel.ts:303). The history
`overtaken` records that the debugger was enabled again before it was disabled for good, or while an
update of a breakpoint removed in the meantime was still mapping its location. Then two things go
wrong in the code, and `InStep` excepts them:

* A resume comes while the disable command is still to be answered. An update finds the positions up to
  date; then the back end is disabled and forgets them, and nothing updates the breakpoint again.
* A breakpoint is removed while the debugger is off, by an update that is mapping its location. After the
  resume that update sets it.

`UpdatesFinish` excepts what does not finish: `debuggerEnabled` is set while the debugger never becomes
ready, because its enabling failed or was overtaken (`NeverReady`). `#updateInDebugger` then answers
PENDING each time, and `refreshInDebugger` repeats for ever holding the mutex
(BreakpointManager.ts:1070, 963), so that no later update of this breakpoint runs.

### TargetManager

`seen[o][t]` counts what observer `o` was told of target `t` (or of its model), additions less
removals. Observers only take notes; an observer that calls back into the target manager is not
modelled. Each class of models may be created in every target (capabilities are not modelled),
with the target if it is automatic or observed, and on demand otherwise. A target's parent and
kind are constants; the tree in the runs has a tab, a page under it, a worker under the page and
a prerendered page beside it.

### Suspension

A call of `suspendAllTargets` or `resumeAllTargets` runs one `suspend` or `resume` for every target
there is, and `phase[c][t]` and `awaited[c][t]` say how far it is and for which models it waits. Two
kinds of models stand for all: an *agent* disables and enables a domain as `CSSModel` does and keeps
a flag that the answer sets; a *poller* finishes a poll first as `CoverageModel` does. Commands of
a target are answered in order; a target that goes has its commands answered with errors. Targets
and models may be made at any moment: a constructor asks `target.suspended()` and enables its domain
or does not. Nothing makes callers await each other's calls, so calls overlap; the history
`overlapped` records that one started before the last had settled. A poll that `postResumeModel`
starts is not awaited here.

Claimed with overlaps too: the flags agree (`FlagsAgree`) and every call settles. Without them, the
models end as suspended or active as their targets (`AgentsFollow`, `PollersResume`). With overlaps
they may not: a resume that overtakes a suspend leaves a poller suspended.

### CoverageModel

Loops and the two users of `stopPolling`, the view and `preSuspendModel`, are processes; `asked[p]`
are the agents that have not answered poll `p`. Stops, suspensions and navigations come in any order
and at any await; only the button of the view is not clicked again before what the last click asked
for is done. What a poll found and how it is merged is left out, and so is the reset.

The history `crossed` records that a stop met a poll or a suspension, a suspension met a stop, or the
first poll found the model suspended, since polling began. In each of these the code breaks what its
own comments say (*What the code says and does not do* tells how), so `CoveragePolls` claims until
then that one loop polls, that none does after the last poll, and that no poll ends in a suspended
target, and claims always that there are never two loops. When polling begins anew the
history is forgotten, unless a promise of an old poll is left in `currentPollPromise`, which keeps the
new loop from polling at all (`Blocked`).

### Resolver and Issues

`Resolver` is parameterised by its source: `added` is called by whoever extends it. `Issues` keeps
what `IssuesManager` keeps and rebuilds it at the same moments: an issue added, a navigation, a frame,
a scope, a setting of either kind. A frame, once added, stays for the page in question. Whether an
issue is of a third party depends on the frame being known, as in `CookieIssue.ts`.

`ResolvesOnceKnown` in `Issues` is the resolver's doc comment (ResolverBase.ts:26): who waits for an id
gets the object once the id can be resolved. It does not hold, because a full update enters ids in
`#issuesById` without the event the resolver listens to. No run claims it; `ResolverAnswers` claims
that no waiter is lost by the resolver itself and that answers are right.

### NetworkDispatcher

A load goes through legs, `requests[<<id, k>>]` is the `NetworkRequest` of leg `k`, and the builder of
an id pairs legs and infos by their positions. The back end tells of legs in order and of infos in
order; an info may be at most one leg ahead, and comes before a finished load is forgotten. The network
stack may tell nothing of a leg, as the protocol allows. Then the builder gives the
infos of later legs to the wrong one: it counts, and its class comment (NetworkManager.ts:1757) leaves it
at that, `hasExtraInfo` being ignored. `InfosAtTheirLegs` therefore claims infos at their leg where
the stack told of this and every earlier leg and one target was told of everything, and otherwise that no
leg shows an *earlier* leg's info. `NoInfoLost` claims that every info is shown, at its leg or before it.
An interceptor may answer (`markAsIntercepted`): its response then replaces raw headers
(NetworkManager.ts:488), and `RawHeadersStay` says that nothing else does. A navigation is committed after
its last leg, possibly in another target, whose dispatcher adopts the request at its next event. Clearing
and the removal of a target come at any time. Web sockets and service workers are left out.

### EventDispatch

A listener that is called may add and remove listeners, itself included, dispatch the event again, or
throw, which nobody catches: all dispatches under way end. What is under way is a
stack of dispatches, each with the snapshot it goes over. A `once` listener takes itself out first.
The tuples are numbered as they are registered, so that a `Set` of them, which JavaScript keeps in
the order of insertion, is a set of numbers that is gone through upwards.

### RenderCoordinator

One action per task or microtask. `items` are the work items ever made, numbered as they were asked
for, and lists of items are in that order; a callback is started in the
microtask that its trigger queued and may run as long as it likes, asking for more work meanwhile.
A frame takes the collected work, triggers the readers, waits for all of them, for the first that fails,
or for a timer, and does the same with the writers. `cancelPending` is called by tests only and is
switched by `Cancels`. `done({waitForWork})` is left out.

Three comments or tests of the code are stated in the module and do not hold: `ReadersAreDone`
(RenderCoordinator.ts:254), as a reader that fails lets the writers start while another reader still
runs; `TimedOutIsRejected`, as rejecting a promise that was resolved by its trigger has no effect; and
`DoneMeansDone` (line 226), as a frame is taken out of the list before its callbacks run. No run claims
them.

### FormatterWorkerPool and TaskPool

A worker computes in a thread of its own: `inbox` and `outbox` are its messages under way. What is posted
to a worker that is still loading waits in its wrapper. A worker that throws is replaced; after that nothing
of it is heard. `TaskPool` is what callers may count on: tasks start in order, no slot is idle while a
task waits, at most `Limit` run, and a task is over once. On a machine with one core `MAX_WORKERS` is 0 and
no task is ever run (FormatterWorkerPool.ts:9); liveness is claimed with more cores only.

### WebSocketConnection and Channel

The socket is the browser's and external: it opens, fails, is closed by either end, and its events are
tasks that find the handlers as they are then. `Channel` says: what arrives is what was sent, in order and
without gaps, in both directions, and the owner is told of the end at most once. A disconnection that finds
the socket gone already waits for an event that never comes (Connections.ts:164); `DisconnectIsKept` is
claimed of the one that finds it.

### LighthouseRuns

Starting, collecting and cancelling are asynchronous functions whose calls are entries of `ops`; `pc`
names the await each is at. They share the fields of controller and service. The panel shows what the
user may do, and nothing else keeps him from it: the start view stays while a run without a timespan
starts, and a run may be cancelled at any await. `MaxAtOnce` bounds how many functions are under
way when the user calls another; with 2 and with 3 the properties hold too. Of the failures
of `attach` the missing main target is modelled.

The history `clashed` records that a run was started while an operation was under way, or cancelled
while it was set up. The code does not tell such operations apart, and what they took is not always
given back, so `LighthouseGivesBack` is claimed until then:

* A cancel at the awaits of LighthouseProtocolService.ts:72 or :90 finds nothing to detach. `attach` goes
  on, opens its session and adds its dialog handler for a run that is over, and nobody removes
  either, contrary to the comment at :104.
* Two starts overwrite each other's connection and `emulationStateBefore`.

What is given back is the session, the dialog handler, the targets and the emulation. A worker may be
left in any case: a message of the session that is still open while its run is being cancelled makes
another one (LighthouseProtocolService.ts:195). `LighthouseCancelReturns` holds of clashes too: the status
view goes, and the start view comes back, unless another operation was called after the cancel.

## What is checked

| Run | Bounds | Shows |
|---|---|---|
| `router` | 2 targets, 1 proxied session, 2 calls (symmetric), 1 script, 2 ids | callbacks in one place and run once, scripts only when quiet, refinement of `ProtocolCalls`, commands settle, scripts run while no callback was lost from the count |
| `router_scripts` | 2 targets, 2 calls, 1 script | *violated*: see findings |
| `sdk` | 2 models, 2 isolates, 2 observers, 3 loops; 5 loads of 3 resources on 2 slots; 1 navigation of up to 2 legs, with or without infos, 2 dispatchers, an interceptor | isolates and observers agree, one loop polls while somebody observes, stopped loops end; slots are exact, the limit holds but for cancellations, every load settles; infos and raw headers belong to their legs, one dispatcher knows a navigation |
| `loader_limit` | as in `sdk` | *violated*: see findings |
| `sdk_models` | 2 targets, 1 agent, 1 poller, 3 calls; 2 clients, 2 client data each | flags agree, models follow, every call settles; lookups of source maps agree, disabled is empty, events alternate, attachments conclude unless the payload is no source map |
| `targets` | 4 targets, 2 classes of models, 3 observers (2 scoped); 3 issues of 2 pages, 2 calls of the resolver | observers in step, unscoped observers miss nothing; shown issues, counters, hidden flags and ids are fresh; nobody waits unheard, answers are right |
| `breakpoint` | 1 location, 2 conditions, 2 updates at once, 2 switching commands unanswered | back end in step when quiet unless a suspension was overtaken, nothing set twice, updates end unless the debugger never becomes ready |
| `breakpoint_case3` | as `breakpoint` | *violated*: see findings |
| `common` | timeout 2, 4 calls; 3 listeners, 3 tuples, 2 dispatches; 4 tasks (2 chunked), 4 cores, 1 chunk, 1 error | no call forgotten, order, pauses, promises; a dispatch calls whom it should; the pool implements `TaskPool` and answers every task |
| `panels` | 4 operations, called one after the other or at any await of one, 3 workers; 2 loops; 3 messages, 2 disconnects | Lighthouse gives back what it took, a cancel returns; one loop polls, the backlog is processed; the socket implements `Channel`, keeps no message and ends once |
| `coverage_assertion` | 2 loops | *violated*: see findings |
| `render` | 3 requests, 1 `done`, `cancelPending` | frames in order, nothing forgotten, frames go on |

Why the bounds are enough. Two calls and two sessions are what it takes for a callback to be
confused with another one or to be lost with the wrong session, and the root with one child is
what it takes for a disposal to reach another session; the proofs cover the rest. Five loads on
two slots allow two in flight, two queued and one that arrives in the gap of a cancellation. Two
legs are a redirected one and a last, which the builder treats differently; the proof covers any number.
Two client data let a load be overtaken by a reattachment, of its client alone or of both (TLC passes four
data of one client as well). With a timeout of 2 the timer can
be due before, at and after the end of the pause, and four calls cover one that runs, one that
waits, one that overtakes it and one after. Two updates at once are one that holds the mutex and
one that waits for it or resets the breakpoint outside of it; two switching commands are a suspension
and the resume that overtakes it. Four operations are a start, its collection, its cancelling and a
start that meets one of them. Three loops are an old one, its
successor and one after that. Three calls let a suspension be overtaken by a resumption and that
by a suspension. Three issues are two that share an id, two that share a primary key in different
pages, and one of a third party. Four cores give two workers, so that one task waits behind two
that run, and the fourth comes when a worker has failed. A dispatch in a dispatch is what a snapshot
is for. Three requests are a reader, a writer and one that comes while a frame is under way.

All runs switch the deadlock check off: their bounds let the system run out of things to do. That
nobody waits for ever is what the liveness properties say.

### Fairness

* Timers fire and promise continuations run: the event loop guarantees it. Hence weak fairness
  of `RunErrorTimer`, `RunScriptTimer`, `startQueuedLoad`, `cancellationSettles`, `onTimeout`,
  `poll`, `allUpdated`, `updateInDebugger`, of the timers and continuations of `CoverageModel`
  (`timerFires`, `stopped`, `suspendModel`), of `preSuspended`, of `Continues` of Lighthouse, and of
  the handlers of socket events (`Handlers`).
* The back end answers every command it was sent while the connection lasts, with a result or an
  error; long polls are excepted. Hence `AnswerCommand`, `fetchSettles`, `loadSettles`,
  `updateSettles`, `Receive`, `locationsResolved`, `locationsAdded`, and `answered` of `Suspension`
  and `CoverageModel`. A command of a session that is gone is answered by the timer of its callback.
* The browser gives animation frames, and runs the timers that end a wait in them (`queueEmpty`,
  `newFrame`, `startHandler`; `readersTimeout` and `writersTimeout`, whichever callbacks hang). A
  socket that is closing closes, and what was sent on it before is received (`backendReceives`).
* Workers load, and compute what they were given or throw (`workerReady`, `WorkerSteps`).
* A process given to the throttler settles (`processCompleted`), and time passes (`Tick`).
* Nothing is assumed of the user, of navigations, of Lighthouse's answers, or of targets coming and
  going.

In a union, a part that was not chosen has no step enabled, and its fairness asks for nothing.

## What is proved

The proofs hold for all values of the constants, under the named assumptions of the modules
(for example that a tree's root is above every target, or that the timeout is positive).

* **`SessionRouterProofs`**. The heart is that a callback is in one place. The inductive
  invariant is `CallbacksInOnePlace`: `SettledAtMostOnce` alone is not inductive, because a
  callback could be in a map and have a timer. `StoredOnce` says that a callback in a map lies
  under one id of one registered session, has not run and has no timer; `TimedOnce` that one with
  a timer has not run and its session is gone; `RegisteredIffHeld` ties sessions to their owners,
  so that a late call on a disposed target never enters a map. With `CountsResponses` (the count
  is the ids handed out less those answered) it follows that the scripts run only when no command
  waits: the stored ids that are not long polls are among the counted ones, by an inclusion of
  finite sets. The same invariant gives the refinement of `ProtocolCalls`, one step lemma per
  action.
* **`SdkModelsProofs`**, source maps. `MapsAreInverse` is inductive together with the facts that the
  number of a client data grows and that a disabled manager has no maps; a late load carries an
  old number and is dropped. `EventsAlternate` is about sequences of events that only grow at their
  end: `Alternates` says it of neighbours, and `LastTells` which event is the last one of a client
  that has a map, one that has a load under way or was rejected, and one that has neither.
* **`SdkModelsProofs`**, suspension, for finitely many agents. `ModelsFollow` speaks of the moment
  when all has settled; the invariant `SuspensionInv` says what holds on the way there.
  `CommandsArePast` and `CallsToCome`: a call that sent a command is past `preSuspendModel`, so an
  answer never meets a call that has not sent anything. `CallsFit`: calls that do not overlap all
  work towards what the target manager wants. `OrdersFit`: agents were last told so, or a poller is
  still waited for. `AgentsAreTold`: an agent of an active target is enabled or has an enable to be
  answered. `PollersFit`: a poller is active or waits for who resumes it. `NewIsUntouched`: a model
  that does not exist yet has no past. `CallsFit`, `OrdersFit`, `AgentsAreTold` and `PollersFit` are
  claimed, like the second part of `ModelsFollow`, only for calls that did not overlap.
* **`SdkProofs`**, isolates. The key fact is `AskedHasNoId`: a model that is being asked has no id
  yet, so an answer never moves a model from one isolate to another. `LoopsInv` counts the polling
  loops: none has an id to come, and of the id of the moment exactly one goes on if somebody
  observes, so that a new id, given when the last observer leaves, stops them all.
* **`SdkProofs`**, the loader, for finitely many loads (`LoadsAreFinite`). `SlotsAreAccounted` is
  inductive: the loads are split into those in the queue and those that hold a slot or are canceled
  and still to give one up (`Busy`), and every step moves one load, or all of the queue, between
  finite sets whose cardinalities are compared. From it `OnlyCancellationsPassTheLimit`: while
  nothing is canceled the counter is the number of loads in flight. `ShownAsLoading` needs
  `Outcomes`, that a load that has not settled has no result.
* **`SdkProofs`**, the network. `NetworkInv` ties requests, the table, the builders and the navigations
  in flight: the request of an id in the table is that of its last leg, the chain of redirects before
  it are the earlier legs (so `redirectCount` is the number of legs before), and a builder holds the
  legs in order. `InfosInOrder` adds where each info is: the k-th is at the k-th leg, or in the k-th place of
  the builder because that leg is still to come, and is of the k-th leg or, if the network stack passed
  over one, of a later leg. Nothing is assumed of which legs it tells.
* **`TargetsProofs`**. `ObserversInStep` is inductive with two facts: no target is created twice, and
  who is not registered was told of nothing. The shape of the tree plays no part. `UnscopedMissNone`
  adds that live targets have the models their unscoped observers want.
* **`TargetsProofs`**, issues. What is shown is what the filter accepts *now*, and counters, ids and
  hidden flags are those of what is shown (`Shown`). Every one of the events either rebuilds all, or
  adds one issue that the filter accepts; `KeptInOrder` says what a navigation keeps of the stored
  issues. `Resolved`: who waits is known to the resolver (`WaitersAreHeard`), and answers are issues
  of the id that was asked for.
* **`ModelBreakpointProofs`**. `NeverSetTwice` holds however suspensions overlap. `MutexOf`: only the first
  in the queue is past waiting. `WireOf`: an update has at most one command under way. `IdsOf`: a set is
  under way only while no ids are known, removals come before it, and the ids are those of the positions the
  back end has. `ReadOf`: who holds the mutex sets what was read last. All these are `BreakpointInv` and
  hold of every overlap of suspensions. `InStep` speaks of rest only; `InStepInv` says how the way there
  stays open: the positions of the back end are among those the model believes set (`StateInv`, always);
  until a suspension was overtaken, at most one command of each kind that switches the debugger is under way
  and the last of them leads to what `debuggerEnabled` says (`DebuggerInv`), and whatever is out of step has
  an update to come that looks at it (`ProgressInv`), or the breakpoint was removed while the debugger was
  off (`Gone`).
* **`CommonProofs`**, the throttler. The invariant adds to `WaitingIsScheduled` that the rounds ran
  ever later processes (`RoundsRan`), that a call's promise belongs to the current round or to one
  whose process is recent enough (`Promised`), that resolved rounds are over, and that without haste
  the time passed plus the time left covers the timeout (`TimerSpaced`).
* **`CommonProofs`**, the formatter pool. Messages have no ids, so a worker's answer belongs to the
  task its entry names when it arrives. `PoolInv` therefore says where every task is: in the queue, or
  held in one entry, and then in the inbox of that worker, being computed, or with its last message on
  the way (`Waits`, `Computed`, `Posts`), while a worker whose entry holds no task is idle and has
  nothing to say. The refinement of `TaskPool` is proved step by step: `runTask` is `Submit`
  (`HandedIn`), a last answer or an error is `Finish` (`IsOver`), everything else a stutter. That a
  task waits only while every worker is taken is a comparison of the cardinalities of entries and
  tasks held. That a least free entry exists is `LeastNat`, from the well-foundedness of the order.
* **`CommonProofs`**, listeners. `EventsInv`: a registration is in the map or marked as removed
  (`Registered`), the listener of a `once` is registered once, and taken out before it is called
  (`CallsAreRight`), so that no other dispatch under way calls it. A dispatch has passed all it
  called, and what it passed of its snapshot it called or found removed (`FrameRight`); dispatches
  on the stack are distinct, so a nested one does not touch what the outer one called.
* **`PanelsProofs`**, Lighthouse, wherever the user cancels and however many operations are under way.
  `LInv`: the fields point to what exists (`Known`), and until operations clashed one of three things
  is the case (`Orderly`): one operation sets a run up, nothing else is under way and no session is open
  (`Starting`), a run is set up and its session, handler and worker are those of the fields (`Running`), or
  operations give back what they hold, and what none holds is released (`GivesBack`, `Owned`). A worker
  that lives is the current one, or awaited as the old one (`HoldsWorker`).
* **`PanelsProofs`**, coverage, for stops and suspensions in any order. `CoverageGeneral` holds always: a
  loop is named by `currentPollPromise` while it polls and by the timer's field between polls
  (`LoopsKnown`), and who awaits a poll of a loop is a stopper (`StoppersWait`); it gives that there are
  never two. Until a stop or a suspension crossed (`Settled`), `PollsWhileOn` says that one loop goes on
  while coverage is on and not suspended, that it ends while the model suspends, and that none does in
  between, when the flag remembers to start one.
* **`PanelsProofs`**, the connection as a `Channel`; its four variables are mapped to themselves.
  `OnItsWay` and `KeptInOrder` number what arrived, what is on its way and what is kept through from
  1 to `sent`; `OnItsWayBack` does so for what was heard and what is among the events, of which
  `EventsInOrder` says that they are open, messages, error and close in this order. `HandlersFit` and
  `ToldOnce` tie the handlers to the socket, so that a close event finds either the handler of this
  end or the callback of `disconnect`, and once; `EndsInv` counts who was told.
* **`RenderCoordinatorProofs`**. `FramesInv`: collected work has a frame to come (`WorkIsScheduled`) and
  has not begun (`CollectedWaits`), what is triggered or runs is of the frame under way, and `InTurn`
  relates the state of each item of that frame to the phase, so that a writer that has begun finds no
  reader that has not.

The proofs assume nothing but the named assumptions of the modules and, where cardinalities are
compared, finitely many loads and agents.

Every invariant and every action property that a run checks is proved. Only model-checked is what
must happen in the end: `CommandsSettle`, `ScriptsRunWhileAccounted`, `LoadsAndLoopsGoOn`,
`AnnouncedIsConcluded`, `CallsSettle`, `WhatIsAskedIsDone`, `UpdatesFinish`, `LighthouseCancelReturns`,
`WhatWaitsIsSeenTo` and `FramesRunOn`, because the prover has no support for fairness and ENABLED.
The theorems about the throttler are stated for `Spec` of `Throttler`, those about targets and their
observers for `Spec` of `TargetManager`; all others for the specifications the runs check.

## Findings

1. `router_scripts`: `unregisterSession` (InspectorBackend.ts:291) never takes the commands it
   fails off `#pendingResponsesCount`. After a target went with a command in flight, the scripts
   of `deprecatedRunAfterPendingDispatches` wait for ever.
2. `loader_limit`: a load cancelled in the queue releases a slot (PageResourceLoader.ts:203). If
   other loads queued up before its continuation runs, one more than the maximum is in flight.
3. `breakpoint_case3`: `cleanUpAfterDebuggerIsGone` (BreakpointManager.ts:1190) leaves
   `#cancelCallback` set when there is nothing to cancel. The first breakpoint set after the
   debugger is resumed is then dropped from the front end, while the back end keeps it.
4. `coverage_assertion`: the last poll of `stopPolling` (CoverageModel.ts:150) starts when
   `#currentPollPromise` is null again, so that a suspension that meets a stop does not wait for it,
   and the poll ends in a suspended target: "This conditional should never trigger" (line 158).

### What the code says and does not do

Those that are named are stated in the modules, TLC refutes them, and no run claims them; the others
are the exceptions that the properties make, found by TLC when the exception is taken out.

* `CoverageModel!LastPollIsLast` without `~crossed` ("Do one last poll to get the final data.",
  CoverageModel.ts:149). When `stop` is called during a poll, the continuation of `pollLoop` runs before
  that of `stopPolling` and sets a new timer, which nobody clears: the loop polls on after the recording.
  `currentPollPromise` is null between its polls, so a suspension neither clears its timer nor waits.
* When that left-over timer fires in a suspension, `pollLoop` leaves `currentPollPromise` set
  (CoverageModel.ts:138), and the next recording, finding it, never polls (line 130).
* "Restarts polling after suspension." (line 203): a suspension while the recording starts sets no flag,
  and the `startPolling` that follows finds the model not active: after the resumption nothing polls.
* The breakpoints lost, and the updates that never end, when a suspension is overtaken; the announced
  source map whose outcome nobody is told; the session and the dialog handler of a Lighthouse run that is
  cancelled while it is set up; the infos at an earlier leg: as told with their modules.
* `Issues!ResolvesOnceKnown` (ResolverBase.ts:26), as told with its module.
* `TargetManager!ScopedMissNone`: `setScopeTarget` (TargetManager.ts:390) announces only models that
  exist, and a scoped observer misses a target whose model was never created.
* `RenderCoordinator!ReadersAreDone`, `TimedOutIsRejected` and `DoneMeansDone`, as told with the module.

## What is not modelled

The components marked *not modelled* in `PROJECT.json`. Most of the repository by size is not the
kind of code a model checker has something to say about: descriptions generated from the protocol
(`generated/`), tables of native functions and CSS properties, tests and test runners, widgets and
panels whose methods draw, and data processing of traces and heap snapshots, which is sequential and
pure. The modules cover the few thousand lines in which tasks interleave; no honest mapping of lines
reaches a large share of the whole.

Within the modelled components: the content of messages and resources, protocol warnings, the overrides for
tests, names and URLs of targets, live locations and the storage of breakpoints, capabilities, a scope of
the issues taken back to null, and observers that call back into the manager that is calling them
(`EventDispatch` shows what a dispatch does then). Connections other than the web socket are assumed to
deliver in order until they disconnect. A machine with one core, for which the formatter pool has no worker
(FormatterWorkerPool.ts:9), and the disconnection of a socket that is gone (Connections.ts:164) are in the
models and excepted from liveness.

Two hazards have no property. The attach handshake of `ChildTargetManager` (line 167) awaits between
deciding about a target and creating it; `SessionRouter` has only its outcome. That a call of the
issues' resolver is answered by a full update (IssuesManager.ts:403) is stated by `ResolvesOnceKnown`,
which does not hold.

## Plan

Done: the modules above. Next, in this order; new runs join `MCSdk`, `MCCommon` or `MCPanels`, or
replace a run that a proof has made redundant:

1. `ChildTargets`: the attach handshake of `ChildTargetManager` with its awaits, composed with
   `SessionRouter` (a child per session, no child of a detached session), and `FrameManager` and
   `ResourceTreeModel`, whose frames move between targets.
2. `Mutex` as a module, `ModelBreakpoint` shown to use it; two locations.
3. `NetworkLog` and the web sockets and service workers of `NetworkManager`.
4. Bindings of `Persistence` and `UISourceCode`; the player of the recorder, with its timeouts.
5. Pure algorithms against reference definitions: `SegmentedRange`, `Trie`, the dominators of
   `HeapSnapshot`, the merging of coverage segments.

Theorems to follow: the invariants of the modules to come.
