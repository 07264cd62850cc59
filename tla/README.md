# TLA+ verification of the Copilot–Codex provider for SAP

This directory holds a formal model of the extension under `src/`: the parts of it
in which several asynchronous activities share state. TLC checks the
models on small instances; TLAPS proves the invariants that matter most for every
value of the constants. Source references are to `src/…` of the repository; the
correspondence of every definition to its lines is in `PROJECT.json` under `map`.

## 1. Inventory

The extension offers Codex models to Copilot Chat over two routes.

| Component | State | Operations | Hard behaviour |
|---|---|---|---|
| **Tool continuation registry** `app-server/tool-continuations.ts` | two maps (`states`, `callsById`), a timer per call, an abort listener per turn | `capture`, `markSurfaced`, `resume`, `cancel`, `cleanup`, `processExit`, `dispose`; timers; abort | calls of one turn must be answered together; call ids are unique only within a lease |
| **App Server transport** `app-server/app-server-transport.ts` | `TurnState` per turn, `states`, `callStates`, `failedCallTimers`, an async queue per turn | `generate` (new turn or follow-up), notification and tool-call handlers, `terminateState`, `dispose` | a turn spans several Copilot requests; it may fail, be stopped, time out or lose its process at any await |
| **App Server session** `app-server/app-server-session.ts` | initialization, restart and dispose promises, the current client and whose handlers are registered, leases, routing tables, pre-response buffers | `initialize`, `restart`, `dispose`, `readAccount`, `listModels`; lease operations (`startThread`, `startTurn`, `unsubscribe`, release, handler registration); dispatchers | joins of promises across process generations; a disposal or a termination at any await; events that precede the turn id |
| **JSON-RPC client** `app-server/jsonl-rpc-client.ts` | pending requests with timers and listeners, server requests being handled, write queue and active write | `request`, `notify`, `cancel`, `close`, line handler, `drain` and stream events | back-pressure, cancellation of a half-written request, late answers, several lines in one chunk |
| **Process supervisor** `app-server/process-supervisor.ts` | current child record, generation, three joined promises, failure counter, breaker | `start`, `stop`, `restart`, two reports; child events | stop meets start meets restart; children that never exit |
| **Model cache** `core/model-cache.ts` | cached models, load in flight, generation | `get`, `clear`, `snapshot` | a late load after a clear |
| **ChatGPT OAuth transport** `chatgpt-oauth/oauth-transport.ts` | active operations, lifecycle controller, the model cache | `listModels`, `generate`, `dispose` | several callers share one request |
| **OAuth manager, store, loopback server** `chatgpt-oauth/oauth-manager.ts` … | lifecycle number, active sign-in, refresh flight, storage queue, stored session | `signIn`, `completeManualCallback`, `getAccessToken`, `signOut`; the import command; loopback callbacks | sign-out during sign-in or refresh; storage order |
| **HTTP client, SSE parser** `chatgpt-oauth/http-client.ts`, `sse-parser.ts` | per request: timers, controllers; parser state | `getModels`, `streamResponses`, `push`, `finish` | one retry after a 401; events split over chunks |
| **Provider, commands, activation** `providers/codex-provider.ts`, `extension.ts`, `commands/register-commands.ts` | caches of the last request, the services | VS Code callbacks | order of deactivation; cancellation tokens |
| SAP instructions, message conversion, token count, catalogs, redaction, statistics | none, or sequential counters | pure functions | none |

Interactions. VS Code calls the provider; the provider calls one of the two
transports and pulls an async iterator; cancellation is an `AbortSignal`. The App
Server transport takes a *lease* from the session, the session gets a JSON-RPC
client from the supervisor, and lines from the child's stdout come back through the
client and the session as handler calls. The transport owns the registry. The OAuth
transport shares one model cache between all its operations and gets tokens from
the OAuth manager.

What makes the components correct:

* registry — its two maps agree; every waiting call is bounded by a timer; the
  calls of a turn are answered together, and only by results meant for them;
* transport — no lost wake-up; no turn that nobody reads and nothing bounds; no
  tool call without an answer; leases given back; a failure is reported; the
  contract of `TurnContract`;
* supervisor — never two children, no orphan, no client of a dying child, the
  breaker, `stop` stops, and every call returns;
* model cache and OAuth transport — nothing from before a clear, one request at a
  time, callers do not cancel each other, `dispose` returns and leaves nothing;
* session — no client and no child after `dispose`; every listening lease hears of the
  end of its own client and of no other; the events that come before the turn id
  reach that turn, in order; joined promises wait for each other in no circle;
* JSON-RPC client — each request settles once; no write is left in the queue; the server
  hears of a cancellation exactly if it was given the request; each of its requests is
  answered once; handlers and callers go on in the order of the lines;
* OAuth manager — after a completed sign-out or sign-in nothing older is stored; one
  refresh of a generation at a time; no callback server left listening; every caller
  gets an answer.

## 2. Modules

```
ToolRegistry (operators) <--EXTENDS-- ToolContinuations <-- MCToolContinuations
      ^         ^                            ^
      |         +-- ToolRegistryProofs <-----+-- ToolContinuationsProofs
      |                   ^
      | INSTANCE          | INSTANCE
      |                   |
AppServerTransport <-- AppServerTransportProofs
   |  ^
   |  +-- MCAppServerTransport
   +--INSTANCE--> TurnContract (abstract specification)
JsonlRpcClient    <-- JsonlRpcClientProofs
AppServerSession  <-- AppServerSessionProofs
ProcessSupervisor <-- ProcessSupervisorProofs
ModelDiscovery    <-- ModelDiscoveryProofs
OAuthManager      <-- OAuthManagerProofs
```

A comment `MUTANT of X` marks an alternative body of operator `X` with a plausible
fault. No specification uses it; it documents which fault the property is there to
detect, and TLC does find the property violated with it.

**ToolRegistry** is the value of `ToolContinuationRegistry` as a record and each of
its operations as a function from record to record. `states`, `callMap`,
`callsById`, `timers`, `signal` are the code's fields; `surfaced` and `received` are
the flags of the call objects; `answer` is how the promise behind `respond`/`reject`
ended. `generation` and `leaseId` are one *lease*, `threadId` and `turnId` one *turn*.

**ToolContinuations** drives it with an arbitrary caller. One action per public
method (`resume` is split by its outcome: unmatched, aborted, refused, recorded),
`ToolTimeout` for the expiry timer and `Abort` for the listener.

**AppServerTransport** composes turns with the registry. A step is what JavaScript
runs between two awaits. `turn[t]` is the `TurnState` of the turn started by generate
call `t`; `phase` is the await `startTurn` is at, `stage` the one `consumeState` is
at, `cleanup` the one `terminateState` is at. Microtasks run before timers,
cancellations and new calls (`Quiet`); lines of the App Server may share a chunk, so
their handlers may run between microtasks. What the session returns, and what
the App Server sends, is nondeterministic.

**TurnContract** is the abstract specification: the running / waiting-for-tool /
terminated diagram of the design document with the calls each turn owes. The
refinement (`KeepsContract`) maps a turn to its phase and its registered calls.

**JsonlRpcClient** is one client with its two streams. `rpc` holds the client's fields:
`pending` and `armed` (a pending request, its timer and abort listener), `queue` and
`active` (`writeQueue`, `activeWrite`), `serving` (`serverRequests`), `closed`; with them
`wire`, what `write()` was given, `outcome`, how each caller's promise was settled, and
`micro`, the microtask queue. A callback runs to its end and the microtasks follow in
order; lines of one chunk are handled in one callback (`reading`). Callers may act between
microtasks, as they are resumed there. Operations are functions of `rpc`, each named for
the method it models, and `w` is what `write()` does with the data it is given. `heard`
and `asked` are histories: the lines whose continuation ran, how often the server used an
id. A line that is malformed, too long or not JSON-RPC is a line `bad`.

**AppServerSession** is the session over the clients 1, 2, … of the supervisor.
`session` has its fields; `op` the two promises `initializationPromise` and
`restartPromise`, each as the await its function is at and the client it talks to
(`start`, `queued` behind a stop, `aborted` by one, `initialize`, `probe`, `report`, and for
a restart `waiting` and `stopping`). `lease` has the lease records and what their user has
called: a lease joins an operation and goes on with it. `told` is `processExitNotified`
with whether a handler heard; `notes` and `calls` are the buffers filled between
`turn/start` and its answer. The supervisor is reduced to what `ProcessSupervisor` is
checked for (`sup`: the child, the next one, whether a stop runs). `given` and `answered`
are histories of the events that came, were heard and were answered. `lateStart`
remembers a disposal that met a start queued behind a running stop.

**ProcessSupervisor** has the supervisor's fields in `sup`, and `startPromise`,
`stopPromise`, `startAfterStopPromise` as `starting`, `stopping`, `later`: a
promise is the stage of the function behind it, and joining it is
`call[c].waits`. Child events and timers are unordered.

**ModelDiscovery** joins `ModelCache` with the operations of
`ChatGptOAuthTransport`. A load remembers which operation's signal it was made with.

**OAuthManager** indexes by generation (a value of `lifecycle`) what the code makes with
one: `signIn[g]` is the `ActiveSignIn` record, `clear[g]` the clearing of the store by a
sign-out or an invalid grant. `request` is the sequence of `postToken` calls, code exchanges
and refreshes alike; `refreshPromise` names the flight callers join, and its `waiters` are
the callers that wait for it. `queue` and `writing` are `storageQueue`. Of the loopback
server the model has what the manager sees: it starts or does not; a callback, the
five-minute timer or an error makes it stop listening (`draining`), and only when it has
closed itself (`closed`) does its callback promise settle, with a callback or a failure; it
rejects a callback still pending when the manager closes it. VS Code serves the
accesses to one secret in order, so loading the session and going on with it is one step.

## 3. Runs

| Run | Instance | What it shows |
|---|---|---|
| `tool_continuations` | 2 leases, 2 turns, 2 call ids, 2 signals, 2 results per resume; two calls of one turn, one call of another lease with a repeated id | maps agree, timers and listeners are owned, a call that waits has no answer yet, results count for their owner only, every captured call settles |
| `transport_chain` | one turn with two tool calls, three generate calls, 2 notifications, process exit | the reader never misses a call, no call is dropped, late results answer nothing; the contract holds: calls of a turn are answered in one step and a terminated turn owes none; a paused turn ends, leases come back, a stop ends its call |
| `transport_two_turns` | two concurrent turns whose tool calls carry the same call id | the memory of failed calls (kept by call id alone) never shuts out the other turn's result |
| `transport_failed_turn` | two generate calls | **violation** of `FailedTurnReported`, see below |
| `supervisor` | 3 calls of start/stop/restart, up to 3 children | never two children, an open client is that of the running child, the breaker, `stop` leaves no process, every call returns even if a child survives SIGKILL |
| `model_discovery` | 3 operations, 2 loads, 1 clear | who asks after a clear gets no models from before it, one load per generation, `dispose` returns |
| `shared_discovery` | 2 operations | **violation** of `CancelsOnlyItself`, see below |
| `oauth_manager` | 2 calls of `getAccessToken`, 2 generations, 2 token requests | what is stored is never older than a completed sign-out or sign-in, one refresh per generation, no server left listening by a settled sign-in, every call ends unless a token response's body stalls |
| `rpc_client` | 2 requests, 1 id of the server's, 3 lines | tables agree, no write is stranded, the server reads a conversation that makes sense, delivery is in the order of the lines, every request settles even if the server neither answers nor reads |
| `session` | 1 lease, 2 clients, 2 events | no event is lost around `turn/start`, every listening lease hears of its client's end, a disposed session stays dead, every call returns |
| `oauth_stalled_body` | 1 call, 1 generation, 1 request | **violation** of `RefreshesEnd`, see below |
| `oauth_manual_callback` | 1 call, 1 generation, 1 request | **violation** of `ManualCallbackSignsIn`, see below |

Bounds. Two calls in a turn is the least for "all together" to differ from "each on
its own", and lets one result arrive without the other; a third generate call lets
results come one by one and late. Two turns with one call id is the least for an id
to collide. Three overlapping supervisor calls suffice for a stop to meet a start
that waits for a stop, and three children for a replacement after two failures.
Three operations with two loads give one that made the load, one that joined it
and one that came after a clear. `MaxNotes`, `MaxGen`, `MaxLoads`, `MaxClears` cap
what would otherwise be unbounded. Two generations are the least for one to overtake the
other; two callers and two requests let them share a flight, join a given-up one, or
find the first flight gone. `MaxLifecycle` bounds sign-ins, sign-outs and invalid grants
together, `MaxRequests` the token requests. Two requests of the client let one be queued
behind the other's full write; one id of the server's can be in use, answered and used
again, and three lines put an answer between two server requests. One lease suffices for
the session because a lease's state depends on itself and the session alone (events
select the lease by its thread); two clients make a lease outlive its own, and two events
make an order. Deadlock checking is off: every one of these
systems really may stop (all calls returned, nothing left to do).

Fairness. Continuations of settled promises and armed timers run (Node's event
loop); each request to the App Server settles because `JsonlRpcClient` times it
out, each cleanup step because of `CLEANUP_TIMEOUT_MS`, each wait of the supervisor
because of its own timer, each HTTP request because of `withAbort`, each token request up to its headers because of
the 60-second timer of `postToken`, each callback server because of its five-minute timer,
and the secret store and `server.close` answer. In the JSON-RPC client callbacks,
microtasks and request timers run; in the session the supervisor's calls return and
the client's requests settle. The body of a token response is
not assumed to come. Nothing is assumed of
the user, of Copilot, of the model, or of a child process, which need not exit even
after SIGKILL. A response stream ends by itself only when `dispose` returns it.

### Findings

* `shared_discovery` — `ChatGptOAuthTransport.listModels` and `generateEvents` pass
  the signal of the first caller's operation into the shared load
  (`oauth-transport.ts:75`, `:134`). Cancelling that caller rejects the others with
  "cancelled", although the reliability design (`docs/superpowers/specs/2026-08-25-…:61`)
  excludes "direct propagation of a first caller's `AbortSignal` into shared model
  discovery", since "one caller can cancel without cancelling another caller's discovery".
* `transport_failed_turn` — the loop of `consumeState` ends on `state.cleaned`
  (`app-server-transport.ts:935`) before it looks at `state.failure`. If a value was
  just handed to the waiting reader when the turn fails (two lines in one chunk), the
  stream ends normally, without an error and without "completed".

* `oauth_stalled_body` — `postToken` stops its timer and its abort listener when the
  headers arrive (`oauth-manager.ts:582-585`) and then awaits `response.json()` without a
  bound. With a body that stalls, the refresh and every caller of that generation wait for
  ever; the reliability design (`:125`, `:136`) gives token requests 60 seconds.
* `oauth_manual_callback` — at the end of a manual completion the loopback server is closed
  (`oauth-manager.ts:421`) while its callback is pending; the close rejects that callback
  (`loopback-server.ts:245-260`), `observeCallback` runs first, sees a sign-in that is not
  terminal and rejects it. The session is saved but the sign-in fails, although
  `src/README.md:53` offers this way and `oauth-manager.test.ts:258-274` expects both
  promises to resolve (the fake server there leaves the callback pending on close).

One more disagreement is stated inside a property that holds. If `dispose` of the
session falls while a stop runs that a restart or a start is queued behind
(`process-supervisor.ts:133-150`, `:181-186`), it joins that stop; the queued start then
spawns a child that nobody stops, since the supervisor does not know of the disposal and
the extension disposes the transport only (`extension.ts:255-265`). The reliability design
(`docs/superpowers/specs/2026-08-25-…:221`) says that deactivation "leaves no managed
child process running". `DisposedForGood` names the exception (`lateStart`): TLC refutes
the property without it.

## 4. Proofs

All are for arbitrary values of the constants, from the modules' named assumptions only.

**ToolRegistryProofs** — lemmas only: what each operation does to a registry value that
is `Consistent` (type, agreement of the maps, ownership of timers and listeners, nobody
waits who has an answer). An operation keeps it, and it ends some calls (`EndedFrom`),
takes some (`TakenFrom`) or does neither. Both users of the registry rest on these
lemmas: one extends the module, the other instantiates it.

**ToolContinuationsProofs** — `TypeCorrect`, `MapsAlwaysAgree`, `AlwaysOwned`,
`NeverHalfAnswered`, and the action property `RecordsForOwner` (`RecordedOnlyForOwner`).
The inductive invariant adds to `Consistent` one fact about the environment: a request
that has not arrived is in no map and has no answer (`Fresh`). Without it a capture could
revive a call that was answered. That results count for one turn only comes from the maps'
agreement: the calls that `resume` finds are registered under the chain they belong to.

**AppServerTransportProofs** — `TypeCorrect`, `NoLostWakeUp` (`SleepingReaderHasNoCalls`),
`EveryCallPlaced` (`NoCallDropped`), `ResultsAccepted` (`WaitingCallsAnswerable`), the
action property `LateResultsAnswerNothing` (`OnlyLiveTurnsAnswered`), and `ContractKept`
(`KeepsContract`): the transport implements `TurnContract`, initial states and step by
step. The invariant has two parts. `Core` says of each turn by itself
how its fields hang together (`Shape`), of each turn with its calls in the registry that a
terminated or doomed turn owes none, a sleeping one has none and one about to show calls has
some (`Owes`), and of each tool request where it waits (`Placed`). `Outer` is about the calls
of `generate`, the signals and the memory of failed calls. One lemma per action shows that the action is `Kept`: `Core` holds after it and
the step is one the contract allows. From `Kept` a second lemma per action shows `Outer`.
The registry enters only through the lemmas of `ToolRegistryProofs`. The loops of the code
(an exit that terminates every turn, the flush of what a turn buffered) are one step of the
model over a set of turns or a sequence of events, and one lemma each says what they do to
a single turn (`OneEnds`, `FlushedFields`).

**ProcessSupervisorProofs** — `TypeCorrect`, `NoOrphans`, `ClientsAreLive`, and the action
properties `BreakerHolds` (`NoThirdTry`) and `StopsMeanIt` (`StopStops`). `Sound(sup)` says of
each record how *alive*, *settled*, *exited* and the client's state hang together
and that only the current record is alive. The latter is inductive only because
`startInternal` spawns with no current record, and because a record is dropped only
once its exit was observed, which needs the former. `InFlight` says which
child the start in flight is about. For the breaker, `Tallied` keeps the count: a child is excused once
its failure is counted or it is terminated on purpose, one that is not is the current child
and leaves the breaker room for its failure, and the breaker is open exactly at two.
`StartOwns` and `StopOwns` say whose child the current one is while a start or a stop runs,
so a `stop` that resolves has seen the only candidate exit. `Callers`
types the promises.

**ModelDiscoveryProofs** — `TypeCorrect`, `NothingOlderThanClear`, `SingleFlight`.
The invariant ties the cache to the loads: whatever it points at is of its own
generation, no load is of a later one, and a pending load of this generation is the
one in flight. That is why the generation check at the end of a load suffices.

**OAuthManagerProofs** — `TypeCorrect`, `NothingComesBack` (`StoredIsCurrent`),
`RefreshedOnce` (`OneRefreshPerGeneration`), `PortsClosed` (`NoPortLeftOpen`). What is
stored is in order only if what is *being* stored is (`StoredInOrder`): the check before
a save starts gives that only because a generation still to come has neither sign-in nor
clearing (`FutureIsEmpty`), and because the queue runs one operation at a time. A sign-in
counts as completed from the moment its session is saved and its server begins to close,
so a sign-in that is over and still has a server must already have its result, and one
that is settled has no server left to close (`SoundSignIn`). Steps that complete nothing
share one lemma (`Ordinary`). That a generation refreshes once follows from
`FlightIsJoined`: a refresh of the current generation that has not ended is the flight
`refreshPromise` names, so a caller that finds none to join knows that none is under way.
A flight its callers have given up is still that flight until it ends, and a sign-out or a
sign-in leaves the flights of the generations before it to themselves.

**JsonlRpcClientProofs** — `TypeCorrect`, `NothingStranded`, `AlwaysInOrder`,
`ConversationSound` (`ConversationIsSound`). Each
operation has a lemma that it keeps `Sound` (type and agreement of the tables). That no
write is stranded is not kept by the parts of an operation: a message is first queued and
then pumped. `pumpWrites` is the one that establishes it, whatever it finds, so every path
that queues has to end in it. For the order the invariant (`InOrder`) says that the lines
waiting in the microtask queue are later than those heard and earlier than those to come;
of an operation only matters whether the tasks it adds carry the line being read or none.
The conversation is about how often a message was given to the stream or waits for it.
`Times`, the number of its places in a sequence, is shown to be additive over concatenation,
so a write moves a message from one count to the other and their sum (`Sent`) stays. `Talk`
says of each call that its request was sent at most once and exactly once while it waits,
and that a cancellation is queued only if the request has left the queue; `Serves` says of
each id of the server's that the answers sent, plus the one still owed by a handler or a
microtask, are as many as the requests made with it, which needs that at most one microtask
is about it.

**AppServerSessionProofs** — `StaysDisposed` (`DisposedForGood`), `TypeCorrect`,
`ExitIsHeard` (`EveryLeaseHearsExit`), `EventsKept` (`NoEventLost`), for any number of
leases, clients and events. The session's own fields have an invariant no lease takes part
in (`Core`): an initialization and a restart are never both past what they join, and
neither beside a client in use; a running stop has taken the child and aborted the start;
after a disposal nothing that starts a child is left, except under `lateStart`. The rest
is said lease by lease. `Told`: a lease of the running child is a lease of the session's
client, so a handshake never installs a client under leases already told that it is gone.
`Kept`: only a `turn/start` in flight buffers anything, an active turn buffers nothing,
and what came for a listening turn is what was heard followed by what is buffered, so
neither the flush nor an event right after it can reorder them. Steps of the session are
grouped by what they do to a lease (let go of the client, close it, settle callers); steps
of one lease share `OneLease`, events `OneEvent`.

Only model-checked: the liveness properties (`EveryCallSettles`, `PausedTurnEnds`,
`LeaseGivenBack`, `StopEnds`, the two `CallsReturn`, `DisposeReturns`, `EveryoneAnswered`,
`RequestsSettle`), which need fairness and hence `ENABLED`, out of this prover's reach; and
the four properties that are violated. Every invariant and every action property that a
run checks is also a theorem. Induction over data (the
library's induction theorems take an operator as a parameter) is out of reach as well;
nothing above needs it: where an index has to be the least of its kind the proof takes it
from the well-foundedness of the numbers (`LeastNat`).

## 5. Not modelled

Contents: text, images, token usage, reasoning effort, tool arguments and results.
In `AppServerTransport` the session and the JSON-RPC client appear as answers that
come, fail or time out. The stateless components of the inventory are text
conversion. Of the OAuth manager, the validation of
callback URLs, PKCE, token contents and expiry are choices of the environment; so what a
second refresh would exchange once the first has ended is not distinguished. In the registry, `expiresAt` is always now plus the timeout and
`respond` cannot throw, because the only caller passes the resolve function of a promise.

JSON-RPC client: `notify` (one more message in the queue, nobody waits for it), the
registration of handlers (a line either has one or not), how bytes become lines, and a
handler's result that cannot be serialized, which `sendServerResponse` would swallow
(`jsonl-rpc-client.ts:471-478`) and so leave its request unanswered: the session's handlers
return plain text and flags, so no run of the program gets there.
Supervisor as the session sees it: a stop that fails, because the child survives SIGKILL
(`process-supervisor.ts:633-634`), differs from one that succeeds in how promises end, not in
who goes on. What waited for it fails, a step (`StartFails`) the model has after every stop;
the promise of `dispose` then rejects after the same two waits
(`app-server-session.ts:529-539`). The child that survives has a closed client and stays with
the supervisor, and `ProcessSupervisor` models it; in the session's model, and so in
`DisposedForGood`, it is no longer a child.
Session: the security failure of `handleItemStarted`, which only marks a turn; the
contents `readAccount` and `listModels` return; what an aborted `thread/start` or a
cancelled `turn/start` leaves behind inside the App Server, which is not this code.
Commands and activation: the start, stop and restart commands and the import appear as
callers; menus and messages do not.

HTTP client and SSE parser: one request with one retry and a sequential parser over bytes;
both are bounded by tests more cheaply than by a model of text. Usage accounting compares
numbers the App Server sends.

## 6. Plan

1. Usage accounting of the transport (the two usage notifications) and the retry of the
   HTTP client after a 401, with two requests that both refresh; the SSE parser against a
   reference on bounded chunkings.
2. Proofs: the safety half of the liveness properties, that is, invariants saying that what
   waits is bounded by something that is armed (a paused turn has its calls' timers, a caller
   of the session or the supervisor waits for an operation that is under way), which leave to
   the model checker only that armed timers fire.
