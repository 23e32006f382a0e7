# Codex JS: TLA+ models, checks and proofs

This directory is a verification project for `codex-js`, a TypeScript port of
the Codex app server: a server that keeps conversation *threads* with a coding
model, runs *turns* on them, lets the model call *tools*, and talks JSON-RPC
with browsers over a WebSocket. Everything runs on JavaScript event loops, so
the difficult part of the system is what happens **between awaits**: who looks
at state before an await and uses it after, whose `finally` runs late, which
promise is never settled.

Paths below are relative to `src/packages/codex-js/src/internal/codex/`.

## 1. Inventory

| Component | State it keeps | Operations | What is hard | What makes it correct |
|---|---|---|---|---|
| **Turn lifecycle** (`core/src/session/session.ts`, `core/src/state/turn.ts`, `core/src/session/turn.ts`, `core/src/compact-task-runner.ts`, `app-server/src/session_task_runner.ts`, `app-server/src/request_processors/turn_processor.ts`) | `Session.activeTurn` with its tasks, pending calls and steered input; the run of each turn; the abort controller | `turn/start`, `thread/compact/start`, `turn/steer`, `turn/interrupt`; `spawn_task`, `runTurn`, `on_task_finished`, `failTurn`, `abort_all_tasks` | An aborted run unwinds while the next turn runs; a turn is completed twice; requests await hooks and stores with the turn half set up | One run works for a thread; a live call can be answered; a turn reported ended has stopped; input steered to a turn reaches it; every turn is reported ended |
| **Tracked turn history** (`app-server/src/thread_state.ts`, `core/src/thread-history-builder.ts`) | history of the turn in progress, for clients that attach | `trackCurrentTurnEvent` | Events of an old turn arrive during a new one | The turn that runs is the one tracked |
| **Tool execution gate** (`core/src/tools/parallel.ts`) | counters of readers and writers inside, FIFO queue, abort signal | acquire, drain, release, `raceAbort` | Wakeups, overtaking, an abort that answers a call whose body goes on | Exclusion, arrival order, no lost wakeup, every call returns |
| **Tool dispatch and handlers** (`core/src/tools/`) | registered tools, permission grants | dispatch, hooks, ask the client | Abandoned bodies | Answers go to the call that asked |
| **Remote client** (`app-server-client/src/remote.ts`) | current WebSocket, open and initialize promises, pending requests, event queue | `request`, `events`, `close`; socket events | Check-then-act around awaits, late events of replaced sockets, a queue that reopens | Every call settles; no event loop sleeps on news |
| **Server requests** (`app-server/src/outgoing_message.ts`, `app-server/src/runtime.ts`, `server/app-server.ts`, `server_request_routing.ts`) | callbacks and core targets by request id, next id, stored records of pending requests | send, store, deliver, answer, resolve, reject | Two clients answer one prompt; disconnects; sends that throw; ids that start again after a restart | The call that asked gets the answer to its own prompt, once; a shown prompt can be answered |
| **Subscriptions** (`app-server/src/thread_state.ts`, `server/app-server.ts`) | live connections, subscriptions of connections to threads | subscribe, close | Closing while a request is served | No closed connection is live or subscribed |
| **Request queues** (`app-server/src/request_serialization.ts`, `connection_rpc_gate.ts`, `message_processor.ts`) | promise chain per scope, requests in flight, initialized flag | enqueue, run, answer, defer, close | Closing with requests queued; failing sends; an `initialize` that fails | One request of a scope at a time, in order; close waits for what was admitted; every accepted request settles |
| **Thread event store** (`app-server-client/src/thread_event_store.ts`, `pending_requests.ts`, `thread_projection.ts`) | unanswered server requests, buffered events, projection of the thread | push, note answered, replace on connect | What is kept over a reconnect | Prompts that are shown can be answered |
| **Thread store and rollout** (`thread-store/`, `core/src/thread-store/live-thread.ts`, `core/src/rollout/`) | histories in memory; for the local store one JSON file | create, load, append, resume, metadata, archive | Calls that overlap and each write the whole file; `thread/start` on each connect; crashes | What was answered is in the file, once and in order |
| **Context manager** (`core/src/context_manager/`, `core/src/compact.ts`) | model-visible history, reference context item | record, normalise, replace, roll back, reconstruct | Tool outputs that come late; compaction with an await in its middle; rollback over compaction | Every call in a prompt has one output; a resumed history equals the live one; user messages are kept |
| **Goals runtime** (`core/src/goals/runtime.ts`) | snapshot of token totals per turn | turn started, tool finished, turn ended | Charging around an await | Never active: no goal store exists (see 5) |
| **Agent registry** (`core/src/agent/`) | count of sub-agents, nicknames, mailboxes | reserve, commit, release | Paths that release twice or never | Nothing calls it (see 5) |
| MCP clients, model client, hooks, configuration, protocol types, server adapters, React bindings | see `PROJECT.json` | | | mostly outside: networks, external SDKs and processes, formatting |

How they interact: a client's request enters through a connection's message
processor, waits in the queue of its thread (`request_serialization.ts`) and is
handled by a request processor, which calls `Session`. `Session` keeps the
active turn and starts a background run; the run streams from the model and
starts tool calls, which pass the gate. Tools may ask the client: the session
registers a callback in the active turn's `TurnState` and emits a server
request. Events are persisted first (`send_event_raw`), then delivered to
`ThreadState` and to the subscribed connections. On the other side the remote
client turns calls into messages and messages into settled promises and events.

`PROJECT.json` lists every component with its status and, under `hazards`, what
is hard to test in it, each at its line.

## 2. Modules

| Module | Role |
|---|---|
| `TurnSlot` | What a thread promises about turns: one slot, taken by a fresh turn only when free. Abstract. |
| `TurnLifecycle` | The turns of one thread as the code runs them. |
| `MCTurnLifecycle` | TLC instance; `TurnSafety.cfg`, `TurnLiveness.cfg`, `TurnRejection.cfg`, `TurnTracking.cfg`. |
| `TurnLifecycleProofs` | The inductive invariant of `TurnLifecycle` and the theorems. |
| `ExecutionGate` | The tool gate with the calls around it. |
| `MCExecutionGate` | TLC instance; `ExecutionGate.cfg`, `ToolBodies.cfg`. |
| `ExecutionGateProofs` | The gate's books, exclusion, order and wakeups. |
| `AppServerClient` | The remote client. |
| `MCAppServerClient` | TLC instance; `ClientConnection.cfg`, `ClientSettles.cfg`. |
| `AppServerClientProofs` | Its four safety properties, for any callers. |
| `Serializer` | What the request queues promise: one piece of work per queue at a time, in order of arrival. Abstract. |
| `RequestQueues` | Connections of the server and their requests: queues, gates, `initialize`, deferred answers, close. |
| `MCRequestQueues` | TLC instance; `RequestQueues.cfg`. |
| `RequestQueuesProofs` | The gate's count, the order of the queues, the refinement of `Serializer`. |
| `ServerRequests` | Requests the server sends to clients, from the session's call to the routing of an answer. |
| `MCServerRequests` | TLC instance; `ServerRequests.cfg`. |
| `ServerRequestsProofs` | Its four safety properties, for any clients, requests and restarts. |
| `LiveHistory` | The history of a thread in memory and in the rollout. |
| `MCLiveHistory` | TLC instance; `LiveHistory.cfg`. |
| `LiveHistoryLemmas` | What the operators on histories do: selection, rollback, prompt normalisation, for histories of any length. |
| `LiveHistoryProofs` | The inductive invariant of `LiveHistory` and its five properties. |
| `LocalThreadStore` | The thread store over one JSON file. |
| `MCLocalThreadStore` | TLC instance; `LocalThreadStore.cfg`. |
| `LocalThreadStoreProofs` | Inductive invariants for its four properties. |

How they fit: `TurnLifecycle` serves one request of its thread at a time;
`RequestQueues` shows that the queues give it that (`Serialized`).
`TurnLifecycle` has a call wait for an answer; `ServerRequests` takes over what
lies between that call and the clients, and treats the end of the turn as one
step, `EndTurn`. `LiveHistory` takes the control of turns from the same code and
keeps what turns record; the store it appends to is the in-memory one, and
`LocalThreadStore` says what the file-backed one adds.

Some modules hold *slips* next to a definition: an operator that does what a
plausible mistake would do there (a missing guard, a wrong turn). They are in no
specification; they exist to see that a property notices them.

### TurnLifecycle

The unit of atomicity is the code between two awaits that leave the process
(persistence, hooks, the model, a tool, a client). Microtask turns inside such a
stretch are merged, since nothing else of the thread can observe them.

| State | Code |
|---|---|
| `activeTurn`, `hasTask` | `Session.activeTurn` and whether its `tasks` map holds a task |
| `pending`, `pendingInput` | the callbacks and the steered input of the active `TurnState` |
| `run`, `steps` | program point of each turn's `spawn_task` promise; sampling steps |
| `aborted`, `abortController` | signals that fired; `RuntimeSession.abortController` |
| `call` | the interactive tool call of a turn: in its hooks, waiting, over |
| `handler` | the request the thread's queue is serving, and where it awaits |
| `tracked`, `ended` | turns in `ThreadState.currentTurnHistory`; terminal events delivered |
| `abandoned`, `faults` | runs an interrupt failed to reach; injected failures so far |

Actions follow the handlers: `StartTurn`, `DeliverStarted`, `SpawnTask`,
`StopByHook`, `DeliverStopped`, `StartFails` are the pieces of
`turnStart`/`threadCompactStart`; `Steer`, `Interrupt`, `AbortTask`,
`DeliverAborted`, `InterruptFails` the other requests; `SetupDone` to
`PersistFails` the run; `AskUser`, `AskPermission`, `RegisterPermission`,
`CallReturns`, `Answer` the call. A failing action is the `catch` or `finally`
the code really takes: a failed run is failed a second time by `spawn_task`'s
catch, a completed one completed a second time.

The handlers of one thread are serialised by its request queue
(`app-server-protocol/src/protocol/common.ts`, `thread` scope), hence one
`handler`. A turn has at most one interactive call at a time; its items, prompts
and token counts are left out, and so is the `shutdown` operation, which nothing
in the repository calls.

### ExecutionGate

`queue`, `activeReaders` and `writerActive` are the gate's fields, `pc` the place
of each `handle_tool_call_with_source`, `body` the tool's own promise, `aborted`
the signal; `arrival` is a history of the order in which calls came. `Arrive` is
the entry up to the grant or the queue, `Dispatch` the continuation of a granted
call, `BodyEnds` the tool, `Release` the `finally` with its `drain`, `Abort` the
signal.

### AppServerClient

Each `openSocket()` is a numbered socket with a `phase`: asking for its url,
connecting, open, lost (closing, not reported yet), erring, closed. `pc` is
where each caller of `request()` or `events()` is; `initPending` and
`reqPending` are the entries of `pendingRequests` (every handshake uses id 0,
every request its own id); `values`, `closed`, `failed` and `reader` are the
event queue and the loop that reads it. `outstanding` and `greeted` stand for
the server: it answers the requests of a connection, accepts one `initialize` on
it and refuses other requests before that (`message_processor.ts`); a method's
own error answer would settle its request just as a result does and is not told
apart. Browser events and user code run only when no continuation of a settled
promise is left (`Quiet`), as microtasks run before the next task. Sending a
response to a server request uses the same `ensureOpenSocket` and is not
modelled, nor is a user's own `initialize`.

### RequestQueues and Serializer

One action per stretch between awaits. `Accept` is `accept()` up to its first
await: the connection is subscribed to the thread a request names, and the
processor answers at once (`initialize` again, not initialized, experimental
method), calls the initialize handler, enters the gate, or chains the request to
the tail of its scope. `Start` is the queued function once the tail before it
has settled; it asks the gate of its own connection, which refuses after
`close()`. `Cleanup` is the `finally` that removes a tail from the map if it is
still the last. `SendResponse`, `SendError`, `LeaveDeferred` and `SendDeferred`
answer; `Continue` is what `accept()` does afterwards (live connection,
subscription to the thread of a result). `Close` and `Closed` are the two halves
of `close()`, with the draining of the gate between them.

| State | Code |
|---|---|
| `conn`, `inFlight` | the connection and its `ConnectionRpcGate` |
| `initialized`, `live`, `subs` | session state, `ThreadStateManager.liveConnections`, the server's subscriptions |
| `tails`, `prev`, `cleaned` | the map of tails, the promise a request was chained to, tails that have settled |
| `phase`, `answer`, `background` | where the processing of each request is, what its client got, deferred work |
| `ahead`, `late` | histories for the properties: who was in the queue; connections closed with work in progress |

Handlers are opaque: they return, throw, or defer.

### ServerRequests

`Ask` is the session registering its call and emitting its event; `Emit`,
`Put`, `Deliver` are `sendRequestWithHandle` (id and callback), the store of
pending records and the send to the subscribers of that moment. A store or a send
that throws is `SendFails`: some of the subscribers are sent the request, and may
answer it, before `Unregister`, the catch, removes the callback. `Answer` is a
client's message, `Take` the removal of the record (`TakeFails` when the store
refuses), `Submit` the routing by callback and core key, `Finish`
the `serverRequest/resolved` that makes clients drop the prompt. `ExecuteEnds`
and `FinishExecuted` are the same path for a dynamic tool the server executes.
`EndTurn` cancels waiting calls; `Join` and `Leave` are clients that subscribe
and close, with or without the page that shows the prompts; `Restart` is a new
process, in which ids start from 0, records may have been durable and sockets
may have been restored without their subscriptions.

Routing is by id, as in the code: `SameId` decides, not the identity of the
request, which is what the properties compare it with. The kinds of requests the
session routes by core key are one kind here.

### LiveHistory

`live` is the `ContextManager` (items and reference context item). `rollout` is
what `reconstructHistoryFromRollout` would make of the stored entries: the
reconstruction is a left fold over them, so each appended entry applies its case
to `rollout` (`RecordItem`, `ReplayCompacted`, `ReplayRolledBack`,
`ReplayTurnContext`), and `Restart` makes `live` equal to it. Items are
abstracted to context (whole or update), user message, summary, call, output,
abort marker. `CutIndex` is `dropLastNUserTurns` with its trim, `ForPrompt` the
normalisation, `CompactRead`, `CompactPersist`, `CompactReplace` the three parts
of a compaction by the model, `CompactWithoutModel` the compact Op. The context
of a turn is recorded in one message or two (`RecordContext`,
`RecordContextMore`).

What a compaction keeps of the user messages depends on their texts
(`compact.ts:32-104`): it takes the text alone, drops a message that has none
(only images), and goes from the newest back until 20,000 tokens are full, the
last one it takes cut short. `Texts` is the set of turns whose message has text;
`Room` holds the sets of turns whose texts together come to less than the limit.
A message cut short counts as kept. `CollectUserMessages` and
`SelectRecentUserMessages` use these sets, which are constants because a message
is written once.

A compaction starts from the live prompt, or, when that is empty, from the history
its task loaded (`compact-task-runner.ts:50-56`). `LoadHistory` is that load in
`startCompactTask`, which comes before the turn is started (`StartCompact`), so a
rollback may fall between the two; `RecordUser` includes the load of a regular
turn.

The store's appends take effect when they are called and do not fail, which is
what the in-memory store does. Assistant messages, images beside a text, and the
notice of a changed model are left out, and so is steered input, which
`turn.ts:231-244` hands to the model without recording it. `Rollback` and the
compact Op are operations of `Session` that its `submit` accepts; the app server's
`thread/rollback` is not wired to them.

### LocalThreadStore

A call reads the file (`ReadFile`, `ReadFails`), replaces the memory by it and
does its work there (`Looked`, `Apply`, `Unknown`), takes a snapshot (`Capture`),
opens the file, which empties it (`Open`), and writes (`Write`). A `start` is
`thread/start` as a chat makes it on each connect, with the id of its thread: it
looks the thread up, resumes it if that succeeds, and creates it otherwise; it
is in no queue. `does` is the call of the store it is making. An `append` is a
session's. Metadata, archive and flush have the shape of an append, `loadThread`
and listing that of a look.

`Write` may leave the end of a longer document that another call wrote into the
same file between the two steps (`MayLeaveEnd`), which does not parse. A long
document is written in pieces, and until the last one the file of another call is
overwritten in part (`WritePiece`).

## 3. Runs

| Run | Bounds | What it shows |
|---|---|---|
| `turn_safety` | 2 turns, 2 sampling steps, 2 failures | `TypeOK`; `SpawnFindsTask`: a start request finds its own task when it spawns the run, whatever older runs did in its awaits; `SingleLiveRun`: no two runs work for the thread; `LiveCallAnswerable`: a live run's waiting call is registered where answers arrive; `EndedMeansStopped`: after a terminal notification the run has stopped; `SteerReachesRun`: steered input leaves a continuing turn only for its own run or to an older run that still unwinds; `ImplementsSlot`: refinement of `TurnSlot` |
| `turn_liveness` | 2 turns, 1 step, 1 failure | `AbortedRunSettles`: an aborted run settles whatever it waits for; `TurnEndsOrAsks`: a started turn is reported ended, or its call waits for an answer that can be given, or something was made to fail |
| `turn_rejection` | 2 turns, 1 failure | violated: see findings |
| `turn_tracking` | 2 turns, no failure | violated: see findings |
| `execution_gate` | 2 parallel and 2 exclusive calls, an abort anywhere | `ExclusiveInside`, `ExclusiveBodies`, `ConflictsInOrder`, `HeadWaitsForConflict` (no lost wakeup), `QueuedCallReturns` (if tools return), `AbortReturnsCalls` (even if they do not) |
| `tool_bodies` | the same | violated: see findings |
| `client_connection` | one request, one event loop, up to 4 sockets, one `close()`, one server message | `SentCanSettle`: what is on the wire is registered and its socket has an end to report; `WaitingMeansQuiet`: the loop never sleeps on an event, a close or a failure; `RejectedByTeardown`: what can reject a request whose connection lives; `SettlesUnlessOvertaken`: every call settles, or the handshake it awaits lost its entry under id 0 |
| `client_settles` | the same without `close()` | violated: see findings |
| `request_queues` | 2 connections, one restored from a snapshot and one that may close; an `initialize` and 3 requests of one thread, one with an optional scope and a deferred answer, one experimental | `CloseWaits`: a closed connection has no handler running; `ClosedForgets`: it is neither live nor subscribed unless work overlapped the close; `InitializedIsLive`; `Serialized`: refinement of `Serializer`; `EveryRequestSettles`: if handlers and sends end, every accepted request is answered or its connection is gone, and every close completes |
| `server_requests` | 2 requests, one of them a dynamic tool call, one whose sends may fail and one whose answers the store may refuse; 2 clients, one of which comes and goes; 1 restart | `OwnAnswers`: a call gets the answer to its own prompt, or to one of an earlier process with its id; `PromptAnswerable`: a shown prompt of this process has its callback, and its record or an answer on the way, but for the exceptions it names; `OneAnswerRouted`: of two answers to one prompt one is routed; `AnswerSettles`: an answer that was received settles the waiting call, if its send had not thrown and the store does not refuse it |
| `live_history` | 2 turns whose messages have text, the second of which fills what a compaction keeps; 2 settings, 1 tool call, 2 compactions, 2 rollbacks of 1 or 2 turns, 1 restart, developer instructions | `PromptWellFormed`: each call in a prompt has one output after it, and nothing else is lost or moved; `ReplayAgrees`: the rollout reconstructs the live history; `UserMessagesKept`: user messages go by rollback, by the compact Op, or by a compaction that has no room or finds no text, and what has gone does not return; `SettingsStated`: the reference context item is what the history last told the model |
| `local_thread_store` | 2 threads, 3 starts, 2 appends, 1 crash | `AloneIsDurable`: a write that overlapped no other call stays, unless a start erased its thread, which takes an overlapping start of it; `InOrderOnce`: no append is doubled and answered ones keep their order; `FailuresExplained`: what an unreadable file and a rejected call come from |

Why these bounds. What can go wrong between turns is between an old turn and the
one that is active: two turns have every such pair, and the theorems cover any
number. Two steps are needed for a loop that goes on and then meets its limit;
two failures for a failure inside the handling of a failure. In the gate, two
readers and two writers give every order of a reader group and a writer, before
and behind; exclusion, order and wakeups are proved for every finite set. In the
client, a caller opens at most two sockets (for its handshake and for its
request), so two callers and four sockets include an old socket reporting while
a new one connects; the theorems cover any callers. In the queues, three
requests of one scope make a queue in which the middle one may be refused,
deferred or answered late while the tail is replaced; the theorems cover every
number of requests, scopes and connections. In the server requests, two requests
suffice for an answer meant for one and given to the other, and one restart for
ids that repeat. In the histories, two turns give every relation of a turn to a
late output, a compaction or a rollback of another; single runs with three
turns (without tool calls), with two tool calls, with two restarts (each with one
compaction and one rollback), and without developer instructions also pass, and so
do runs in which both messages fit what a compaction keeps and in which the second
has no text; the theorems cover any number of each, rollbacks of any depth, and any
`Texts` and `Room`. In the local store, three overlapping calls
are the least for a look that reads while one call has the file open and a third
has answered. Deadlock checking is off in all runs but `server_requests`,
because turns, calls, callers and requests are used once: a behaviour in which
all are over stops.

Fairness. Pending promises go on: the request being served, each run, the hooks
of a call, a granted call, a caller whose promise is settled. A model's stream
ends or throws; a tool or a store need not fail, so an aborted run that settles
does so because its calls are raced against the signal. In the client a socket
that connects opens or fails, one that is closing says so, and a connected
server answers. Nothing makes a client send a request or answer a question,
nothing makes a tool's body return (only `QueuedCallReturns` assumes it, in its
statement), and no failure is bound to happen. In `RequestQueues` promises go
on; that handlers and sends end is assumed in the statement of
`EveryRequestSettles` only. In `ServerRequests` an answer that was received is
routed to the end; nothing makes a client answer, or the session ask.

### What the runs also showed

Properties that hold carry their exceptions in their statement. Each exception
is a behaviour of the code that a run found:

* **Server requests.** Ids start from 0 in every process, so an answer to a
  prompt left from before a restart can settle a later call with the same id
  (`OwnAnswers`). A send that throws at one client removes the callback although
  another client shows the prompt. When the store refuses to take a record, the
  answer is dropped, whether or not the record is gone
  (`app-server.ts:292-313`). A client that was away when a prompt was resolved
  keeps it: a chat that has started keeps its store when it reconnects
  (`chat-lifecycle.tsx:466-485`, `thread_event_store.ts:487-499`). A request
  sent while nobody is subscribed is not sent again.
* **Connections.** A message still processed when its connection closes marks
  the connection live, or subscribes it, after it was forgotten; an `initialize`
  whose handler fails leaves the session initialized.
* **Histories.** A rollback that drops a context update keeps the reference
  context item (`session.ts:1835`), so the next turn sends no update; with
  developer instructions the live history clears it and the replay does not
  (`history.ts:356-388`, `rollout-reconstruction.ts:39-43`). A process that dies
  between a context item and its `turn_context` entry resumes with a reference
  older than its history. A compaction that ends after its turn was interrupted
  puts back what it had read: rolled-back messages return, later ones are lost.
  A compact task loads the history before its turn is started; when a rollback
  falls between and leaves the live prompt empty, the compaction is made of what
  was rolled back. A compaction drops what the user said earlier once later
  messages fill its limit, and every message without text (`compact.ts:32-97`).
  Items recorded between `recordCompactedItem` and `replace_history` are lost to
  the live history. A compaction's summary counts as a user turn in a rollback.
* **Local store.** Calls that overlap overwrite each other's work although both
  are answered. A `thread/start` whose look-up meets a file that another call
  has just emptied takes the thread for unknown, and `createThread` erases its
  history (`thread_processor.ts:375-396`). A crash during a write, or two writes
  at once, leave a file that makes every later call reject.

### Findings

* `turn_rejection` (`RejectionMeansRunning`): `turn/start` is refused with "A
  Codex turn is already active for this thread." for a turn whose start failed
  between `start_task` and the spawn of its run; no run exists, and only an
  interrupt frees the thread.
* `turn_tracking` (`ActiveTurnIsTracked`): an error or `turn_complete` of an
  old turn that is persisted late removes the running turn from the tracked
  history. The next item event of the running turn adds it again, without what
  it did before (`thread-history-builder.ts:439-456`); item events are not
  modelled.
* `tool_bodies` (`ExclusiveToolAlone`): after an abort, an exclusive tool that
  was queued is dispatched while the abandoned body of another goes on.
* `client_settles` (`RequestSettles`): two calls made before the handshake both
  send `initialize` with id 0; the first one's promise never settles.

## 4. Proofs

`TurnLifecycleProofs` proves, for every `MaxTurns`, `MaxSteps >= 1` and
`MaxFaults` (`BoundsAssumption`), that `TypeOK`, `SpawnFindsTask`,
`SingleLiveRun`, `LiveCallAnswerable` and `EndedMeansStopped` are invariants,
that no step violates `SteerReachesRun`, and that `TurnLifecycle` implements
`TurnSlot`. None of the invariants but `TypeOK` is inductive alone.
The invariant `IInv` adds:

* `LiveRunOwnsSlot`: a live run holds the slot with its task, except while the
  interrupt that took the slot from it has not reached the abort. Two live runs
  would hold one slot, which gives `SingleLiveRun`.
* `SlotClean`, `CallsOfRuns`: where calls can be registered, and that only a
  run that began has one.
* `FreshTurns`: turns after `last` have done nothing, so a start begins from a
  clean turn.
* `StartingTurn`, `InterruptedTurn`: what a request that awaits has left behind.

The preservation proof does not go through every pair of action and conjunct.
`RunFrame`, `SlotFrame` and the frames of a call say what any step of a run or
of a call may do as far as the invariant can tell (an old run removes no other
turn's task, never starts working again, ends no other turn); each action is
shown to stay within its frame once, and the invariant is shown to survive any
step within a frame. Requests are treated one by one.

`ExecutionGateProofs` proves, for every finite set of calls
(`CallsAssumption`), that the counters are the cardinalities of the sets of
calls inside, that the queue holds each waiting call once and nothing else, and
that until an abort a body runs only inside its call. The heart is
`DrainKeepsBooks`: from any consistent books `drain` leaves consistent books.
`ExclusiveInside` and `ExclusiveBodies` follow: no reader and no writer counted
means nobody inside. `ConflictsInOrder` and `HeadWaitsForConflict` rest on
`DrainGrants`: what `drain` lets in is a prefix of the queue, one writer or only
readers, and it stops at a call that conflicts with somebody inside. So the queue
keeps the order of arrival, and a call that has passed it found every earlier
call it conflicts with returned (`Ordered`); the call at the head has a writer
inside, or is a writer and finds readers (`Headed`).

`AppServerClientProofs` proves, for any callers and bounds (`CallersAssumption`),
`TypeOK`, `SentCanSettle`, `WaitingMeansQuiet` and `RejectedByTeardown`. The
invariant splits into the queue of events (`QueueInv`) and the calls (`CallInv`).
That sockets never run out is a counting argument: each opening is charged to a
caller that makes its `initialize` request or goes on to its own, and neither is
undone (`Charged`). The rest needs that a caller waits for at most one socket
(`Waiters`), that a handshake belongs to the caller that made it (`Progress`), and
that the registered requests are exactly those on the wire (`Registered`), which
a teardown rejects together.

`ServerRequestsProofs` proves, for any clients and requests and however often the
process restarts (`RequestsAssumption`), `TypeOK`, `OwnAnswers`,
`PromptAnswerable` and `OneAnswerRouted`. Ids are unique within one life of the
process and below its counter (`Ids`); what is registered, stored, shown or
answered was sent under its id (`Known`); while an answer is routed nothing is
stored under its id (`Taken`), so that a second answer is turned away; and a
registered prompt that is shown is stored or on its way, unless its send has
thrown or the store has refused an answer to it (`Stored`).

`RequestQueuesProofs` proves, for every finite set of requests, any connections
and any scopes (`QueuesAssumption`), `TypeOK`, `CloseWaits`, `ClosedForgets`,
`InitializedIsLive` and that `RequestQueues` implements `Serializer`. Two
arguments carry it. The gate's counter is the cardinality of the running
requests of its connection, so that a gate that has drained has none running. And
a queue is a chain: who was `ahead` of a request is its `prev` and who was
`ahead` of that, a tail that is gone from the map has settled with everything
before it, and a request whose predecessor has settled has nothing unfinished
ahead of it, which is the guard of `Begin` and `Refuse`.

`LocalThreadStoreProofs` proves all four properties of `LocalThreadStore` for any
threads, calls and number of crashes (`StoreAssumption`). `InOrderOnce` rests on
the histories a call carries: each holds only appends that were applied, and an
append answered before another was made is not put after it, since appending is
at the end and nothing else adds. `AloneIsDurable` needs to know what *every*
snapshot holds: once a call has answered alone, the file, the memory when it
counts, and all data read or captured since hold its work (`Solid`, `Kept`,
`OwnWork`, `OwnStart`), because no call that was running then had read an older
file. `FailuresExplained` follows from these: a bad file was cut or collided, and
an append misses its thread only where the start that made it was not alone.

`LiveHistoryProofs` proves the five properties of `LiveHistory` for any settings,
with and without developer instructions, and any number of turns, calls,
compactions, rollbacks, turns dropped by a rollback, and restarts, whichever
messages have text and leave room (`HistoryAssumption`). It rests on
`LiveHistoryLemmas`:

* *Histories of any length.* The prover cannot use the library's induction
  theorems on sequences, which take a predicate as a parameter. `AppendInduction`
  takes a *set* of sequences instead (it holds the empty one and is closed under
  `Append`) and is itself proved from the well-foundedness of the natural
  numbers. Each operator on histories is then described by what `Append` does to
  it.
* *Prompts.* A history in which no call and no output stands twice, and no output
  before its call, gives a well-formed prompt (`GoodPrompt`).
* *Selection.* Of messages in the order of their turns,
  `SelectRecentUserMessages` keeps a suffix, and it is exactly that of `Recent`.
* *Rollback.* `CutIndex` finds the n-th last user turn and then trims the context
  before it. `KeepRest`: rolling back commutes with leaving items out of a
  history, if what is left out starts no turn and does not separate context items
  that the trim would then join (`Clean`). This is why markers, and tool items
  that raced with a compaction, do not make the two histories drift apart.

The inductive invariant `IInv` is what each variable holds (`Types`), who runs
(`Runs`), and five relations between the histories and the rest of the state:

* `Prompts`: both histories fit `GoodPrompt`, and hold only calls that were made
  and outputs of tools that ended, so that a late output stands after its call
  or has lost it.
* `Replays`: while nothing raced with a compaction, both histories are the same
  but for markers; while one is being replaced, the rollout holds what the
  compaction is about to put into the live one, and only one is.
* `Follows`: the same whatever raced, up to the calls and outputs that did
  (`Agrees`), unless a compaction was late. `Agrees` contains the `Clean` that
  the next rollback needs.
* `Spoken`: each history has the user messages of `said`, once each and in the
  order of their turns (`Ordered`), and what the active turn's compaction has
  read has those with text. The order is what makes the suffix a compaction
  selects from a sequence the set of the most recent turns with room (`Recent`).
* `Stated`: each reference context item is what its history last stated, and
  while a turn takes its context in both last stated the turn's settings.

`Follows` gives a theorem of its own, `OnlyToolItemsLost`: what a recording
between the two halves of a compaction costs the live history is at most tool
calls and their outputs, never a message or a context item. For the same reason
`SettingsStated` needs no exception for such recordings.

Only model-checked: the liveness properties `AbortedRunSettles`,
`TurnEndsOrAsks`, `QueuedCallReturns`, `AbortReturnsCalls`, `AnswerSettles`,
`EveryRequestSettles` and `SettlesUnlessOvertaken` (fairness and `ENABLED` are
outside the prover's reach). Every invariant and action property of the passing
runs is a theorem.

## 5. Not modelled

The share of the repository's lines that the models translate is small: most of
its lines are user interface, generated protocol types, event mapping, adapters
of external SDKs and formatting. What keeps state and runs concurrently is
modelled, but for:

* **Goals runtime.** It accounts to a `ThreadGoalStore`, an interface nothing
  implements, and `session_factory.ts` sets none: every event is ignored.
* **Agent registry and mailboxes.** A session holds an `AgentControl`; no server,
  session or tool calls it. Its operations are synchronous.
* **`cancelRequest`, `cancelRequestsForThread`, `tryEnsureConnectionSubscribed`,
  listeners of `ThreadStateManager`, the `shutdown` Op.** No callers.
* **MCP connections and clients, model client, hooks.** Networks and external
  processes. Their outcomes are choices in `TurnLifecycle`: a stream yields,
  ends or throws; a hook goes on, stops the turn or throws; a tool need not end.
* **Configuration, permissions, prompts, protocol types, event mapping,
  projection of events to a rendered thread, React components.** Pure functions
  of data and rendering; no property of the system's control depends on their
  detail.
