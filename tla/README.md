# TLA+ models of the RoadRunner Temporal bridge

This directory holds TLA+ specifications of the Go side of
roadrunner-temporal, together with the TLC configurations that check them.
The Go side is the bridge that runs Temporal workflows in PHP worker
processes. Sources live under `src/`:

- The per-run workflow coordinator (package `aggregatedpool`, type `Workflow`).
  Its Go text is appended to `src/tests/client.php` at lines 49-795.
- The `workflows` plugin, which owns the pool of PHP workers:
  `src/unnamed/part_001`, lines 108-368.
- The `temporal` client plugin: `src/unnamed/part_001`, lines 1-107.
- The generated protocol types in `src/proto/protocol/v1/protocol.pb.go`.
- PHP workflows used by the tests: `src/unnamed/part_000` and
  `src/tests/**/*.php`.

## The system and how its parts interact

The Temporal SDK drives one `Workflow` per workflow run. Between workflow
tasks, the SDK calls the coordinator's handlers:

- `handleSignal` and `handleCancel` push a host command into the message
  queue `mq`.
- `handleUpdate` queues a closure with `env.QueueUpdate`. The closure later
  registers the validate and complete callbacks and pushes `InvokeUpdate`.
- `handleQuery` runs `runCommand`, a synchronous one-message exchange with
  the worker.
- The SDK fires the result handlers of the futures the coordinator started.

Once per workflow task the SDK runs the tick (`OnWorkflowTaskStarted`). The
tick runs the queued update closures, drains the deferred callbacks, flushes
`mq` to the worker, and dispatches the worker's reply commands one by one.
`inLoop` is set for the whole tick. The dispatch is `handleMessage`. Each
command calls the SDK (`ExecuteActivity`, `NewTimer`, `GetVersion`,
`Complete`, and so on) and may push answers. `GetVersion`, `Cancel` and the
side-effect callback flush `mq` again in the middle of the dispatch.

Result handlers are wrapped by `createCallback` and
`createLocalActivityCallback`:

- If a handler fires while `inLoop` is set, it runs at once. This is what
  happens when `RequestCancelActivity`/`Timer` fire it synchronously during
  a `Cancel`.
- Otherwise it is appended to `callbacks` and runs in the next drain.

Three other components are not under `src/`. They are modelled from
`spec.md`:

| Component | Role | Source in spec.md |
|---|---|---|
| Canceller | Maps a message id to a thunk that calls `RequestCancel*`. | 4.2 |
| IDRegistry | Pairs a child's start result with a later `GetChildWorkflowExecution`. | 4.3 |
| MessageQueue | The outbound buffer. | 4.1 |

The workflows plugin starts a worker pool in `Serve` and then runs two
goroutines in `watch`:

- The events goroutine forwards every worker error or exit event into the
  capacity-1 channel `p.reset`. It blocks while that channel is full.
- The reset goroutine receives from `p.reset`. It returns if `closing` is
  set. Otherwise it calls `replacePool`, retrying with exponential backoff
  and reporting on `errCh` when the backoff gives up.

`replacePool` runs under the plugin mutex. It destroys the old pool, sets
`p.pool = nil`, and starts a new one. `Stop` sets `closing`, reads the pool
under the mutex, and destroys it outside the mutex. `Stop` signals `stopCh`
only when the pool is nil. `Reset()` (an RPC) sends on `p.reset`.
`WorkflowNames()` reads `p.pool` with neither the mutex nor a nil check.

## Modules

### `WorkflowCoordinator.tla`: the coordinator, with MessageQueue, Canceller, IDRegistry and OnTick

**State.** The variables mirror the `Workflow` struct:

- `mq` and `seq`: the MessageQueue.
- `pipeline`, `callbacks`, `inLoop`.
- `canc`: the ids with a registered canceller thunk.
- `listeners` and `childStart`: the IDRegistry.
- `validateCb`, `completeCb`, `updQueued`: the update maps and the
  `QueueUpdate` queue.

Other variables record the rest of the state:

- The SDK's view of each future: `fut`, `nilTimer`, `cancelReqs`, `updCalls`.
- The worker's history: `wlog` holds the commands it sent. A command's
  message id is its index in `wlog`. `delivered` holds the messages it
  received.
- `completed` and `failed`: the task's outcome.

**Actions.** Each handler of the code is one action:

- The SDK-side handlers: `HandleSignal`, `HandleCancel`, `HandleUpdate`,
  `HandleQuery`.
- The firing of a result handler: `SdkResolve`, and `SdkChildStarted` for
  the child start callback, which calls `ids.Push`.
- One action per `handleMessage` case, named `Handle<Command>`. Each pops the
  pipeline head and does everything the case does, including its
  mid-dispatch `flushQueue`.
- The four steps of the tick: `TickStart`, `DrainCallback`, `TickFlush`,
  `TickEnd`.

**Operators.** `FlushQueue` is `flushQueue` (lines 672-724): an empty buffer
is not sent, and a failure fails the task. `CallbackInline` and the
`AfterCallback*` operators are the wrappers at lines 585-646. A cancel thunk
that asks the SDK to cancel is `ThunkRequestsCancel`, which is the nil check
at line 255. `CancelThunk` is one thunk run by `canceller.Cancel`.
`HandleCancelCommand` folds it over the command's `CommandIDs` in order, so
that each thunk sees what the inline handlers of the earlier ones did. Every
thunk the code registers returns nil, so the error return at line 550 is
never taken.

**The worker.** The PHP worker is the environment. It answers every flushed
frame with up to `MaxReply` new commands, drawn from `WorkerMenu`. The menu
allows a cancel only of open cancellable commands not cancelled before. One
`Cancel` may list several of them, in any order. The menu also allows a
`GetChildWorkflowExecution` only of an open child, and update replies only
for an update the worker was asked to run. Two switches cover behaviour a
misbehaving worker could show:

- `OrderedUpdates`: the worker validates an update before completing it.
- `StopsAfterTerminal`: the worker sends nothing after a terminal command.

**Abstractions.** Payloads, headers, names, options, the replay flag and the
codec are abstracted away. Payload contents never steer the coordinator's
control flow, except through the failure flag, which is kept. Each failure
path of the code (Exec error, error payload, STREAM, empty response, SDK
errors) is a disjunct enabled by `Faults`.

### `WorkflowPlugin.tla`: the workflows plugin's pool lifecycle

**State.**

- `pool`: `p.pool`, where 0 means nil.
- `alive`: the pools started and not destroyed.
- `closing`, `reset`, `stopCh`: the flag and the two channels, each of
  capacity 1.
- `lockHeld`: the mutex, held by `replacePool`.
- One program counter per goroutine or call: `pcR` for the reset loop,
  `pcE` for the events loop, `pcS` for Stop, `pcRpc` for Reset().

**Actions.**

- `replacePool` is split at the mutex's critical section into
  `ReplaceDestroy` and `ReplaceStart`. This split exposes the nil window that
  `WorkflowNames` can see.
- `Retry` is `backoff.Retry`. It may give up only after a call it made has
  failed.
- `WorkerEvent` is the event bus delivering a worker failure of the current
  pool.

- `replaced` records every pool a `ReplaceDestroy` destroyed, so that a
  property can compare it with the pools that had really failed (`broken`).

The model starts after a successful `Serve`.

### `AnswerLedger.tla`: what the coordinator promises the worker

This is an abstract specification with no ticks, queues or SDK. The worker
issues requests, and each request is answered at most once. Every request
is eventually answered unless the run ended. One `Exchange(R, A)` step
issues requests `R` and answers open requests `A` at once, as one frame
exchange does. `SafeSpec` is the safety part. `Spec` adds the promise as a
leads-to.

`MCWorkflowCoordinator.tla` instantiates it as `Ledger` with this
refinement mapping:

- `requests` maps to the indices of `wlog` whose command expects an answer.
- `answers[i]` maps to the number of messages in `delivered` that answer id
  `i`.
- `ended` maps to `completed \/ failed`.

`LedgerSafeSpec` is `Ledger!SafeSpec`, checked as a temporal property. It
says that every coordinator step is
either a ledger step or a stutter. A delivery can never answer an id the
worker has not sent, a closed id, or the same id twice.

### `TypedSearchAttributes.tla`: the typed search-attribute translation

This module covers the `UpsertWorkflowTypedSearchAttributes` case of
`handleMessage` (`client.php` lines 363-527). It is written as pure
operators that the coordinator uses.

- **`ConvertAttr(k, a)`.** This is the loop body for one key. It follows
  the switch on `v.Type`, which has no default: an unknown type adds
  nothing. Each case checks in this order:
  - the Unset operation;
  - the nil value;
  - the type assertion or conversion: `int64(ti)` of a float64, including
    its truncation; `strconv.ParseInt`; the string filter of a `[]any`
    KeywordList; `time.Parse(RFC3339)`, whose failure is fatal
    (`OnBadDatetime`).
- **`Translate(order, attrs)`.** This is the `range` loop, as the RECURSIVE
  `TranslateFrom`. It runs in one iteration order of the map, and
  `Orders(attrs)` gives every order, because Go randomises map iteration.
  The first fatal key returns at once and drops `sau`.
- **`NoAttributesSet`.** This is the `len(sau) == 0` early return.

Values are records `[kind, x]`, using the kinds a decoded `any` can have.
Float64 values are kept in halves, so that truncation shows. Strings are a
few literals named by what `ParseInt` and `time.Parse` return for them.

The module also holds the **reference** taken from spec P8 and the
bullet list of spec 4.5:
- `Accepts`, a table of the value kinds each type accepts;
- `RefFatal`;
- `RefKeys`;
- `RefValue`;
- `RefUpdates`, the translation of a whole batch as a set.

In `WorkflowCoordinator.tla`, `HandleUpsertTypedSearchAttributes(i)` is
the handler, for every iteration order. It has three outcomes:
- a fatal batch fails the task;
- an empty translation returns;
- otherwise it makes one `env.UpsertTypedSearchAttributes` call, which may
  fail under `Faults`.

The SDK side is `SdkUpsert`, which sets or removes each updated key in
`sdkAttrs`. `typedCalls` counts the calls. The worker's commands carry
their map in the field `sa`. A run draws those maps from `TypedInputs`,
which `MCWorkflowCoordinator` defines as five batches:
- a bad Datetime next to a valid Bool;
- a digit-string Int and a mixed `[]any` KeywordList;
- a fractional Int and an Unset;
- a valid Datetime next to a missing Float value;
- the empty map.

### `ProtocolSchema.tla`: the generated protocol package's tables

The file states the schema of `Frame` and `Message` four times. The protobuf
runtime relies on all four agreeing. The module has no variables; each
table is an operator:

- **`Descriptor`.** The messages and fields that `rawDesc` (lines 177-211)
  serialises, decoded from its bytes: names, numbers, labels, kinds and
  type names.
- **`FrameStruct` and `MessageStruct`.** The Go structs (lines 25-31 and
  72-92) with their `protobuf:` tags.
- **`GoTypes`, `DepIdxs` and `MsgInfos`.** The tables at lines 226-244.
  - `FieldTypeNames` is the `field type_name` sub-list of `depIdxs`. It is
    located through the five trailing start offsets that the table's
    comments describe.
  - `MessageFields` is the order in which the type builder walks the
    message-typed fields.
  - `ResolvedType` gives each of them its `goTypes` entry.
- **`MsgTypeIndex`.** The index each message's `Reset`, `ProtoReflect` and
  `Descriptor` use.
- **`GettersNil` and `ResetValue`.** What the nil-safe getters (lines 65-70
  and 126-173) return for a nil message, and the zero values `Reset` leaves.

`WireOf` and `Proto3Default` are proto3's own rules, the reference the
tables must agree with. `SchemaConsistent` states that they agree. All of
these are constants of the generated file, and the file has no run-time
behaviour of its own beyond `sync.Once` and the protobuf runtime's lazy
message-info store, so no run checks this module: it documents the schema
the coordinator's codec relies on.

`MCWorkflowCoordinator.tla` and `MCWorkflowPlugin.tla` are the harnesses.
The `.cfg` files give the constants.

## Runs

| Run (cfg) | Expect | Checks |
|---|---|---|
| coordinator_safety (`MCCoordinatorSafety.cfg`) | pass | `CancelErrorPrecedesAck`, `LedgerSafeSpec`, `UpdateCallbacksWellFormed`, `CancelOnlyPending` |
| coordinator_liveness (`MCCoordinatorLiveness.cfg`) | pass | `EveryRequestAnswered`, `TypedUpsertsFollowP8` |
| coordinator_faults (`MCCoordinatorFaults.cfg`) | pass | `LedgerSafeSpec`, `CancelErrorPrecedesAck` |
| plugin_liveness (`MCPluginLiveness.cfg`) | pass | `BrokenPoolReplaced`, `ResetRpcReturns` |
| zero_timer_stuck (`MCZeroTimerLiveness.cfg`) | violation | `EveryRequestAnswered` |
| after_terminal (`MCAfterTerminal.cfg`) | violation | `TerminalIsFinal` |
| plugin_stop_race (`MCPluginStopRace.cfg`) | violation | `StopLeavesNoPool` |
| plugin_nil_pool (`MCPluginNilPool.cfg`) | violation | `NamesNeverNil` |
| plugin_events_leak (`MCPluginEventsLeak.cfg`) | violation | `EventsLoopEndsAfterStop` |
| plugin_stale_events (`MCPluginStaleEvents.cfg`) | violation | `HealthyPoolKept` |

### What the passing runs show

**Answers are unique, ordered and only for issued requests.** This is spec
P2 and scenario 2. It is checked as the safety part of the AnswerLedger
refinement (`LedgerSafeSpec`) in the safety and faults runs, and it holds
across:

- ticks;
- mid-dispatch flushes;
- synchronous cancels;
- deferred callbacks;
- the zero-duration timer, which resolves inside `env.NewTimer`;
- failed exchanges.

The worker never gets two answers for one id. When a Cancel makes the SDK
fire its targets' handlers, every target's error reaches the worker before
the Cancel's acknowledgement. This includes a Cancel that lists several
commands.

**Typed search-attribute upserts follow P8.** This is checked in the
liveness run, where the worker may send up to three typed upserts. In every
state, failed task or not:
- the SDK's attributes are the reference translation of the dispatched
  non-fatal batches, applied in order, with one call per non-empty batch;
- a batch with a bad RFC3339 Datetime fails the task and reaches the SDK
  not at all, not even the valid attributes decoded before the bad one
  (the handler returns the error before its `UpsertTypedSearchAttributes`
  call);
- a batch that translates to nothing makes no SDK call.

All of this holds whatever order Go iterates each map in. The faults run
adds the failing SDK call.

**Update callbacks follow Accept/Reject then Complete.** This holds when the
worker sends `UpdateValidated` first. A rejected update ignores a later
`UpdateCompleted`.

**Cancels reach only pending futures.** The canceller never asks the SDK to
cancel a future that has already resolved. This includes a zero-duration
timer, whose thunk is registered after it fired.

**Every request is eventually answered.** This covers child workflows whose
start callback comes before or after `GetChildWorkflowExecution`, and
cancels, under the fairness below.

**`Reset()` returns.** While the plugin is serving, a `Reset()` RPC's send
on `p.reset` is eventually taken.

**A broken pool is replaced.** A worker failure leads to a different,
non-nil pool, with coalesced and blocking `p.reset` sends, Reset() RPCs,
start and destroy failures, and retries. The exceptions are when the plugin
is closing or the backoff gave up and reported the error.

### What the violation runs show

Each is recorded in `PROJECT.json` as a finding.

- **zero_timer_stuck.** A zero-duration timer's response is pushed while the
  pipeline is being dispatched. The tick (spec 4.6) does not flush again
  before returning, so the answer waits for an unrelated workflow task. If
  none comes, the worker waits forever.
- **after_terminal.** Commands after `CompleteWorkflow` in one frame are
  still executed. Spec 9 says they are dropped.
- **plugin_stop_race.** A replacement that passed the `closing` check before
  `Stop` destroys the pool again and starts a new one. The new pool outlives
  `Stop`.
- **plugin_nil_pool.** `WorkflowNames()` can run in `replacePool`'s nil window
  and dereference a nil pool.
- **plugin_events_leak.** `Stop` returns right after destroying a non-nil
  pool. It sends on `stopCh` only when the pool is nil. After a normal
  `Stop`, the events goroutine therefore never unsubscribes and never
  returns. Once the reset loop has exited, it blocks forever on its next
  `p.reset` send.
- **plugin_stale_events.** A worker event does not say which pool it came
  from. When two workers of one pool fail, the second event is still queued
  after `replacePool` started a new pool. It then destroys that healthy pool
  and starts a third.

## Bounds and why they are enough

- **`MaxCmds` (3 or 4) and `MaxReply` (2).** With these, one reply frame can
  carry a future-starting command followed by a `Cancel` of it. That is the
  in-loop synchronous cancel. A third command lets a GetVersion, SideEffect
  or Cancel flush happen in the middle of a dispatch while a deferred
  callback is pending.
- **One update and one signal.** These are enough to interleave an SDK
  delivery with a tick. Two updates would only permute independent maps.
- **`WorkerCmds`.** Each run restricts the command kinds to those its
  properties are about. Together, the three passing coordinator runs fire
  every action.
- **Plugin bounds.** Three events, two failures and two RPCs (about
  100,000 states) let:
  - a retry fail and then give up;
  - an event arrive while `p.reset` is full;
  - Stop race both a replacement and a retry;
  - a third event queue in `eventsCh` behind a blocked `p.reset` send while
    two RPCs race it.

  `MaxPools` is derived from these: each reset starts at most one pool.
  The two violation runs that are new this round use the smallest bounds
  that show their traces. One event leaks the events goroutine. Two events
  of one pool show the stale restart.
- **Typed inputs.** Two keys are enough to put a fatal key before or after
  a valid one in the iteration order. Two batches over the same keys let a
  later upsert override or unset an earlier one. Each kind the JSON decoder
  produces reaches at least one case.

## Fairness

**`WF` on the whole tick.** `OnWorkflowTaskStarted` is synchronous Go code.
Once it starts, it runs to the end.

**`WF` per id on `SdkResolve` and `SdkChildStarted`.** Every activity, timer
and child has a Temporal timeout, so the server eventually resolves it and
eventually starts a child.

**No fairness for the environment.** Signals, updates, queries, cancels,
worker events, `Stop` and `Reset()` get none. They need not happen.

**`WF` on each goroutine of the plugin.** This is the scheduler's guarantee
to a runnable goroutine. It covers the reset loop, the events loop, a Stop
in progress and a Reset in progress.

`CHECK_DEADLOCK FALSE` is used in every configuration. A workflow
legitimately stops when it completes, fails or waits for an event. The
plugin's goroutines legitimately block on empty channels.

## Not modelled

- **Out-of-range float64 Int values.** `int64(ti)` of a value outside the
  int64 range is implementation-dependent in Go. Modelling that would need
  a float64 model. The Go typed kinds (`int`, `[]string`, and so on) are
  translated too, but the JSON decoder never produces them, so no input
  uses them.
- **A hung query `Exec`.** `runCommand` calls `pool.Exec` with
  `context.Background()`, and a TODO asks for a timeout. Only the pool's
  own supervision, which is outside this repository, bounds a hang.
- **Codec, Context and metrics.** These are pure conversions and gauges.
  `runCommand` does not return its payload buffer to `pldPool` on three
  error paths, but `pldPool` is a `sync.Pool`: an unreturned buffer is
  collected, and nothing the coordinator does depends on it.
- **The run-time half of `protocol.pb.go`.** `rawDescGZIP` compresses under
  a `sync.Once`, and `ProtoReflect` stores message info lazily through the
  protobuf runtime. Both are library guarantees, not code of this
  repository.
- **Replay gating of `Reject`.** During replay a failed validation still
  calls Accept. Lines 323-326 then delete the complete callback, so that
  update is never completed. This needs a validator that answers
  differently on replay, which a deterministic workflow does not have. The
  model treats every run as non-replaying.
- **Canceller thunk errors and aggregate errors.** Every thunk the
  coordinator registers returns nil. The canceller's aggregation therefore
  never sees an error.
- **The temporal client plugin** (`part_001` lines 1-107). Its only state
  is `srv.client`. `Serve` sets it, `Stop` closes it without clearing it,
  and `GetClient`/`CreateWorker` read it. Two hazards are listed in
  `PROJECT.json`:
  - a worker can be created on a closed client after `Stop`;
  - `GetClient` returns `(nil, nil)` after a failed `Serve`.

  Which calls can follow `Stop` or a failed `Serve` is decided by the Endure
  container, which is outside this repository. The workflows plugin in this
  tree expects a newer client interface (`GetCodec`), so the two plugins
  cannot be composed faithfully either.
- **The in-loop completion wording and update ordering.** Spec invariant I3
  says completions inside the loop are deferred. `createCallback` runs them
  inline, which scenario 2 requires, and its consequence is the
  zero_timer_stuck run. `UpdateCompleted` does not check that the update was
  validated. `OrderedUpdates = FALSE` lets a worker send Complete first, but
  no run currently exercises it.
- **The PHP side, beyond the worker model above.**
- **`AllocateMessage`.** Spec 4.1 says it appends to the buffer, but
  `runCommand` sends only the allocated message, so the model takes an id
  without touching `mq`.

## Further work

1. **Spec drain order.** The spec dispatches the pipeline first. OnTick
   (`workflow.go`, not under `src/`) is modelled from spec 4.6 and 4.8, so
   the order the code really uses cannot be checked here.
2. **Replay.** Add `env.IsReplaying()` as a flag that turns false once, at a
   tick boundary. Then look at what the Accept-then-drop path at lines
   99-111 and 323-326 does to an update whose validator fails only on
   replay.
