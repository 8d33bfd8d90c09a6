------------------------- MODULE WorkflowCoordinator -------------------------
(***************************************************************************)
(* The per-run workflow coordinator of the RoadRunner Temporal bridge      *)
(* (package aggregatedpool, type Workflow; the handler code is the Go text *)
(* appended to src/tests/client.php, lines 49-795).                        *)
(*                                                                         *)
(* Three actors share the coordinator's state:                             *)
(*  - the Temporal SDK, which calls the coordinator's handlers (signal,    *)
(*    update, cancel, query), fires result handlers of the futures it     *)
(*    started, and runs one tick (OnWorkflowTaskStarted) per workflow task;*)
(*  - the coordinator, which buffers outbound messages in the message      *)
(*    queue mq, flushes them to the worker, and dispatches the commands of *)
(*    the reply one by one from the pipeline;                             *)
(*  - the external (PHP) worker, which answers every flushed frame with a  *)
(*    frame of new commands.                                               *)
(* Message payloads, headers, options and names are abstracted away: a     *)
(* worker command is its kind, the id it targets, the update it names and  *)
(* whether it carries a failure.  Message ids of worker commands are their *)
(* index in the worker's log wlog.                                         *)
(***************************************************************************)
EXTENDS Naturals, Sequences, FiniteSets, SequencesExt

CONSTANTS
  MaxCmds,            \* commands the worker sends in one run (bounds its ids)
  MaxReply,           \* commands in one reply frame (1 or 2)
  Updates,            \* update ids the SDK may deliver through handleUpdate
  MaxSignals,         \* signals the SDK may deliver through handleSignal
  MaxQueries,         \* queries the SDK may run through handleQuery
  WorkerCmds,         \* the command kinds the worker uses in this model
  ZeroTimers,         \* the worker may ask for a zero-duration timer
  Faults,             \* Exec and SDK calls may return errors
  OrderedUpdates,     \* worker sends UpdateCompleted(u) only after UpdateValidated(u)
  StopsAfterTerminal, \* worker sends nothing after CompleteWorkflow/ContinueAsNew/Panic
  TypedInputs         \* search-attribute maps an UpsertWorkflowTypedSearchAttributes carries

ASSUME MaxCmds \in Nat /\ MaxReply \in {1, 2}
ASSUME MaxSignals \in Nat /\ MaxQueries \in Nat
ASSUME ZeroTimers \in BOOLEAN /\ Faults \in BOOLEAN
ASSUME OrderedUpdates \in BOOLEAN /\ StopsAfterTerminal \in BOOLEAN

NoUpd == "none"
TSA == INSTANCE TypedSearchAttributes
Ids == 1 .. MaxCmds

\* Worker commands that start an SDK future answered later by a result handler.
FutureCmds == {"ExecuteActivity", "ExecuteLocalActivity", "NewTimer",
               "ExecuteChildWorkflow", "SignalExternalWorkflow",
               "CancelExternalWorkflow"}
\* Commands whose handler registers a canceller thunk.
Cancellable == {"ExecuteActivity", "ExecuteLocalActivity", "NewTimer",
                "ExecuteChildWorkflow"}
\* RequestCancelActivity/LocalActivity/Timer fire the result handler at once.
SyncCancel == {"ExecuteActivity", "ExecuteLocalActivity", "NewTimer"}
TerminalCmds == {"CompleteWorkflow", "ContinueAsNew", "Panic"}
\* Commands the coordinator answers with a response or an error of their id.
Answerable == FutureCmds \cup {"GetChildWorkflowExecution", "GetVersion",
                               "SideEffect", "Cancel", "CompleteWorkflow",
                               "ContinueAsNew"}
AllCmds == Answerable \cup TerminalCmds \cup
           {"UpdateValidated", "UpdateCompleted", "UpsertMemo",
            "UpsertWorkflowSearchAttributes", "UpsertWorkflowTypedSearchAttributes"}
HostCmds == {"StartWorkflow", "InvokeSignal", "CancelWorkflow", "InvokeUpdate"}

\* The search-attribute keys the worker uses, and a key the SDK holds no value for.
AttrKeys == UNION {DOMAIN a : a \in TypedInputs}
NoAttr == TSA!Upd("none", "none", "unset", 0)

(* The SDK side of env.UpsertTypedSearchAttributes(NewSearchAttributes(us)): *)
(* each update sets or removes its key; the others keep their value.        *)
SdkUpsert(attrs, us) ==
  [k \in DOMAIN attrs |->
     IF \E u \in us : u.key = k
     THEN LET u == CHOOSE u \in us : u.key = k
          IN  IF u.op = "unset" THEN NoAttr ELSE u
     ELSE attrs[k]]

\* A worker command and an outbound (host) message.
WCmd(c, t, u, f, z) ==
  [cmd |-> c, tgt |-> t, upd |-> u, fail |-> f, zero |-> z, sa |-> <<>>, ids |-> <<>>]
Cmd(n, c, u) == [kind |-> "cmd", id |-> n, cmd |-> c, upd |-> u]
Resp(n) == [kind |-> "resp", id |-> n, cmd |-> "none", upd |-> NoUpd]
Err(n) == [kind |-> "err", id |-> n, cmd |-> "none", upd |-> NoUpd]
IsAnswer(m, i) == m.kind \in {"resp", "err"} /\ m.id = i

VARIABLES
  mq,           \* MessageQueue buffer: outbound messages not yet flushed
  seq,          \* MessageQueue id counter of host commands
  pipeline,     \* ids of received worker commands awaiting dispatch
  callbacks,    \* deferred result-handler closures [id, ok]
  inLoop,       \* wp.inLoop
  tick,         \* "idle" | "callbacks" | "pipeline": where OnTick is
  canc,         \* ids with a registered canceller thunk
  nilTimer,     \* timers for which env.NewTimer returned a nil TimerID
  fut,          \* SDK side of each started future
  childStart,   \* start result of each child ("none" | "ok" | "err")
  listeners,    \* IDRegistry listeners <<child id, GetChildWorkflowExecution id>>
  validateCb,   \* updates with a registered validate callback
  completeCb,   \* updates with a registered complete callback
  updQueued,    \* updates queued by env.QueueUpdate, not yet handled
  updRequested, \* updates the SDK has delivered
  updCalls,     \* the SDK UpdateCallbacks invoked for each update, in order
  signals,      \* signals delivered
  queries,      \* queries run
  wfCancel,     \* the SDK has requested cancellation of the workflow
  completed,    \* env.Complete has been called
  failed,       \* a handler returned an error: the workflow task fails
  taskPending,  \* the SDK has new events and will run a tick
  wlog,         \* every command the worker has sent, in order
  delivered,    \* every message the worker has received, in order
  cancelledBy,  \* <<cancel id, target>> resolved synchronously by the cancel
  cancelReqs,   \* <<target, SDK state>> of every RequestCancel* call
  sdkAttrs,     \* the SDK's typed search attributes: key -> last update, or NoAttr
  typedCalls    \* env.UpsertTypedSearchAttributes calls made

vars == <<mq, seq, pipeline, callbacks, inLoop, tick, canc, nilTimer, fut,
          childStart, listeners, validateCb, completeCb, updQueued,
          updRequested, updCalls, signals, queries, wfCancel, completed,
          failed, taskPending, wlog, delivered, cancelledBy, cancelReqs,
          sdkAttrs, typedCalls>>
attrVars == <<sdkAttrs, typedCalls>>
sdkVars == <<fut, childStart, listeners, nilTimer, cancelReqs, attrVars>>
updVars == <<validateCb, completeCb, updQueued, updRequested, updCalls>>
envVars == <<signals, queries, wfCancel>>

-----------------------------------------------------------------------------
(* The external worker.                                                    *)

Answered(dl, i) == \E k \in 1 .. Len(dl) : IsAnswer(dl[k], i)
Invoked(dl, u) == \E k \in 1 .. Len(dl) : dl[k].cmd = "InvokeUpdate" /\ dl[k].upd = u
SentTo(log, c, t) == \E k \in 1 .. Len(log) : log[k].cmd = c /\ log[k].tgt = t
CancelSent(log, t) == \E k \in 1 .. Len(log) : log[k].cmd = "Cancel" /\ t \in Range(log[k].ids)
SentUpd(log, c, u) == \E k \in 1 .. Len(log) : log[k].cmd = c /\ log[k].upd = u
Ended(log) == \E k \in 1 .. Len(log) : log[k].cmd \in TerminalCmds

\* The commands the worker may send next, having sent log and received dl.
WorkerMenu(log, dl) ==
  LET open(c) == {t \in 1 .. Len(log) : log[t].cmd \in c /\ ~Answered(dl, t)}
      plain == {WCmd(c, 0, NoUpd, FALSE, FALSE) :
                  c \in FutureCmds \cup {"GetVersion", "SideEffect", "UpsertMemo",
                        "UpsertWorkflowSearchAttributes", "ContinueAsNew", "Panic"}}
      zero == IF ZeroTimers THEN {WCmd("NewTimer", 0, NoUpd, FALSE, TRUE)} ELSE {}
      done == {WCmd("CompleteWorkflow", 0, NoUpd, f, FALSE) : f \in BOOLEAN}
      \* Cancel{CommandIDs}: the distinct not yet cancelled requests, in any order.
      cancels == {[WCmd("Cancel", 0, NoUpd, FALSE, FALSE) EXCEPT !.ids = ts] :
                    ts \in UNION {SetToSeqs(T) :
                       T \in SUBSET {t \in open(Cancellable) : ~CancelSent(log, t)} \ {{}}}}
      getChild == {WCmd("GetChildWorkflowExecution", t, NoUpd, FALSE, FALSE) :
                    t \in {t \in open({"ExecuteChildWorkflow"}) :
                             ~SentTo(log, "GetChildWorkflowExecution", t)}}
      validated == {WCmd("UpdateValidated", 0, u, f, FALSE) :
                      u \in {u \in Updates : Invoked(dl, u) /\
                                             ~SentUpd(log, "UpdateValidated", u)},
                      f \in BOOLEAN}
      typed == {[WCmd("UpsertWorkflowTypedSearchAttributes", 0, NoUpd, FALSE, FALSE)
                    EXCEPT !.sa = a] : a \in TypedInputs}
      completedU == {WCmd("UpdateCompleted", 0, u, f, FALSE) :
                      u \in {u \in Updates : Invoked(dl, u) /\
                               ~SentUpd(log, "UpdateCompleted", u) /\
                               (OrderedUpdates => SentUpd(log, "UpdateValidated", u))},
                      f \in BOOLEAN}
  IN IF StopsAfterTerminal /\ Ended(log) THEN {}
     ELSE {m \in plain \cup zero \cup done \cup cancels \cup getChild \cup
                 validated \cup completedU \cup typed : m.cmd \in WorkerCmds}

\* The frames the worker may answer with: up to MaxReply new commands.
Replies(log, dl) ==
  LET room == MaxCmds - Len(log)
  IN {<<>>}
     \cup (IF room >= 1 THEN {<<a>> : a \in WorkerMenu(log, dl)} ELSE {})
     \cup (IF room >= 2 /\ MaxReply >= 2
           THEN UNION {{<<a, b>> : b \in WorkerMenu(Append(log, a), dl)} :
                         a \in WorkerMenu(log, dl)}
           ELSE {})

-----------------------------------------------------------------------------
(* MessageQueue (internal/queue.go, not in src/: modelled from spec 4.1)    *)

PushCommand(q, n, c, u) == Append(q, Cmd(n, c, u))
PushAnswer(q, id, ok) == Append(q, IF ok THEN Resp(id) ELSE Err(id))
\* Mutant: the buffer is not cleared after the exchange.
FlushedBufferKept(q) == q
\* mq.Flush(): the buffer after a successful exchange.
FlushedBuffer(q) == <<>>

(* flushQueue: send the buffer q as one frame, append the decoded reply to  *)
(* the pipeline pipe.  An empty buffer is not sent.  Exec errors, error     *)
(* payloads, STREAM replies and the "worker empty response" branch all     *)
(* return an error, which fails the workflow task.                          *)
FlushQueue(q, pipe) ==
  \/ /\ q = <<>>
     /\ mq' = q /\ pipeline' = pipe
     /\ UNCHANGED <<delivered, wlog, failed>>
  \/ /\ q # <<>>
     /\ \E reply \in Replies(wlog, delivered \o q) :
          /\ delivered' = delivered \o q
          /\ wlog' = wlog \o reply
          /\ mq' = FlushedBuffer(q)
          /\ pipeline' = pipe \o [k \in 1 .. Len(reply) |-> Len(wlog) + k]
          /\ UNCHANGED failed
  \/ /\ q # <<>> /\ Faults
     /\ failed' = TRUE
     /\ mq' = q /\ pipeline' = pipe
     /\ UNCHANGED <<delivered, wlog>>

-----------------------------------------------------------------------------
(* Result handlers (createCallback, createLocalActivityCallback).           *)

\* Mutant: the wrapper always defers the callback (spec invariant I3 as worded).
CallbackInlineNever == FALSE
\* The wrapper runs the callback at once when it fires inside the loop.
CallbackInline == inLoop
\* The callback: canceller.Discard(id), then PushResponse or PushError.
AfterCallbackCanc(c, id) == IF CallbackInline THEN c \ {id} ELSE c
AfterCallbackMq(q, id, ok) == IF CallbackInline THEN PushAnswer(q, id, ok) ELSE q
\* Mutant: a handler fired outside the loop is dropped instead of deferred.
AfterCallbackCbsDropped(cbs, id, ok) == cbs
AfterCallbackCbs(cbs, id, ok) ==
  IF CallbackInline THEN cbs ELSE Append(cbs, [id |-> id, ok |-> ok])

-----------------------------------------------------------------------------
Init ==
  /\ mq = <<Cmd(1, "StartWorkflow", NoUpd)>>
  /\ seq = 1
  /\ pipeline = <<>>
  /\ callbacks = <<>>
  /\ inLoop = FALSE
  /\ tick = "idle"
  /\ canc = {}
  /\ nilTimer = {}
  /\ fut = [i \in Ids |-> "none"]
  /\ childStart = [i \in Ids |-> "none"]
  /\ listeners = {}
  /\ validateCb = {} /\ completeCb = {}
  /\ updQueued = <<>> /\ updRequested = {}
  /\ updCalls = [u \in Updates |-> <<>>]
  /\ signals = 0 /\ queries = 0 /\ wfCancel = FALSE
  /\ completed = FALSE /\ failed = FALSE
  /\ taskPending = TRUE
  /\ wlog = <<>> /\ delivered = <<>>
  /\ cancelledBy = {} /\ cancelReqs = {}
  /\ sdkAttrs = [k \in AttrKeys |-> NoAttr]
  /\ typedCalls = 0

-----------------------------------------------------------------------------
(* SDK -> coordinator, between workflow tasks.                              *)

Idle == tick = "idle" /\ ~completed /\ ~failed

\* handleSignal: push InvokeSignal.
HandleSignal ==
  /\ Idle /\ signals < MaxSignals
  /\ signals' = signals + 1
  /\ seq' = seq + 1
  /\ mq' = PushCommand(mq, seq + 1, "InvokeSignal", NoUpd)
  /\ taskPending' = TRUE
  /\ UNCHANGED <<pipeline, callbacks, inLoop, tick, canc, sdkVars, updVars,
                 queries, wfCancel, completed, failed, wlog, delivered,
                 cancelledBy>>

\* handleCancel: push CancelWorkflow.
HandleCancel ==
  /\ Idle /\ ~wfCancel
  /\ wfCancel' = TRUE
  /\ seq' = seq + 1
  /\ mq' = PushCommand(mq, seq + 1, "CancelWorkflow", NoUpd)
  /\ taskPending' = TRUE
  /\ UNCHANGED <<pipeline, callbacks, inLoop, tick, canc, sdkVars, updVars,
                 signals, queries, completed, failed, wlog, delivered,
                 cancelledBy>>

\* handleUpdate: remember the name and env.QueueUpdate the registering closure.
HandleUpdate(u) ==
  /\ Idle /\ u \notin updRequested
  /\ updRequested' = updRequested \cup {u}
  /\ updQueued' = Append(updQueued, u)
  /\ taskPending' = TRUE
  /\ UNCHANGED <<mq, seq, pipeline, callbacks, inLoop, tick, canc, sdkVars,
                 validateCb, completeCb, updCalls, envVars, completed, failed,
                 wlog, delivered, cancelledBy>>

(* handleQuery / runCommand: allocate one id, exchange one message with the *)
(* worker synchronously, outside the pipeline; mq and the task are left    *)
(* alone, and the answer or error goes to the SDK's query handler.          *)
HandleQuery ==
  /\ Idle /\ queries < MaxQueries
  /\ queries' = queries + 1
  /\ seq' = seq + 1
  /\ UNCHANGED <<mq, pipeline, callbacks, inLoop, tick, canc, sdkVars, updVars,
                 signals, wfCancel, completed, failed, taskPending, wlog,
                 delivered, cancelledBy>>

\* The SDK completes a future: its result handler fires outside the loop.
SdkResolve(t, ok) ==
  /\ Idle
  /\ fut[t] \in {"pending", "cancelling"}
  /\ fut[t] = "cancelling" => ~ok
  /\ wlog[t].cmd = "ExecuteChildWorkflow" =>
        /\ childStart[t] # "none"
        /\ childStart[t] = "err" => ~ok
  /\ fut' = [fut EXCEPT ![t] = "done"]
  /\ canc' = AfterCallbackCanc(canc, t)
  /\ mq' = AfterCallbackMq(mq, t, ok)
  /\ callbacks' = AfterCallbackCbs(callbacks, t, ok)
  /\ taskPending' = TRUE
  /\ UNCHANGED <<attrVars, seq, pipeline, inLoop, tick, nilTimer, childStart, listeners,
                 cancelReqs, updVars, envVars, completed, failed, wlog,
                 delivered, cancelledBy>>

\* IDRegistry: the listeners registered for child t (spec 4.3, not in src/).
ListenerIds(t) == {l[2] : l \in {l \in listeners : l[1] = t}}

(* The SDK fires a child's start callback: ids.Push(id, execution, err),    *)
(* which runs the listener a GetChildWorkflowExecution registered, through  *)
(* the createCallback wrapper.                                              *)
SdkChildStarted(t, ok) ==
  /\ Idle
  /\ fut[t] \in {"pending", "cancelling"} /\ wlog[t].cmd = "ExecuteChildWorkflow"
  /\ childStart[t] = "none"
  /\ childStart' = [childStart EXCEPT ![t] = IF ok THEN "ok" ELSE "err"]
  /\ LET ms == ListenerIds(t)
     IN  callbacks' = callbacks \o [k \in 1 .. Cardinality(ms) |->
                                     [id |-> SetToSeq(ms)[k], ok |-> ok]]
  /\ taskPending' = TRUE
  /\ UNCHANGED <<attrVars, mq, seq, pipeline, inLoop, tick, canc, nilTimer, fut, listeners,
                 cancelReqs, updVars, envVars, completed, failed, wlog,
                 delivered, cancelledBy>>

-----------------------------------------------------------------------------
(* OnTick (workflow.go, not in src/: modelled from spec 4.6, 4.8 and the    *)
(* comment "this callback executed in the OnTick function" at line 96):     *)
(* run the queued update closures, drain the deferred callbacks, flush,     *)
(* dispatch the pipeline; all with inLoop set.                              *)

\* Start of a tick: each queued update registers its validate and complete
\* callbacks and pushes InvokeUpdate{validate_execute}.
TickStart ==
  /\ Idle /\ taskPending
  /\ taskPending' = FALSE
  /\ inLoop' = TRUE
  /\ tick' = "callbacks"
  /\ validateCb' = validateCb \cup ToSet(updQueued)
  /\ completeCb' = completeCb \cup ToSet(updQueued)
  /\ mq' = mq \o [k \in 1 .. Len(updQueued) |->
                    Cmd(seq + k, "InvokeUpdate", updQueued[k])]
  /\ seq' = seq + Len(updQueued)
  /\ updQueued' = <<>>
  /\ UNCHANGED <<pipeline, callbacks, canc, sdkVars, updRequested, updCalls,
                 envVars, completed, failed, wlog, delivered, cancelledBy>>

\* Run the oldest deferred callback.
DrainCallback ==
  /\ tick = "callbacks" /\ ~failed /\ callbacks # <<>>
  /\ LET cb == Head(callbacks)
     IN  /\ canc' = canc \ {cb.id}
         /\ mq' = PushAnswer(mq, cb.id, cb.ok)
  /\ callbacks' = Tail(callbacks)
  /\ UNCHANGED <<seq, pipeline, inLoop, tick, sdkVars, updVars, envVars,
                 completed, failed, taskPending, wlog, delivered, cancelledBy>>

\* Callbacks drained: flush the buffer and move on to the pipeline.
TickFlush ==
  /\ tick = "callbacks" /\ ~failed /\ callbacks = <<>>
  /\ tick' = "pipeline"
  /\ FlushQueue(mq, pipeline)
  /\ UNCHANGED <<seq, callbacks, inLoop, canc, sdkVars, updVars, envVars,
                 completed, taskPending, cancelledBy>>

\* Pipeline empty: the tick returns and inLoop is cleared.
TickEnd ==
  /\ tick = "pipeline" /\ ~failed /\ pipeline = <<>>
  /\ tick' = "idle"
  /\ inLoop' = FALSE
  /\ UNCHANGED <<mq, seq, pipeline, callbacks, canc, sdkVars, updVars, envVars,
                 completed, failed, taskPending, wlog, delivered, cancelledBy>>

-----------------------------------------------------------------------------
(* handleMessage: one action per command kind; each pops the pipeline head. *)

Dispatch(i, c) ==
  /\ tick = "pipeline" /\ ~failed
  /\ pipeline # <<>> /\ Head(pipeline) = i
  /\ wlog[i].cmd = c

\* env.Execute*(params, callback), then canceller.Register when registers.
StartFuture(i, registers) ==
  /\ fut' = [fut EXCEPT ![i] = "pending"]
  /\ canc' = IF registers THEN canc \cup {i} ELSE canc
  /\ pipeline' = Tail(pipeline)
  /\ UNCHANGED <<attrVars, mq, seq, callbacks, inLoop, tick, nilTimer, childStart,
                 listeners, cancelReqs, updVars, envVars, completed, failed,
                 taskPending, wlog, delivered, cancelledBy>>

HandleExecuteActivity(i) ==
  Dispatch(i, "ExecuteActivity") /\ StartFuture(i, TRUE)

HandleExecuteLocalActivity(i) ==
  Dispatch(i, "ExecuteLocalActivity") /\ StartFuture(i, TRUE)

\* The workflow id the code derives from seqID is data and is not modelled.
HandleExecuteChildWorkflow(i) ==
  Dispatch(i, "ExecuteChildWorkflow") /\ StartFuture(i, TRUE)

HandleSignalExternalWorkflow(i) ==
  Dispatch(i, "SignalExternalWorkflow") /\ StartFuture(i, FALSE)

HandleCancelExternalWorkflow(i) ==
  Dispatch(i, "CancelExternalWorkflow") /\ StartFuture(i, FALSE)

(* env.NewTimer: for a zero duration the SDK runs the result handler before *)
(* returning a nil TimerID; the canceller is registered afterwards anyway.  *)
HandleNewTimer(i) ==
  /\ Dispatch(i, "NewTimer")
  /\ LET z == wlog[i].zero
     IN  /\ fut' = [fut EXCEPT ![i] = IF z THEN "done" ELSE "pending"]
         /\ canc' = AfterCallbackCanc(canc, i) \cup {i}
         /\ mq' = IF z THEN AfterCallbackMq(mq, i, TRUE) ELSE mq
         /\ callbacks' = IF z THEN AfterCallbackCbs(callbacks, i, TRUE) ELSE callbacks
         /\ nilTimer' = IF z THEN nilTimer \cup {i} ELSE nilTimer
  /\ pipeline' = Tail(pipeline)
  /\ UNCHANGED <<attrVars, seq, inLoop, tick, childStart, listeners, cancelReqs, updVars,
                 envVars, completed, failed, taskPending, wlog, delivered,
                 cancelledBy>>

(* ids.Listen(child, cb): fires through createCallback(msg.ID) at once when *)
(* the child's start result is already pushed, else is kept for ids.Push.  *)
HandleGetChildWorkflowExecution(i) ==
  /\ Dispatch(i, "GetChildWorkflowExecution")
  /\ LET t == wlog[i].tgt
         ok == childStart[t] = "ok"
     IN  IF childStart[t] = "none"
         THEN /\ listeners' = listeners \cup {<<t, i>>}
              /\ UNCHANGED <<canc, mq, callbacks>>
         ELSE /\ canc' = AfterCallbackCanc(canc, i)
              /\ mq' = AfterCallbackMq(mq, i, ok)
              /\ callbacks' = AfterCallbackCbs(callbacks, i, ok)
              /\ UNCHANGED listeners
  /\ pipeline' = Tail(pipeline)
  /\ UNCHANGED <<attrVars, seq, inLoop, tick, nilTimer, fut, childStart, cancelReqs,
                 updVars, envVars, completed, failed, taskPending, wlog,
                 delivered, cancelledBy>>

\* env.GetVersion; PushResponse; flushQueue.
HandleGetVersion(i) ==
  /\ Dispatch(i, "GetVersion")
  /\ FlushQueue(PushAnswer(mq, i, TRUE), Tail(pipeline))
  /\ UNCHANGED <<seq, callbacks, inLoop, tick, canc, sdkVars, updVars, envVars,
                 completed, taskPending, cancelledBy>>

(* env.SideEffect runs the continuable callback synchronously, whatever     *)
(* inLoop is: Discard, PushResponse, flushQueue (an error there panics).    *)
HandleSideEffect(i) ==
  /\ Dispatch(i, "SideEffect")
  /\ canc' = canc \ {i}
  /\ FlushQueue(PushAnswer(mq, i, TRUE), Tail(pipeline))
  /\ UNCHANGED <<seq, callbacks, inLoop, tick, sdkVars, updVars, envVars,
                 completed, taskPending, cancelledBy>>

\* Mutant: the complete callback survives a failed validation.
CompleteCbAfterValidateKept(cb, u, f) == cb
\* "delete updateCompleteCb in case of error".
CompleteCbAfterValidate(cb, u, f) == IF f THEN cb \ {u} ELSE cb

\* The SDK call the validate callback makes: Reject on a failure, else Accept.
ValidateCall(f) == IF f THEN "Reject" ELSE "Accept"

(* UpdateValidated: an unknown id only logs a warning; a known one runs the *)
(* validate callback and deletes it, and on a failure deletes the complete  *)
(* callback too.                                                            *)
HandleUpdateValidated(i) ==
  /\ Dispatch(i, "UpdateValidated")
  /\ LET u == wlog[i].upd
         f == wlog[i].fail
     IN  IF u \notin validateCb
         THEN UNCHANGED <<validateCb, completeCb, updCalls>>
         ELSE /\ updCalls' = [updCalls EXCEPT ![u] = Append(@, ValidateCall(f))]
              /\ validateCb' = validateCb \ {u}
              /\ completeCb' = CompleteCbAfterValidate(completeCb, u, f)
  /\ pipeline' = Tail(pipeline)
  /\ UNCHANGED <<mq, seq, callbacks, inLoop, tick, canc, sdkVars, updQueued,
                 updRequested, envVars, completed, failed, taskPending, wlog,
                 delivered, cancelledBy>>

\* UpdateCompleted: run and delete the complete callback, if there is one.
HandleUpdateCompleted(i) ==
  /\ Dispatch(i, "UpdateCompleted")
  /\ LET u == wlog[i].upd
     IN  IF u \notin completeCb
         THEN UNCHANGED <<completeCb, updCalls>>
         ELSE /\ updCalls' = [updCalls EXCEPT ![u] = Append(@, "Complete")]
              /\ completeCb' = completeCb \ {u}
  /\ pipeline' = Tail(pipeline)
  /\ UNCHANGED <<mq, seq, callbacks, inLoop, tick, canc, sdkVars, validateCb,
                 updQueued, updRequested, envVars, completed, failed,
                 taskPending, wlog, delivered, cancelledBy>>

\* CompleteWorkflow / ContinueAsNew: push the "completed" response, env.Complete.
Finish(i) ==
  /\ mq' = PushAnswer(mq, i, TRUE)
  /\ completed' = TRUE
  /\ pipeline' = Tail(pipeline)
  /\ UNCHANGED <<seq, callbacks, inLoop, tick, canc, sdkVars, updVars, envVars,
                 failed, taskPending, wlog, delivered, cancelledBy>>

HandleCompleteWorkflow(i) == Dispatch(i, "CompleteWorkflow") /\ Finish(i)

HandleContinueAsNew(i) == Dispatch(i, "ContinueAsNew") /\ Finish(i)

\* env.UpsertSearchAttributes / env.UpsertMemo: an SDK error fails the task.
SdkSideEffectOnly(i) ==
  /\ \/ UNCHANGED failed
     \/ Faults /\ failed' = TRUE
  /\ pipeline' = Tail(pipeline)
  /\ UNCHANGED <<mq, seq, callbacks, inLoop, tick, canc, sdkVars, updVars,
                 envVars, completed, taskPending, wlog, delivered, cancelledBy>>

HandleUpsertSearchAttributes(i) ==
  Dispatch(i, "UpsertWorkflowSearchAttributes") /\ SdkSideEffectOnly(i)

\* An empty memo returns before the SDK call; the model does not tell them apart.
HandleUpsertMemo(i) == Dispatch(i, "UpsertMemo") /\ SdkSideEffectOnly(i)

(* UpsertWorkflowTypedSearchAttributes: translate the map in Go's random   *)
(* iteration order; a Datetime parse error returns before any SDK call and *)
(* fails the task; an empty list warns and returns; otherwise one SDK      *)
(* call, whose error fails the task.                                        *)
HandleUpsertTypedSearchAttributes(i) ==
  /\ Dispatch(i, "UpsertWorkflowTypedSearchAttributes")
  /\ \E order \in TSA!Orders(wlog[i].sa) :
       LET r == TSA!Translate(order, wlog[i].sa)
       IN  \/ /\ r.fatal
              /\ failed' = TRUE
              /\ UNCHANGED attrVars
           \/ /\ ~r.fatal /\ TSA!NoAttributesSet(r.sau)
              /\ UNCHANGED <<failed, attrVars>>
           \/ /\ ~r.fatal /\ ~TSA!NoAttributesSet(r.sau)
              /\ typedCalls' = typedCalls + 1
              /\ \/ /\ sdkAttrs' = SdkUpsert(sdkAttrs, Range(r.sau))
                    /\ UNCHANGED failed
                 \/ /\ Faults /\ failed' = TRUE
                    /\ UNCHANGED sdkAttrs
  /\ pipeline' = Tail(pipeline)
  /\ UNCHANGED <<mq, seq, callbacks, inLoop, tick, canc, fut, childStart,
                 listeners, nilTimer, cancelReqs, updVars, envVars, completed,
                 taskPending, wlog, delivered, cancelledBy>>

\* Panic: the failure is returned unwrapped and fails the task.
HandlePanic(i) ==
  /\ Dispatch(i, "Panic")
  /\ failed' = TRUE
  /\ pipeline' = Tail(pipeline)
  /\ UNCHANGED <<mq, seq, callbacks, inLoop, tick, canc, sdkVars, updVars,
                 envVars, completed, taskPending, wlog, delivered, cancelledBy>>

\* Mutant: the timer thunk without its nil check.
ThunkRequestsCancelUnguarded(t) == TRUE
(* Whether the canceller thunk of t asks the SDK to cancel: the timer thunk *)
(* only does so for a non-nil TimerID; the others always do.               *)
ThunkRequestsCancel(t) == ~(wlog[t].cmd = "NewTimer" /\ t \in nilTimer)

(* One thunk of canceller.Cancel, on the state the previous ones left:    *)
(* RequestCancelActivity/LocalActivity/Timer fire the pending result        *)
(* handler with a cancellation error at once (inside the loop, so inline);  *)
(* RequestCancelChildWorkflow is answered later.                            *)
CancelThunk(i, s, t) ==
  LET requests == t \in s.canc /\ ThunkRequestsCancel(t)
      fires == requests /\ wlog[t].cmd \in SyncCancel /\ s.fut[t] = "pending"
  IN  [mq |-> IF fires THEN AfterCallbackMq(s.mq, t, FALSE) ELSE s.mq,
       fut |-> [s.fut EXCEPT ![t] =
                  IF fires THEN "done"
                  ELSE IF requests /\ @ = "pending" THEN "cancelling" ELSE @],
       canc |-> IF fires THEN AfterCallbackCanc(s.canc, t) ELSE s.canc,
       callbacks |-> IF fires THEN AfterCallbackCbs(s.callbacks, t, FALSE)
                     ELSE s.callbacks,
       cancelReqs |-> IF requests THEN s.cancelReqs \cup {<<t, s.fut[t]>>}
                      ELSE s.cancelReqs,
       cancelledBy |-> IF fires THEN s.cancelledBy \cup {<<i, t>>} ELSE s.cancelledBy]

(* Cancel: canceller.Cancel(command.CommandIDs...) runs the thunk of each   *)
(* id in order (every registered thunk returns nil, so the error return is  *)
(* never taken); then the "completed" response and flushQueue.              *)
HandleCancelCommand(i) ==
  /\ Dispatch(i, "Cancel")
  /\ LET s0 == [mq |-> mq, fut |-> fut, canc |-> canc, callbacks |-> callbacks,
                cancelReqs |-> cancelReqs, cancelledBy |-> cancelledBy]
         s == FoldLeft(LAMBDA st, t : CancelThunk(i, st, t), s0, wlog[i].ids)
     IN  /\ fut' = s.fut /\ canc' = s.canc /\ callbacks' = s.callbacks
         /\ cancelReqs' = s.cancelReqs /\ cancelledBy' = s.cancelledBy
         /\ FlushQueue(PushAnswer(s.mq, i, TRUE), Tail(pipeline))
  /\ UNCHANGED <<attrVars, seq, inLoop, tick, nilTimer, childStart, listeners, updVars,
                 envVars, completed, taskPending>>

HandleMessage(i) ==
  \/ HandleExecuteActivity(i)
  \/ HandleExecuteLocalActivity(i)
  \/ HandleExecuteChildWorkflow(i)
  \/ HandleGetChildWorkflowExecution(i)
  \/ HandleNewTimer(i)
  \/ HandleGetVersion(i)
  \/ HandleSideEffect(i)
  \/ HandleUpdateCompleted(i)
  \/ HandleUpdateValidated(i)
  \/ HandleCompleteWorkflow(i)
  \/ HandleContinueAsNew(i)
  \/ HandleUpsertSearchAttributes(i)
  \/ HandleSignalExternalWorkflow(i)
  \/ HandleCancelExternalWorkflow(i)
  \/ HandleCancelCommand(i)
  \/ HandlePanic(i)
  \/ HandleUpsertMemo(i)
  \/ HandleUpsertTypedSearchAttributes(i)

-----------------------------------------------------------------------------
Sdk ==
  \/ HandleSignal
  \/ HandleCancel
  \/ \E u \in Updates : HandleUpdate(u)
  \/ HandleQuery
  \/ \E t \in Ids, ok \in BOOLEAN : SdkResolve(t, ok)
  \/ \E t \in Ids, ok \in BOOLEAN : SdkChildStarted(t, ok)

Tick ==
  \/ TickStart
  \/ DrainCallback
  \/ TickFlush
  \/ TickEnd
  \/ \E i \in Ids : HandleMessage(i)

Next == Sdk \/ Tick

(* OnTick is synchronous code: once started it runs to its end.  Temporal   *)
(* eventually completes every started activity, timer and child (each has   *)
(* a timeout) and eventually starts every child.                            *)
Fairness ==
  /\ WF_vars(Tick)
  /\ \A t \in Ids : WF_vars(\E ok \in BOOLEAN : SdkResolve(t, ok))
  /\ \A t \in Ids : WF_vars(\E ok \in BOOLEAN : SdkChildStarted(t, ok))

Spec == Init /\ [][Next]_vars /\ Fairness

-----------------------------------------------------------------------------
(* Properties.                                                              *)

TypeOK ==
  /\ mq \in Seq([kind : {"cmd", "resp", "err"}, id : Nat,
                 cmd : HostCmds \cup {"none"}, upd : Updates \cup {NoUpd}])
  /\ seq \in Nat
  /\ pipeline \in Seq(Ids)
  /\ callbacks \in Seq([id : Ids, ok : BOOLEAN])
  /\ inLoop \in BOOLEAN /\ tick \in {"idle", "callbacks", "pipeline"}
  /\ canc \subseteq Ids /\ nilTimer \subseteq Ids
  /\ fut \in [Ids -> {"none", "pending", "cancelling", "done"}]
  /\ childStart \in [Ids -> {"none", "ok", "err"}]
  /\ listeners \subseteq Ids \X Ids
  /\ validateCb \subseteq Updates /\ completeCb \subseteq Updates
  /\ updCalls \in [Updates -> Seq({"Accept", "Reject", "Complete"})]
  /\ wlog \in Seq([cmd : AllCmds, tgt : 0 .. MaxCmds, upd : Updates \cup {NoUpd},
                   fail : BOOLEAN, zero : BOOLEAN, sa : TypedInputs \cup {<<>>},
                   ids : Seq(Ids)])
  /\ Len(wlog) <= MaxCmds
  /\ completed \in BOOLEAN /\ failed \in BOOLEAN

(* Cancel cascade order (spec 5, scenario 2): when a Cancel command makes   *)
(* the SDK fire a target's result handler synchronously, the worker         *)
(* receives the target's error before the Cancel's "completed" response.    *)
(* Relies on createCallback running the handler inline while inLoop is set. *)
CancelErrorPrecedesAck ==
  \A p \in cancelledBy :
    \A j \in 1 .. Len(delivered) :
      delivered[j] = Resp(p[1]) =>
        \E k \in 1 .. (j - 1) : IsAnswer(delivered[k], p[2])

(* Update callbacks (I4, P3): for every update the SDK sees Accept or Reject*)
(* at most once, Complete only after Accept, and nothing after Reject, even *)
(* when the worker sends UpdateCompleted after a failed validation.         *)
UpdateCallbacksWellFormed ==
  \A u \in Updates :
    updCalls[u] \in {<<>>, <<"Accept">>, <<"Reject">>, <<"Accept", "Complete">>}

(* Canceller discipline (P5): every RequestCancel* the canceller issues     *)
(* targets a future the SDK still has pending, never one already resolved   *)
(* (zero-duration timers resolve before their thunk is registered).         *)
CancelOnlyPending ==
  \A r \in cancelReqs : r[2] = "pending"

(* Every worker request that expects an answer is eventually answered,      *)
(* unless the workflow completed or its task failed first.                  *)
EveryRequestAnswered ==
  \A i \in Ids :
    (i <= Len(wlog) /\ wlog[i].cmd \in Answerable) ~>
       (Answered(delivered, i) \/ completed \/ failed)

(* Spec I6 and 9 ("log and drop"): once env.Complete has been called, no    *)
(* further outbound message is produced and no SDK future is started or     *)
(* cancelled, whatever the worker still sends in the same frame.            *)
TerminalIsFinal ==
  [][completed =>
       /\ fut' = fut
       /\ Len(delivered') + Len(mq') = Len(delivered) + Len(mq)]_vars

\* The maps of the typed upserts dispatched so far, in dispatch order.
TypedUpserts ==
  LET ds == SelectSeq([i \in 1 .. Len(wlog) |-> i],
                      LAMBDA i : wlog[i].cmd = "UpsertWorkflowTypedSearchAttributes"
                                 /\ i \notin Range(pipeline))
  IN  [j \in 1 .. Len(ds) |-> wlog[ds[j]].sa]

(* P8 across a run's typed upserts, whatever order Go iterates each map in: *)
(* a batch with a bad RFC3339 Datetime fails the task and never reaches the *)
(* SDK, not even the valid attributes the loop already collected before the *)
(* bad one; a batch that translates to nothing makes no SDK call; and in    *)
(* every state, failed or not, the SDK holds exactly what the reference     *)
(* translation of the other batches, applied in order, gives, with one SDK  *)
(* call per non-empty batch.                                                *)
TypedUpsertsFollowP8 ==
  LET ups == TypedUpserts
      applied == SelectSeq(ups, LAMBDA a : ~TSA!RefFatal(a) /\ TSA!RefUpdates(a) # {})
  IN  /\ (\E j \in 1 .. Len(ups) : TSA!RefFatal(ups[j])) => failed
      /\ typedCalls = Len(applied)
      /\ sdkAttrs = FoldLeft(LAMBDA st, a : SdkUpsert(st, TSA!RefUpdates(a)),
                             [k \in AttrKeys |-> NoAttr], applied)
=============================================================================
