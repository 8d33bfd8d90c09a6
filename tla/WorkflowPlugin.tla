---------------------------- MODULE WorkflowPlugin ----------------------------
(***************************************************************************)
(* The "workflows" plugin (src/unnamed/part_001, lines 108-368): it owns    *)
(* the pool of PHP workflow workers and replaces it when a worker fails.   *)
(* Goroutines:                                                             *)
(*  - the reset loop of watch(): for range p.reset { closing check;        *)
(*    replacePool; on error backoff.Retry(replacePool) or give up };        *)
(*  - the events loop of watch(): select { worker event: p.reset <- ;      *)
(*    <-p.stopCh: return };                                                 *)
(*  - Stop(), Reset() and WorkflowNames(), called by the RoadRunner         *)
(*    container and RPC.                                                    *)
(* A pool is a number; 0 is nil.  Pool start and destroy are single steps;  *)
(* replacePool holds the plugin mutex between its destroy and its start.    *)
(* The state starts after a successful Serve().                             *)
(***************************************************************************)
EXTENDS Naturals, FiniteSets

CONSTANTS
  MaxEvents,     \* EventWorkerError / EventWorkerWaitExit events raised
  MaxFailures,   \* pool start/destroy failures
  MaxRpcResets   \* Reset() RPC calls

ASSUME MaxEvents \in Nat /\ MaxFailures \in Nat /\ MaxRpcResets \in Nat

\* Every reset starts at most one pool; the first pool comes from Serve.
MaxPools == 1 + MaxEvents + MaxRpcResets
Pools == 1 .. MaxPools

VARIABLES
  pool,        \* p.pool (0 = nil)
  started,     \* pools started so far
  alive,       \* pools started and not destroyed
  closing,     \* p.closing
  reset,       \* items in p.reset (capacity 1)
  stopCh,      \* items in p.stopCh (capacity 1)
  lockHeld,    \* the plugin mutex is held by replacePool
  evq,         \* events waiting in eventsCh
  events,      \* events still to be raised
  failures,    \* failures still possible
  broken,      \* pools a worker error event was raised for
  pcR,         \* reset loop: "recv" | "check" | "destroy" | "start" | "retry" | "exit"
  retrying,    \* the reset loop is inside backoff.Retry
  pcE,         \* events loop: "select" | "send" | "exit"
  pcS,         \* Stop: "idle" | "get" | "destroy" | "send" | "done"
  stopPool,    \* the pool Stop read with getPool
  rpcs,        \* Reset() calls made
  pcRpc,       \* Reset(): "idle" | "send"
  errReported, \* the reset loop sent an error to errCh and returned
  nilRead,     \* WorkflowNames() ran while p.pool was nil
  replaced     \* pools replacePool destroyed

vars == <<pool, started, alive, closing, reset, stopCh, lockHeld, evq, events,
          failures, broken, pcR, retrying, pcE, pcS, stopPool, rpcs, pcRpc,
          errReported, nilRead, replaced>>

Init ==
  /\ pool = 1 /\ started = 1 /\ alive = {1}
  /\ closing = 0 /\ reset = 0 /\ stopCh = 0 /\ lockHeld = FALSE
  /\ evq = 0 /\ events = MaxEvents /\ failures = MaxFailures /\ broken = {}
  /\ pcR = "recv" /\ retrying = FALSE /\ pcE = "select"
  /\ pcS = "idle" /\ stopPool = 0
  /\ rpcs = 0 /\ pcRpc = "idle"
  /\ errReported = FALSE /\ nilRead = FALSE /\ replaced = {}

-----------------------------------------------------------------------------
(* The reset loop (watch, lines 320-342) and replacePool (lines 280-308).   *)

RecvReset ==
  /\ pcR = "recv" /\ reset = 1
  /\ reset' = 0 /\ pcR' = "check"
  /\ UNCHANGED <<pool, started, alive, closing, stopCh, lockHeld, evq, events,
                 failures, broken, retrying, pcE, pcS, stopPool, rpcs, pcRpc,
                 errReported, nilRead, replaced>>

\* Mutant: the closing test inverted.
ClosingExitsInverted(c) == c = 0
\* if atomic.LoadInt64(&p.closing) == 1 { return }
ClosingExits(c) == c = 1

CheckClosing ==
  /\ pcR = "check"
  /\ pcR' = IF ClosingExits(closing) THEN "exit" ELSE "destroy"
  /\ UNCHANGED <<pool, started, alive, closing, reset, stopCh, lockHeld, evq,
                 events, failures, broken, retrying, pcE, pcS, stopPool, rpcs,
                 pcRpc, errReported, nilRead, replaced>>

(* replacePool, first half: Lock; if p.pool != nil { Destroy; p.pool = nil; *)
(* on error Unlock and return it }.                                         *)
ReplaceDestroy ==
  /\ pcR = "destroy" /\ ~lockHeld
  /\ alive' = alive \ {pool}
  /\ replaced' = replaced \cup ({pool} \ {0})
  /\ pool' = 0
  /\ \/ /\ lockHeld' = TRUE /\ pcR' = "start" /\ UNCHANGED failures
     \/ /\ pool # 0 /\ failures > 0
        /\ failures' = failures - 1
        /\ lockHeld' = FALSE /\ pcR' = "retry"
  /\ UNCHANGED <<started, closing, reset, stopCh, evq, events, broken, retrying,
                 pcE, pcS, stopPool, rpcs, pcRpc, errReported, nilRead>>

(* replacePool, second half: startPool; on error Unlock and return it (the  *)
(* pool stays nil); else p.pool = np, Unlock.  A success ends the Retry.   *)
ReplaceStart ==
  /\ pcR = "start"
  /\ lockHeld' = FALSE
  /\ \/ /\ started < MaxPools
        /\ started' = started + 1
        /\ alive' = alive \cup {started + 1}
        /\ pool' = started + 1
        /\ pcR' = "recv" /\ retrying' = FALSE
        /\ UNCHANGED failures
     \/ /\ failures > 0
        /\ failures' = failures - 1
        /\ pcR' = "retry"
        /\ UNCHANGED <<started, alive, pool, retrying>>
  /\ UNCHANGED <<closing, reset, stopCh, evq, events, broken, pcE, pcS,
                 stopPool, rpcs, pcRpc, errReported, nilRead, replaced>>

(* After a failed replacePool: backoff.Retry calls it again (the closing    *)
(* flag is not looked at); once a call made by Retry has failed, the        *)
(* backoff may give up: errCh <- err; return.                               *)
Retry ==
  /\ pcR = "retry"
  /\ \/ /\ pcR' = "destroy" /\ retrying' = TRUE
        /\ UNCHANGED errReported
     \/ /\ retrying
        /\ pcR' = "exit" /\ errReported' = TRUE
        /\ UNCHANGED retrying
  /\ UNCHANGED <<pool, started, alive, closing, reset, stopCh, lockHeld, evq,
                 events, failures, broken, pcE, pcS, stopPool, rpcs, pcRpc,
                 nilRead, replaced>>

-----------------------------------------------------------------------------
(* The events loop (watch, lines 344-367) and the workers raising events.   *)

\* A worker of the current pool fails; the event bus delivers into eventsCh.
WorkerEvent ==
  /\ events > 0 /\ pool # 0 /\ evq < 10
  /\ events' = events - 1
  /\ evq' = evq + 1
  /\ broken' = broken \cup {pool}
  /\ UNCHANGED <<pool, started, alive, closing, reset, stopCh, lockHeld,
                 failures, pcR, retrying, pcE, pcS, stopPool, rpcs, pcRpc,
                 errReported, nilRead, replaced>>

\* select: case <-eventsCh
SelectEvent ==
  /\ pcE = "select" /\ evq > 0
  /\ evq' = evq - 1 /\ pcE' = "send"
  /\ UNCHANGED <<pool, started, alive, closing, reset, stopCh, lockHeld, events,
                 failures, broken, pcR, retrying, pcS, stopPool, rpcs, pcRpc,
                 errReported, nilRead, replaced>>

\* select: case <-p.stopCh: Unsubscribe; return
SelectStop ==
  /\ pcE = "select" /\ stopCh = 1
  /\ stopCh' = 0 /\ pcE' = "exit"
  /\ UNCHANGED <<pool, started, alive, closing, reset, lockHeld, evq, events,
                 failures, broken, pcR, retrying, pcS, stopPool, rpcs, pcRpc,
                 errReported, nilRead, replaced>>

\* p.reset <- struct{}{}: blocks while the channel is full.
SendReset ==
  /\ pcE = "send" /\ reset = 0
  /\ reset' = 1 /\ pcE' = "select"
  /\ UNCHANGED <<pool, started, alive, closing, stopCh, lockHeld, evq, events,
                 failures, broken, pcR, retrying, pcS, stopPool, rpcs, pcRpc,
                 errReported, nilRead, replaced>>

-----------------------------------------------------------------------------
(* Stop (lines 196-212), Reset (252-255), WorkflowNames (247-249).          *)

\* atomic.StoreInt64(&p.closing, 1)
StopBegin ==
  /\ pcS = "idle"
  /\ closing' = 1 /\ pcS' = "get"
  /\ UNCHANGED <<pool, started, alive, reset, stopCh, lockHeld, evq, events,
                 failures, broken, pcR, retrying, pcE, stopPool, rpcs, pcRpc,
                 errReported, nilRead, replaced>>

\* workflowPool := p.getPool() (under the mutex)
StopGetPool ==
  /\ pcS = "get" /\ ~lockHeld
  /\ stopPool' = pool
  /\ pcS' = IF pool # 0 THEN "destroy" ELSE "send"
  /\ UNCHANGED <<pool, started, alive, closing, reset, stopCh, lockHeld, evq,
                 events, failures, broken, pcR, retrying, pcE, rpcs, pcRpc,
                 errReported, nilRead, replaced>>

\* workflowPool.Destroy(ctx); return (no stopCh signal on this path)
StopDestroy ==
  /\ pcS = "destroy"
  /\ alive' = alive \ {stopPool}
  /\ pcS' = "done"
  /\ UNCHANGED <<pool, started, closing, reset, stopCh, lockHeld, evq, events,
                 failures, broken, pcR, retrying, pcE, stopPool, rpcs, pcRpc,
                 errReported, nilRead, replaced>>

\* p.stopCh <- struct{}{} (capacity 1, only Stop sends)
StopSignal ==
  /\ pcS = "send" /\ stopCh = 0
  /\ stopCh' = 1 /\ pcS' = "done"
  /\ UNCHANGED <<pool, started, alive, closing, reset, lockHeld, evq, events,
                 failures, broken, pcR, retrying, pcE, stopPool, rpcs, pcRpc,
                 errReported, nilRead, replaced>>

RpcResetCall ==
  /\ pcRpc = "idle" /\ rpcs < MaxRpcResets
  /\ rpcs' = rpcs + 1 /\ pcRpc' = "send"
  /\ UNCHANGED <<pool, started, alive, closing, reset, stopCh, lockHeld, evq,
                 events, failures, broken, pcR, retrying, pcE, pcS, stopPool,
                 errReported, nilRead, replaced>>

\* p.reset <- struct{}{}: the RPC blocks while the channel is full.
RpcResetSend ==
  /\ pcRpc = "send" /\ reset = 0
  /\ reset' = 1 /\ pcRpc' = "idle"
  /\ UNCHANGED <<pool, started, alive, closing, stopCh, lockHeld, evq, events,
                 failures, broken, pcR, retrying, pcE, pcS, stopPool, rpcs,
                 errReported, nilRead, replaced>>

\* p.pool.WorkflowNames() without the mutex and without a nil check.
WorkflowNames ==
  /\ ~nilRead
  /\ nilRead' = (pool = 0)
  /\ UNCHANGED <<pool, started, alive, closing, reset, stopCh, lockHeld, evq,
                 events, failures, broken, pcR, retrying, pcE, pcS, stopPool,
                 rpcs, pcRpc, errReported, replaced>>

-----------------------------------------------------------------------------
ResetLoop == RecvReset \/ CheckClosing \/ ReplaceDestroy \/ ReplaceStart \/ Retry
EventsLoop == SelectEvent \/ SelectStop \/ SendReset
StopCall == StopGetPool \/ StopDestroy \/ StopSignal

Next ==
  \/ ResetLoop \/ EventsLoop \/ StopCall \/ RpcResetSend
  \/ WorkerEvent \/ StopBegin \/ RpcResetCall \/ WorkflowNames

(* The Go scheduler eventually runs every runnable goroutine, and a call    *)
(* in progress runs on.  Events, Stop, Reset() and WorkflowNames() are      *)
(* made by the environment and need not happen.                             *)
Fairness ==
  /\ WF_vars(ResetLoop) /\ WF_vars(EventsLoop) /\ WF_vars(StopCall)
  /\ WF_vars(RpcResetSend)

Spec == Init /\ [][Next]_vars /\ Fairness

-----------------------------------------------------------------------------
TypeOK ==
  /\ pool \in 0 .. MaxPools /\ started \in Pools /\ alive \subseteq Pools
  /\ closing \in {0, 1} /\ reset \in {0, 1} /\ stopCh \in {0, 1}
  /\ pcR \in {"recv", "check", "destroy", "start", "retry", "exit"}
  /\ pcE \in {"select", "send", "exit"}
  /\ pcS \in {"idle", "get", "destroy", "send", "done"}

(* A worker failure is repaired: once a worker of pool p has raised an      *)
(* error event, the plugin eventually runs a different, non-nil pool,       *)
(* unless it is stopping or the backoff gave up and reported the error.     *)
(* Exercises the event -> eventsCh -> p.reset -> replacePool path with the  *)
(* capacity-1 reset channel coalescing and blocking the sends.              *)
BrokenPoolReplaced ==
  \A p \in Pools :
    (p \in broken) ~> (pool \notin {0, p} \/ closing = 1 \/ errReported)

(* Stop shuts the workers down: once Stop has returned, no pool is alive.   *)
StopLeavesNoPool == pcS = "done" => alive = {}

(* WorkflowNames() is only called while p.pool is set (it dereferences the  *)
(* pool without a nil check).                                               *)
NamesNeverNil == ~nilRead

(* A Reset() RPC returns: its send on the capacity-1 p.reset channel, which *)
(* competes with the events loop's sends, is eventually taken by the reset  *)
(* loop while the plugin is serving (not closing, no error reported).       *)
ResetRpcReturns ==
  (pcRpc = "send") ~> (pcRpc = "idle" \/ closing = 1 \/ errReported)

(* Stop ends the events loop ("case <-p.stopCh: Unsubscribe; return"):      *)
(* once Stop has returned, the events goroutine eventually exits.           *)
EventsLoopEndsAfterStop == (pcS = "done") ~> (pcE = "exit")

(* Without Reset() RPCs, replacePool only destroys pools that a worker      *)
(* error or exit event was raised for, never the healthy replacement.       *)
HealthyPoolKept == rpcs = 0 => replaced \subseteq broken

=============================================================================
