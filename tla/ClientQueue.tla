---------------------------- MODULE ClientQueue ----------------------------
(***************************************************************************)
(* The delivery pipeline of one live Client (client.go): callers of the    *)
(* Record methods dispatch jobs without blocking onto a bounded channel,   *)
(* one worker goroutine runs them, and Flush and Shutdown push a sentinel  *)
(* job through the same channel to learn that what was queued before them  *)
(* has run.                                                                *)
(*                                                                         *)
(* Every record is one call of dispatch; every flush and every shutdown is *)
(* one call of Client.Flush or Client.Shutdown, whose sentinel is written  *)
(* as the call itself in the channel.  The context of a call in Unbounded  *)
(* never ends; Shutdown gives its context a deadline when the caller gave  *)
(* none, so only flushes can be in Unbounded.                              *)
(***************************************************************************)
EXTENDS Integers, Sequences, FiniteSets

CONSTANTS
    Records,      \* calls of dispatch
    Flushes,      \* calls of Client.Flush
    Shutdowns,    \* calls of Client.Shutdown
    Unbounded,    \* the flushes whose context never ends
    QueueSize     \* the capacity of the channel jobs (WithQueueSize)

ASSUME CallsAssumption ==
    /\ Records \cap (Flushes \cup Shutdowns) = {}
    /\ Flushes \cap Shutdowns = {}
    /\ Unbounded \subseteq Flushes

ASSUME QueueSizeAssumption == QueueSize \in Nat \ {0}

ASSUME FiniteAssumption == IsFiniteSet(Records)

Drainers == Flushes \cup Shutdowns
Items == Records \cup Drainers

VARIABLES
    shutdown,        \* Client.shutdown, the flag set by compare-and-swap
    jobs,            \* the channel Client.jobs, oldest item first
    running,         \* the item the worker is executing: at most one
    stopped,         \* stopCh is closed
    exited,          \* the worker has returned (wg is down to zero)
    call,            \* how far each dispatch call has come
    pc,              \* where each Flush or Shutdown call is
    done,            \* the calls whose done channel is closed
    drained,         \* the calls whose drain returned nil
    expired,         \* the calls whose context is done
    errs,            \* the calls that return an error
    down,            \* the providers that have been shut down
    overflow,        \* counters.queueOverflow
    recoveredPanic,  \* counters.recoveredPanic
    (* history: what the properties compare, never read by a guard *)
    ticket,          \* the place of a sent record in the order of sending
    sent,            \* how many records have entered the channel
    finished,        \* how many records have been executed
    before,          \* what "sent" was when a Flush or Shutdown started
    racing           \* dispatch calls between check and send at the shutdown

recordVars == <<call, ticket, sent, overflow>>
workerVars == <<running, exited, finished, recoveredPanic, done>>
drainVars  == <<drained, expired, errs, before>>
stopVars   == <<shutdown, stopped, down, racing>>
vars == <<jobs, pc, recordVars, workerVars, drainVars, stopVars>>

Providers == {"tp", "mp", "lp"}

TypeOK ==
    /\ shutdown \in BOOLEAN /\ stopped \in BOOLEAN /\ exited \in BOOLEAN
    /\ jobs \in Seq(Items) /\ Len(jobs) <= QueueSize
    /\ running \in SUBSET Items
    /\ call \in [Records -> {"idle", "checked", "ignored", "sent", "dropped", "ran"}]
    /\ pc \in [Drainers -> {"idle", "drain", "blocked", "wait", "close", "join",
                            "tp", "mp", "lp", "returned"}]
    /\ done \in SUBSET Drainers /\ drained \in SUBSET Drainers
    /\ expired \in SUBSET (Drainers \ Unbounded) /\ errs \in SUBSET Drainers
    /\ down \in SUBSET Providers
    /\ overflow \in Nat /\ recoveredPanic \in Nat
    /\ ticket \in [Records -> Nat] /\ sent \in Nat /\ finished \in Nat
    /\ before \in [Drainers -> Nat]
    /\ racing \in SUBSET Records

Init ==
    /\ shutdown = FALSE /\ stopped = FALSE /\ exited = FALSE
    /\ jobs = <<>> /\ running = {}
    /\ call = [r \in Records |-> "idle"]
    /\ pc = [d \in Drainers |-> "idle"]
    /\ done = {} /\ drained = {} /\ expired = {} /\ errs = {} /\ down = {}
    /\ overflow = 0 /\ recoveredPanic = 0
    /\ ticket = [r \in Records |-> 0] /\ sent = 0 /\ finished = 0
    /\ before = [d \in Drainers |-> 0]
    /\ racing = {}

-----------------------------------------------------------------------------
(* The channel.                                                            *)

Mut_HasRoom == Len(jobs) <= QueueSize

HasRoom == Len(jobs) < QueueSize

Blocked == {d \in Drainers : pc[d] = "blocked"}

Goto(d, at) == pc' = [pc EXCEPT ![d] = at]

-----------------------------------------------------------------------------
(* dispatch: the enabled check, then the non-blocking send.  The two are   *)
(* separate steps: a Shutdown may start between them.                      *)

DispatchCheck(r) ==
    /\ call[r] = "idle"
    /\ call' = [call EXCEPT ![r] = IF shutdown THEN "ignored" ELSE "checked"]
    /\ UNCHANGED <<jobs, pc, ticket, sent, overflow, workerVars, drainVars, stopVars>>

Send(r) ==
    /\ call[r] = "checked"
    /\ HasRoom
    /\ jobs' = Append(jobs, r)
    /\ call' = [call EXCEPT ![r] = "sent"]
    /\ sent' = sent + 1
    /\ ticket' = [ticket EXCEPT ![r] = sent + 1]
    /\ UNCHANGED <<pc, overflow, workerVars, drainVars, stopVars>>

\* A plausible bug: make room by discarding the oldest item.
Mut_Overflow(r) ==
    /\ call[r] = "checked"
    /\ ~HasRoom
    /\ jobs' = Append(Tail(jobs), r)
    /\ call' = [call EXCEPT ![r] = "sent"]
    /\ overflow' = overflow + 1
    /\ sent' = sent + 1
    /\ ticket' = [ticket EXCEPT ![r] = sent + 1]
    /\ UNCHANGED <<pc, workerVars, drainVars, stopVars>>

\* A plausible bug: apply backpressure instead of dropping.
MutBlock_Overflow(r) == FALSE /\ UNCHANGED vars

Overflow(r) ==
    /\ call[r] = "checked"
    /\ ~HasRoom
    /\ call' = [call EXCEPT ![r] = "dropped"]
    /\ overflow' = overflow + 1
    /\ UNCHANGED <<jobs, pc, ticket, sent, workerVars, drainVars, stopVars>>

-----------------------------------------------------------------------------
(* The worker.  Its select takes a job or notices stopCh; with both ready  *)
(* Go chooses at random.  Receiving from a full channel hands the freed    *)
(* place to a blocked sender in the same step.                             *)

MutPeek_WorkerTake ==
    /\ ~exited /\ running = {} /\ jobs # <<>>
    /\ running' = {Head(jobs)}
    /\ UNCHANGED <<jobs, pc, recordVars, exited, finished, recoveredPanic, done,
                   drainVars, stopVars>>

MutLast_WorkerTake ==
    /\ ~exited /\ running = {} /\ jobs # <<>>
    /\ running' = {jobs[Len(jobs)]}
    /\ jobs' = SubSeq(jobs, 1, Len(jobs) - 1)
    /\ UNCHANGED <<pc, recordVars, exited, finished, recoveredPanic, done,
                   drainVars, stopVars>>

WorkerTake ==
    /\ ~exited /\ running = {} /\ jobs # <<>>
    /\ running' = {Head(jobs)}
    /\ \/ /\ Blocked = {}
          /\ jobs' = Tail(jobs)
          /\ UNCHANGED pc
       \/ \E d \in Blocked :
             /\ jobs' = Append(Tail(jobs), d)
             /\ Goto(d, "wait")
    /\ UNCHANGED <<recordVars, exited, finished, recoveredPanic, done,
                   drainVars, stopVars>>

WorkerStop ==
    /\ ~exited /\ running = {} /\ stopped
    /\ exited' = TRUE
    /\ UNCHANGED <<jobs, pc, recordVars, running, finished, recoveredPanic, done,
                   drainVars, stopVars>>

Finish(r) ==
    /\ r \in running
    /\ running' = {}
    /\ call' = [call EXCEPT ![r] = "ran"]
    /\ finished' = finished + 1
    /\ UNCHANGED <<jobs, pc, ticket, sent, overflow, done, drainVars, stopVars>>

JobReturn(r) == Finish(r) /\ UNCHANGED <<exited, recoveredPanic>>

\* A plausible bug: the recovery is deferred in worker instead of runJob.
Mut_JobPanic(r) == Finish(r) /\ exited' = TRUE /\ recoveredPanic' = recoveredPanic + 1

JobPanic(r) == Finish(r) /\ recoveredPanic' = recoveredPanic + 1 /\ UNCHANGED exited

RunSentinel(d) ==
    /\ d \in running
    /\ running' = {}
    /\ done' = done \cup {d}
    /\ UNCHANGED <<jobs, pc, recordVars, exited, finished, recoveredPanic,
                   drainVars, stopVars>>

-----------------------------------------------------------------------------
(* Flush and Shutdown up to drain.                                         *)

FlushEnter(f) ==
    /\ pc[f] = "idle"
    /\ IF shutdown
         THEN Goto(f, "returned") /\ UNCHANGED before
         ELSE Goto(f, "drain") /\ before' = [before EXCEPT ![f] = sent]
    /\ UNCHANGED <<jobs, recordVars, workerVars, drained, expired, errs, stopVars>>

\* A plausible bug: a load and a store where the code has a compare-and-swap
\* (the second caller does not notice that it lost).
Mut_ShutdownEnter(s) ==
    /\ pc[s] = "idle"
    /\ Goto(s, "drain")
    /\ shutdown' = TRUE
    /\ before' = [before EXCEPT ![s] = sent]
    /\ racing' = {r \in Records : call[r] = "checked"}
    /\ UNCHANGED <<jobs, recordVars, workerVars, drained, expired, errs, stopped, down>>

ShutdownEnter(s) ==
    /\ pc[s] = "idle"
    /\ IF shutdown
         THEN Goto(s, "returned") /\ UNCHANGED <<before, stopVars>>
         ELSE /\ Goto(s, "drain")
              /\ shutdown' = TRUE
              /\ before' = [before EXCEPT ![s] = sent]
              /\ racing' = {r \in Records : call[r] = "checked"}
              /\ UNCHANGED <<stopped, down>>
    /\ UNCHANGED <<jobs, recordVars, workerVars, drained, expired, errs>>

(* drain: a non-blocking send of the sentinel, else a blocking one, then   *)
(* the wait for its execution; the last two give up with the context.      *)

DrainSend(d) ==
    /\ pc[d] = "drain"
    /\ HasRoom
    /\ jobs' = Append(jobs, d)
    /\ Goto(d, "wait")
    /\ UNCHANGED <<recordVars, workerVars, drainVars, stopVars>>

\* What drain does when it is over: Flush returns the error of its drain,
\* Shutdown discards it.
AfterDrain(d) == IF d \in Shutdowns THEN "close" ELSE "tp"

\* A plausible bug: a full queue is taken for a drained one.
Mut_DrainBlock(d) ==
    /\ pc[d] = "drain"
    /\ ~HasRoom
    /\ Goto(d, AfterDrain(d))
    /\ drained' = drained \cup {d}
    /\ UNCHANGED <<jobs, recordVars, workerVars, expired, errs, before, stopVars>>

DrainBlock(d) ==
    /\ pc[d] = "drain"
    /\ ~HasRoom
    /\ Goto(d, "blocked")
    /\ UNCHANGED <<jobs, recordVars, workerVars, drainVars, stopVars>>

\* A plausible bug: the blocking send does not select on ctx.Done.
Mut_DrainGiveUp(d) ==
    /\ pc[d] = "wait"
    /\ d \in expired
    /\ IF d \in Shutdowns
         THEN Goto(d, "close") /\ UNCHANGED errs
         ELSE Goto(d, "returned") /\ errs' = errs \cup {d}
    /\ UNCHANGED <<jobs, recordVars, workerVars, drained, expired, before, stopVars>>

DrainGiveUp(d) ==
    /\ pc[d] \in {"blocked", "wait"}
    /\ d \in expired
    /\ IF d \in Shutdowns
         THEN Goto(d, "close") /\ UNCHANGED errs
         ELSE Goto(d, "returned") /\ errs' = errs \cup {d}
    /\ UNCHANGED <<jobs, recordVars, workerVars, drained, expired, before, stopVars>>

DrainDone(d) ==
    /\ pc[d] = "wait"
    /\ d \in done
    /\ Goto(d, AfterDrain(d))
    /\ drained' = drained \cup {d}
    /\ UNCHANGED <<jobs, recordVars, workerVars, expired, errs, before, stopVars>>

-----------------------------------------------------------------------------
(* The rest of Shutdown, and the providers' exports.                       *)

\* A plausible bug: the worker is never told to stop.
Mut_CloseStop(s) ==
    /\ pc[s] = "close"
    /\ Goto(s, "join")
    /\ UNCHANGED <<jobs, recordVars, workerVars, drainVars, stopVars>>

CloseStop(s) ==
    /\ pc[s] = "close"
    /\ stopped' = TRUE
    /\ Goto(s, "join")
    /\ UNCHANGED <<jobs, recordVars, workerVars, drainVars, shutdown, down, racing>>

\* A plausible bug: wg.Wait gives up with the context.
Mut_Join(s) ==
    /\ pc[s] = "join"
    /\ exited \/ s \in expired
    /\ Goto(s, "tp")
    /\ UNCHANGED <<jobs, recordVars, workerVars, drainVars, stopVars>>

Join(s) ==
    /\ pc[s] = "join"
    /\ exited
    /\ Goto(s, "tp")
    /\ UNCHANGED <<jobs, recordVars, workerVars, drainVars, stopVars>>

AfterExport(at) ==
    CASE at = "tp" -> "mp" [] at = "mp" -> "lp" [] at = "lp" -> "returned"

\* ForceFlush of a Flush, Shutdown of a Shutdown, on tp, mp and lp in turn:
\* an error is remembered and the next provider is still called.
Export(d) ==
    /\ pc[d] \in Providers
    /\ Goto(d, AfterExport(pc[d]))
    /\ \E failed \in {{}, {d}} : errs' = errs \cup failed
    /\ down' = IF d \in Shutdowns THEN down \cup {pc[d]} ELSE down
    /\ UNCHANGED <<jobs, recordVars, workerVars, drained, expired, before,
                   shutdown, stopped, racing>>

\* The context of a call reaches its deadline or is cancelled.
CtxExpire(d) ==
    /\ d \notin Unbounded
    /\ d \notin expired
    /\ pc[d] \notin {"idle", "returned"}
    /\ expired' = expired \cup {d}
    /\ UNCHANGED <<jobs, pc, recordVars, workerVars, drained, errs, before, stopVars>>

-----------------------------------------------------------------------------
Dispatch(r) == DispatchCheck(r) \/ Send(r) \/ Overflow(r)

Drain(d) == DrainSend(d) \/ DrainBlock(d) \/ DrainGiveUp(d) \/ DrainDone(d)

Worker == WorkerTake \/ WorkerStop

\* Every call has returned: the program may stop here, and nowhere else.
Terminated ==
    /\ \A r \in Records : call[r] \in {"ignored", "sent", "dropped", "ran"}
    /\ \A d \in Drainers : pc[d] = "returned"
    /\ UNCHANGED vars

Next ==
    \/ \E r \in Records : Dispatch(r) \/ JobReturn(r) \/ JobPanic(r)
    \/ Worker
    \/ \E d \in Drainers : RunSentinel(d) \/ Drain(d) \/ Export(d) \/ CtxExpire(d)
    \/ \E f \in Flushes : FlushEnter(f)
    \/ \E s \in Shutdowns : ShutdownEnter(s) \/ CloseStop(s) \/ Join(s)
    \/ Terminated

Spec == Init /\ [][Next]_vars

(* Fairness of the SDK itself: goroutines are scheduled, contexts with a   *)
(* deadline end, and an export returns (it is bounded by the exporters'    *)
(* timeout).  Nothing is assumed of callers, nor that a job returns: a job *)
(* may do file I/O.                                                        *)
SDKFairness ==
    /\ \A r \in Records : WF_vars(Send(r) \/ Overflow(r))
    /\ WF_vars(Worker)
    /\ \A d \in Drainers :
          WF_vars(Drain(d)) /\ WF_vars(RunSentinel(d))
          /\ WF_vars(Export(d)) /\ WF_vars(CtxExpire(d))
    /\ \A s \in Shutdowns : WF_vars(CloseStop(s)) /\ WF_vars(Join(s))

FairSpec == Spec /\ SDKFairness

(* In addition, every job the worker starts returns or panics.             *)
JobFairness == \A r \in Records : WF_vars(JobReturn(r) \/ JobPanic(r))

FullyFairSpec == FairSpec /\ JobFairness

-----------------------------------------------------------------------------
(* Safety.                                                                 *)

\* What drain promises (client.go:323): when it returns nil, every record
\* that had entered the queue when the Flush or Shutdown started has been
\* executed, whatever raced with it, blocked it or was dropped meanwhile.
DrainCoversPrior == \A d \in drained : before[d] <= finished

\* Records are executed one at a time and in the order in which they were
\* queued: the running one is the next in that order (one worker, FIFO).
InOrder ==
    /\ Cardinality(running) <= 1
    /\ \A r \in running \cap Records : ticket[r] = finished + 1

\* Once the worker has left after a Shutdown whose drain succeeded, the only
\* records that are left unexecuted in the channel are those whose dispatch
\* had checked the flag before the compare-and-swap and sent after it.
ShutdownLosesOnlyRacers ==
    exited /\ (\E s \in Shutdowns : s \in drained) =>
        \A r \in Records : call[r] = "sent" => r \in racing

\* No provider is shut down while a job may still be recording on it, even
\* when the context of Shutdown ended long before (wg.Wait ignores it).
NoJobOnDeadProvider == down # {} => running = {} /\ exited

\* Nothing is lost silently: a record that a dispatch accepted is in the
\* channel, being executed or executed, and every one that did not fit is in
\* Stats.QueueOverflowDropped.
NoSilentLoss ==
    /\ \A r \in Records :
          call[r] = "sent" => r \in running \/ \E i \in 1..Len(jobs) : jobs[i] = r
    /\ overflow = Cardinality({r \in Records : call[r] = "dropped"})

\* At most one Shutdown call does the work: stopCh is closed once (closing it
\* again would panic) and the providers are shut down once.
SingleShutdown ==
    \A s, t \in Shutdowns :
        /\ pc[s] \notin {"idle", "returned"} /\ pc[t] \notin {"idle", "returned"} => s = t
        /\ pc[s] \in {"drain", "blocked", "wait", "close"} => ~stopped

-----------------------------------------------------------------------------
(* Liveness.                                                               *)

\* dispatch never blocks its caller, not even while a job hangs.
RecordNeverBlocks == \A r \in Records : call[r] = "checked" ~> call[r] # "checked"

\* A Flush with a bounded context returns, whatever the worker does.
BoundedFlushReturns ==
    \A f \in Flushes \ Unbounded : pc[f] # "idle" ~> pc[f] = "returned"

NoJobHangs == []<>(running \cap Records = {})

\* Shutdown returns unless a job hangs.
ShutdownReturns ==
    NoJobHangs => \A s \in Shutdowns : pc[s] # "idle" ~> pc[s] = "returned"

\* A queued record is executed or the client is shut down, unless a job
\* hangs: a panicking job does not take the worker with it.
QueuedRunsOrShutdown ==
    NoJobHangs => \A r \in Records : call[r] = "sent" ~> call[r] = "ran" \/ stopped

\* options.go:161 says WithShutdownTimeout "bounds how long Shutdown/Flush
\* may block": every Flush returns.
FlushReturns == \A f \in Flushes : pc[f] # "idle" ~> pc[f] = "returned"

\* client.go:351 says Shutdown is "bounded by ctx": once its context has
\* ended it returns.
ShutdownBounded == \A s \in Shutdowns : s \in expired ~> pc[s] = "returned"
-----------------------------------------------------------------------------
(* The pipeline keeps the promise of Delivery.                             *)

Barrier ==
    [d \in Drainers |->
        CASE pc[d] = "idle" -> "new"
          [] pc[d] \in {"drain", "blocked", "wait"} -> "pending"
          [] OTHER -> IF d \in drained THEN "kept" ELSE "void"]

Promise == INSTANCE Delivery WITH
    status <- call, accepted <- sent, delivered <- finished, drops <- overflow,
    closed <- shutdown, sealed <- exited, barrier <- Barrier, promised <- before,
    reported <- errs, returned <- {d \in Drainers : pc[d] = "returned"}

\* Every behaviour of the channel, the worker and the sentinels is one that
\* Delivery allows: in particular a Flush that returns nil before a shutdown
\* has had everything accepted before it delivered, in order, and a Shutdown
\* returns only when nothing can be delivered any more.
ImplementsDelivery == Promise!Spec
=============================================================================
