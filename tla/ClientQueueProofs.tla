------------------------- MODULE ClientQueueProofs -------------------------
(***************************************************************************)
(* Theorems of ClientQueue for any sets of calls and any queue size.  The  *)
(* invariants are proved one after the other, each from those before it:   *)
(* types, control (who may be where), the order of the queue, and what a   *)
(* shutdown can lose.  The refinement of Delivery follows from all four.   *)
(***************************************************************************)
EXTENDS ClientQueue, SequenceTheorems, FiniteSetTheorems, TLAPS

\* How a send changes the channel.
LEMMA AppendFacts ==
    ASSUME NEW S, NEW seq \in Seq(S), NEW x \in S
    PROVE  /\ Append(seq, x) \in Seq(S)
           /\ Len(Append(seq, x)) = Len(seq) + 1
           /\ \A i \in 1..Len(seq) : Append(seq, x)[i] = seq[i]
           /\ Append(seq, x)[Len(seq) + 1] = x
BY AppendProperties

\* How a receive changes the channel.
LEMMA TailFacts ==
    ASSUME NEW S, NEW seq \in Seq(S), seq # <<>>
    PROVE  /\ Len(seq) \in Nat \ {0}
           /\ Head(seq) = seq[1] /\ Head(seq) \in S
           /\ Tail(seq) \in Seq(S)
           /\ Len(Tail(seq)) = Len(seq) - 1
           /\ \A i \in 1..(Len(seq) - 1) : Tail(seq)[i] = seq[i + 1]
<1>1. Len(seq) \in Nat \ {0} /\ Head(seq) = seq[1]
  BY HeadTailProperties, EmptySeq, LenProperties
<1>2. Head(seq) \in S /\ Tail(seq) \in Seq(S) /\ Len(Tail(seq)) = Len(seq) - 1
  BY HeadTailProperties
<1>3. \A i \in 1..(Len(seq) - 1) : Tail(seq)[i] = seq[i + 1]
  BY <1>2, HeadTailProperties
<1>. QED
  BY <1>1, <1>2, <1>3

-----------------------------------------------------------------------------
\* Every variable keeps its type, and the channel its capacity.
THEOREM TypeCorrect == Spec => []TypeOK
<1>1. Init => TypeOK
  <2>1. <<>> \in Seq(Items) /\ Len(<<>>) = 0
    BY EmptySeq
  <2>2. Init => jobs \in Seq(Items) /\ Len(jobs) <= QueueSize
    BY <2>1, QueueSizeAssumption DEF Init
  <2>3. Init => /\ call \in [Records -> {"idle", "checked", "ignored", "sent", "dropped", "ran"}]
                /\ pc \in [Drainers -> {"idle", "drain", "blocked", "wait", "close", "join",
                                        "tp", "mp", "lp", "returned"}]
                /\ ticket \in [Records -> Nat] /\ before \in [Drainers -> Nat]
    BY DEF Init
  <2>4. Init => shutdown \in BOOLEAN /\ stopped \in BOOLEAN /\ exited \in BOOLEAN
    BY DEF Init
  <2>6. Init => /\ overflow \in Nat /\ recoveredPanic \in Nat /\ sent \in Nat /\ finished \in Nat
    BY DEF Init
  <2>5. Init => /\ running \in SUBSET Items /\ done \in SUBSET Drainers
                /\ drained \in SUBSET Drainers /\ expired \in SUBSET (Drainers \ Unbounded)
                /\ errs \in SUBSET Drainers /\ down \in SUBSET Providers
                /\ racing \in SUBSET Records
    BY DEF Init
  <2>. QED
    BY <2>2, <2>3, <2>4, <2>5, <2>6 DEF TypeOK
<1>2. TypeOK /\ [Next]_vars => TypeOK'
  <2>. SUFFICES ASSUME TypeOK, [Next]_vars PROVE TypeOK'
    OBVIOUS
  <2>. USE CallsAssumption, QueueSizeAssumption DEF TypeOK, Drainers, Items
  <2>1. ASSUME NEW r \in Records, DispatchCheck(r) PROVE TypeOK'
    BY <2>1 DEF DispatchCheck, workerVars, drainVars, stopVars
  <2>2. ASSUME NEW r \in Records, Send(r) PROVE TypeOK'
    BY <2>2, AppendFacts DEF Send, HasRoom, workerVars, drainVars, stopVars
  <2>3. ASSUME NEW r \in Records, Overflow(r) PROVE TypeOK'
    BY <2>3 DEF Overflow, workerVars, drainVars, stopVars
  <2>4. ASSUME NEW r \in Records, JobReturn(r) PROVE TypeOK'
    BY <2>4 DEF JobReturn, Finish, drainVars, stopVars
  <2>5. ASSUME NEW r \in Records, JobPanic(r) PROVE TypeOK'
    BY <2>5 DEF JobPanic, Finish, drainVars, stopVars
  <2>6. CASE WorkerTake
    <3>1. /\ Head(jobs) \in Items /\ Tail(jobs) \in Seq(Items)
          /\ Len(Tail(jobs)) < QueueSize
      BY <2>6, TailFacts DEF WorkerTake
    <3>2. jobs' \in Seq(Items) /\ Len(jobs') <= QueueSize
      <4>1. CASE jobs' = Tail(jobs)
        BY <4>1, <3>1, LenProperties
      <4>2. ASSUME NEW d \in Drainers, jobs' = Append(Tail(jobs), d)
            PROVE  jobs' \in Seq(Items) /\ Len(jobs') <= QueueSize
        <5>1. jobs' \in Seq(Items) /\ Len(jobs') = Len(Tail(jobs)) + 1
          BY <4>2, <3>1, AppendFacts
        <5>. QED
          BY <5>1, <3>1, LenProperties
      <4>. QED
        BY <4>1, <4>2, <2>6 DEF WorkerTake, Blocked
    <3>3. pc' \in [Drainers -> {"idle", "drain", "blocked", "wait", "close", "join",
                               "tp", "mp", "lp", "returned"}]
      BY <2>6 DEF WorkerTake, Blocked, Goto
    <3>. QED
      BY <2>6, <3>1, <3>2, <3>3 DEF WorkerTake, recordVars, drainVars, stopVars
  <2>7. CASE WorkerStop
    BY <2>7 DEF WorkerStop, recordVars, drainVars, stopVars
  <2>8. ASSUME NEW d \in Drainers, RunSentinel(d) PROVE TypeOK'
    BY <2>8 DEF RunSentinel, recordVars, drainVars, stopVars
  <2>9. ASSUME NEW d \in Drainers, DrainSend(d) PROVE TypeOK'
    BY <2>9, AppendFacts DEF DrainSend, Goto, HasRoom, recordVars, workerVars, drainVars, stopVars
  <2>10. ASSUME NEW d \in Drainers, DrainBlock(d) PROVE TypeOK'
    BY <2>10 DEF DrainBlock, Goto, recordVars, workerVars, drainVars, stopVars
  <2>11. ASSUME NEW d \in Drainers, DrainGiveUp(d) PROVE TypeOK'
    BY <2>11 DEF DrainGiveUp, Goto, recordVars, workerVars, drainVars, stopVars
  <2>12. ASSUME NEW d \in Drainers, DrainDone(d) PROVE TypeOK'
    BY <2>12 DEF DrainDone, AfterDrain, Goto, recordVars, workerVars, drainVars, stopVars
  <2>13. ASSUME NEW d \in Drainers, Export(d) PROVE TypeOK'
    <3>1. AfterExport(pc[d]) \in {"mp", "lp", "returned"}
      BY <2>13 DEF Export, AfterExport, Providers
    <3>. QED
      BY <2>13, <3>1 DEF Export, Goto, recordVars, workerVars
  <2>14. ASSUME NEW d \in Drainers, CtxExpire(d) PROVE TypeOK'
    BY <2>14 DEF CtxExpire, recordVars, workerVars, drainVars, stopVars
  <2>15. ASSUME NEW f \in Flushes, FlushEnter(f) PROVE TypeOK'
    BY <2>15 DEF FlushEnter, Goto, recordVars, workerVars, drainVars, stopVars
  <2>16. ASSUME NEW s \in Shutdowns, ShutdownEnter(s) PROVE TypeOK'
    <3>1. CASE shutdown
      BY <2>16, <3>1 DEF ShutdownEnter, Goto, recordVars, workerVars, stopVars
    <3>2. CASE ~shutdown
      <4>1. shutdown' \in BOOLEAN
        BY <2>16, <3>2 DEF ShutdownEnter
      <4>2. pc' = [pc EXCEPT ![s] = "drain"] /\ before' = [before EXCEPT ![s] = sent]
        BY <2>16, <3>2 DEF ShutdownEnter, Goto
      <4>3. racing' \in SUBSET Records
        BY <2>16, <3>2 DEF ShutdownEnter
      <4>4. UNCHANGED <<stopped, exited, jobs, running, call, done, drained, expired, errs,
                        down, overflow, recoveredPanic, ticket, sent, finished>>
        BY <2>16, <3>2 DEF ShutdownEnter, recordVars, workerVars
      <4>. QED
        BY <4>1, <4>2, <4>3, <4>4
    <3>. QED
      BY <3>1, <3>2
  <2>17. ASSUME NEW s \in Shutdowns, CloseStop(s) PROVE TypeOK'
    BY <2>17 DEF CloseStop, Goto, recordVars, workerVars, drainVars, stopVars
  <2>18. ASSUME NEW s \in Shutdowns, Join(s) PROVE TypeOK'
    BY <2>18 DEF Join, Goto, recordVars, workerVars, drainVars, stopVars
  <2>19. CASE UNCHANGED vars
    BY <2>19 DEF vars, recordVars, workerVars, drainVars, stopVars
  <2>. QED
    BY <2>1, <2>2, <2>3, <2>4, <2>5, <2>6, <2>7, <2>8, <2>9, <2>10, <2>11, <2>12,
       <2>13, <2>14, <2>15, <2>16, <2>17, <2>18, <2>19
    DEF Next, Dispatch, Drain, Worker, Terminated
<1>. QED
  BY <1>1, <1>2, PTL DEF Spec
-----------------------------------------------------------------------------
(* Who may be where: one item runs at a time and none once the worker has  *)
(* left, the worker leaves only after a shutdown, one Shutdown is at work, *)
(* and the providers go down after the worker.                             *)

AtWork(s) == pc[s] \notin {"idle", "returned"}

Control ==
    /\ running = {} \/ \E x \in Items : running = {x}
    /\ exited => running = {} /\ stopped
    /\ stopped => shutdown
    /\ ~shutdown => \A s \in Shutdowns : pc[s] = "idle"
    /\ SingleShutdown
    /\ \A s \in Shutdowns : pc[s] \in Providers => exited
    /\ down # {} => exited
    /\ \A f \in Flushes : pc[f] \notin {"close", "join"}

\* The control facts hold in every reachable state.
THEOREM ControlCorrect == Spec => []Control
<1>1. Init => Control
  BY DEF Init, Control, SingleShutdown, Drainers, Providers
<1>2. TypeOK /\ Control /\ [Next]_vars => Control'
  <2>. SUFFICES ASSUME TypeOK, Control, [Next]_vars PROVE Control'
    OBVIOUS
  <2>. USE CallsAssumption DEF Drainers
  <2>. pc \in [Drainers -> {"idle", "drain", "blocked", "wait", "close", "join",
                           "tp", "mp", "lp", "returned"}]
    BY DEF TypeOK
  <2>a. ASSUME UNCHANGED <<pc, shutdown, stopped, exited, running, down>> PROVE Control'
    BY <2>a DEF Control, SingleShutdown
  <2>b. ASSUME UNCHANGED <<pc, shutdown, stopped, exited, down>>, running' = {} PROVE Control'
    BY <2>b DEF Control, SingleShutdown
  (* a drainer moves between the states before its export *)
  <2>c. ASSUME NEW d \in Drainers, NEW at, Goto(d, at),
               pc[d] \in {"drain", "blocked", "wait"},
               \/ at \in {"blocked", "wait"}
               \/ d \in Shutdowns /\ at = "close"
               \/ d \in Flushes /\ at \in {"tp", "returned"},
               UNCHANGED <<shutdown, stopped, exited, running, down>>
        PROVE  Control'
    <3>1. SingleShutdown'
      BY <2>c DEF Control, SingleShutdown, Goto
    <3>2. \A s \in Shutdowns : pc'[s] \in Providers => exited
      BY <2>c DEF Control, Goto, Providers
    <3>. QED
      BY <2>c, <3>1, <3>2 DEF Control, Goto
  <2>1. ASSUME NEW r \in Records, Dispatch(r) PROVE Control'
    BY <2>1, <2>a DEF Dispatch, DispatchCheck, Send, Overflow, workerVars, drainVars, stopVars
  <2>2. ASSUME NEW r \in Records, JobReturn(r) PROVE Control'
    BY <2>2, <2>b DEF JobReturn, Finish, drainVars, stopVars
  <2>3. ASSUME NEW r \in Records, JobPanic(r) PROVE Control'
    BY <2>3, <2>b DEF JobPanic, Finish, drainVars, stopVars
  <2>4. CASE WorkerTake
    <3>1. Head(jobs) \in Items
      BY <2>4, TailFacts DEF WorkerTake, TypeOK
    <3>2. SingleShutdown'
      BY <2>4 DEF WorkerTake, Blocked, Control, SingleShutdown, Goto, stopVars
    <3>3. \A s \in Shutdowns : pc'[s] \in Providers => exited
      BY <2>4 DEF WorkerTake, Blocked, Control, Goto, Providers
    <3>4. ~shutdown => \A s \in Shutdowns : pc'[s] = "idle"
      BY <2>4 DEF WorkerTake, Blocked, Control, Goto
    <3>5. \A f \in Flushes : pc'[f] \notin {"close", "join"}
      BY <2>4 DEF WorkerTake, Blocked, Control, Goto
    <3>6. ~exited /\ running' = {Head(jobs)} /\ UNCHANGED <<exited, stopped, shutdown, down>>
      BY <2>4 DEF WorkerTake, stopVars
    <3>. QED
      BY <3>1, <3>2, <3>3, <3>4, <3>5, <3>6 DEF Control
  <2>5. CASE WorkerStop
    <3>1. /\ stopped /\ running = {} /\ exited' = TRUE
          /\ UNCHANGED <<pc, shutdown, stopped, running, down>>
      BY <2>5 DEF WorkerStop, stopVars
    <3>. QED
      BY <3>1 DEF Control, SingleShutdown
  <2>6. ASSUME NEW d \in Drainers, RunSentinel(d) PROVE Control'
    BY <2>6, <2>b DEF RunSentinel, drainVars, stopVars
  <2>7. ASSUME NEW d \in Drainers, DrainSend(d) PROVE Control'
    BY <2>7, <2>c DEF DrainSend, workerVars, stopVars
  <2>8. ASSUME NEW d \in Drainers, DrainBlock(d) PROVE Control'
    BY <2>8, <2>c DEF DrainBlock, workerVars, stopVars
  <2>9. ASSUME NEW d \in Drainers, DrainGiveUp(d) PROVE Control'
    BY <2>9, <2>c DEF DrainGiveUp, workerVars, stopVars
  <2>10. ASSUME NEW d \in Drainers, DrainDone(d) PROVE Control'
    BY <2>10, <2>c DEF DrainDone, AfterDrain, workerVars, stopVars
  <2>11. ASSUME NEW d \in Drainers, Export(d) PROVE Control'
    <3>1. /\ pc[d] \in Providers
          /\ pc' = [pc EXCEPT ![d] = AfterExport(pc[d])]
          /\ AfterExport(pc[d]) \in {"mp", "lp", "returned"}
          /\ down' = IF d \in Shutdowns THEN down \cup {pc[d]} ELSE down
          /\ UNCHANGED <<shutdown, stopped, exited, running>>
      BY <2>11 DEF Export, AfterExport, Goto, Providers, workerVars
    <3>2. SingleShutdown'
      BY <3>1 DEF Control, SingleShutdown, Providers
    <3>3. \A s \in Shutdowns : pc'[s] \in Providers => exited
      BY <3>1 DEF Control, Providers
    <3>4. down' # {} => exited
      BY <3>1 DEF Control
    <3>5. ~shutdown => \A s \in Shutdowns : pc'[s] = "idle"
      BY <3>1 DEF Control, Providers
    <3>. QED
      BY <3>1, <3>2, <3>3, <3>4, <3>5 DEF Control
  <2>12. ASSUME NEW d \in Drainers, CtxExpire(d) PROVE Control'
    BY <2>12, <2>a DEF CtxExpire, workerVars, stopVars
  <2>13. ASSUME NEW f \in Flushes, FlushEnter(f) PROVE Control'
    <3>1. /\ pc[f] = "idle"
          /\ \/ pc' = [pc EXCEPT ![f] = "returned"]
             \/ pc' = [pc EXCEPT ![f] = "drain"]
          /\ UNCHANGED <<shutdown, stopped, exited, running, down>>
      BY <2>13 DEF FlushEnter, Goto, workerVars, stopVars
    <3>2. \A s \in Shutdowns : pc'[s] = pc[s]
      BY <3>1
    <3>. QED
      BY <3>1, <3>2 DEF Control, SingleShutdown
  <2>14. ASSUME NEW s \in Shutdowns, ShutdownEnter(s) PROVE Control'
    <3>1. CASE shutdown
      <4>1. /\ pc[s] = "idle" /\ pc' = [pc EXCEPT ![s] = "returned"]
            /\ UNCHANGED <<shutdown, stopped, exited, running, down>>
        BY <2>14, <3>1 DEF ShutdownEnter, Goto, workerVars, stopVars
      <4>2. SingleShutdown'
        BY <4>1 DEF Control, SingleShutdown
      <4>. QED
        BY <3>1, <4>1, <4>2 DEF Control, Providers
    <3>2. CASE ~shutdown
      <4>1. /\ pc[s] = "idle" /\ pc' = [pc EXCEPT ![s] = "drain"]
            /\ UNCHANGED <<stopped, exited, running, down>>
        BY <2>14, <3>2 DEF ShutdownEnter, Goto, workerVars
      <4>2. shutdown'
        BY <2>14, <3>2 DEF ShutdownEnter
      <4>3. ~stopped /\ ~exited /\ \A t \in Shutdowns \ {s} : pc'[t] = "idle"
        BY <3>2, <4>1 DEF Control
      <4>4. SingleShutdown'
        BY <4>1, <4>3 DEF SingleShutdown
      <4>. QED
        BY <4>1, <4>2, <4>3, <4>4 DEF Control, Providers
    <3>. QED
      BY <3>1, <3>2
  <2>15. ASSUME NEW s \in Shutdowns, CloseStop(s) PROVE Control'
    <3>1. /\ pc[s] = "close" /\ pc' = [pc EXCEPT ![s] = "join"]
          /\ UNCHANGED <<shutdown, exited, running, down>>
      BY <2>15 DEF CloseStop, Goto, workerVars
    <3>2. stopped' /\ shutdown
      BY <2>15, <3>1 DEF CloseStop, Control
    <3>3. \A t \in Shutdowns \ {s} : pc'[t] \in {"idle", "returned"}
      BY <3>1 DEF Control, SingleShutdown
    <3>4. SingleShutdown'
      BY <3>1, <3>3 DEF SingleShutdown
    <3>. QED
      BY <3>1, <3>2, <3>3, <3>4 DEF Control, Providers
  <2>16. ASSUME NEW s \in Shutdowns, Join(s) PROVE Control'
    <3>1. /\ pc[s] = "join" /\ pc' = [pc EXCEPT ![s] = "tp"] /\ exited
          /\ UNCHANGED <<shutdown, stopped, exited, running, down>>
      BY <2>16 DEF Join, Goto, workerVars, stopVars
    <3>2. SingleShutdown'
      BY <3>1 DEF Control, SingleShutdown
    <3>. QED
      BY <3>1, <3>2 DEF Control, Providers
  <2>17. CASE UNCHANGED vars
    BY <2>17, <2>a DEF vars, workerVars, stopVars
  <2>. QED
    BY <2>1, <2>2, <2>3, <2>4, <2>5, <2>6, <2>7, <2>8, <2>9, <2>10, <2>11, <2>12,
       <2>13, <2>14, <2>15, <2>16, <2>17
    DEF Next, Drain, Worker, Terminated
<1>. QED
  BY <1>1, <1>2, TypeCorrect, PTL DEF Spec

\* A provider is shut down only after the worker has left, and the worker
\* leaves with no job in hand.
THEOREM JobsNeverMeetDeadProviders == Spec => []NoJobOnDeadProvider
<1>1. Control => NoJobOnDeadProvider
  BY DEF Control, NoJobOnDeadProvider
<1>. QED
  BY <1>1, ControlCorrect, PTL

\* At most one Shutdown call does the work and stopCh is closed once.
THEOREM ShutdownIsSingle == Spec => []SingleShutdown
<1>1. Control => SingleShutdown
  BY DEF Control
<1>. QED
  BY <1>1, ControlCorrect, PTL
-----------------------------------------------------------------------------
(* The order of the queue, of a channel holding q while run is executing.  *)
(* Tickets say in which order records were sent: the finished ones are     *)
(* 1..finished, the next is with the worker, and the channel holds the     *)
(* rest in order; in front of a sentinel is all that its call waits for.   *)

Carried(n, q, k, run) ==
    \/ \E r \in run \cap Records : ticket[r] = n
    \/ \E i \in 1..k : q[i] \in Records /\ ticket[q[i]] = n

\* A record in the channel is an accepted one that has not been executed.
Waiting(q) ==
    \A i \in 1..Len(q) : q[i] \in Records =>
        call[q[i]] = "sent" /\ ticket[q[i]] \in (finished + 1)..sent

Sorted(q) ==
    \A i, j \in 1..Len(q) :
        i < j /\ q[i] \in Records /\ q[j] \in Records => ticket[q[i]] < ticket[q[j]]

\* The record being executed is the next in order, ahead of the channel.
RunningFirst(q, run) ==
    \A r \in run \cap Records :
        /\ call[r] = "sent" /\ ticket[r] = finished + 1 /\ finished + 1 <= sent
        /\ \A i \in 1..Len(q) : q[i] \in Records => finished + 1 < ticket[q[i]]

Complete(q, run) == \A n \in (finished + 1)..sent : Carried(n, q, Len(q), run)

SentinelBehind(q, run) ==
    \A i \in 1..Len(q) : q[i] \in Drainers =>
        /\ pc[q[i]] # "idle"
        /\ \A n \in (finished + 1)..before[q[i]] : Carried(n, q, i - 1, run)

SentinelCovers(run) ==
    \A d \in (run \cap Drainers) \cup done : pc[d] # "idle" /\ before[d] <= finished

NotLost(q, run) ==
    \A r \in Records : call[r] = "sent" => r \in run \/ \E i \in 1..Len(q) : q[i] = r

OrderOf(q, run) ==
    /\ Waiting(q) /\ Sorted(q) /\ RunningFirst(q, run) /\ Complete(q, run)
    /\ SentinelBehind(q, run) /\ SentinelCovers(run) /\ NotLost(q, run)

Order ==
    /\ OrderOf(jobs, running)
    /\ finished <= sent
    /\ \A d \in Drainers : before[d] <= sent
    /\ drained \subseteq done

\* A send at the end of the channel leaves what was carried carried.
LEMMA CarriedAppend ==
    ASSUME NEW S, NEW q \in Seq(S), NEW x \in S, NEW n, NEW run,
           NEW k \in 0..Len(q), Carried(n, q, k, run)
    PROVE  \A m \in k..(Len(q) + 1) : Carried(n, Append(q, x), m, run)
<1>1. Len(q) \in Nat /\ \A i \in 1..Len(q) : Append(q, x)[i] = q[i]
  BY AppendFacts, LenProperties
<1>2. CASE \E r \in run \cap Records : ticket[r] = n
  BY <1>2 DEF Carried
<1>3. CASE \E i \in 1..k : q[i] \in Records /\ ticket[q[i]] = n
  <2>1. PICK i \in 1..k : q[i] \in Records /\ ticket[q[i]] = n
    BY <1>3
  <2>2. i \in 1..Len(q) /\ Append(q, x)[i] = q[i]
    BY <1>1, <2>1
  <2>. QED
    BY <2>1, <2>2, <1>1 DEF Carried
<1>. QED
  BY <1>2, <1>3 DEF Carried

\* Queueing a sentinel keeps the order: all it waits for is in front of it.
LEMMA PushSentinel ==
    ASSUME TypeOK, NEW q \in Seq(Items), NEW run, OrderOf(q, run),
           NEW d \in Drainers, pc[d] # "idle", before[d] <= sent
    PROVE  OrderOf(Append(q, d), run)
<1>. DEFINE q2 == Append(q, d)
<1>. d \in Items /\ d \notin Records
  BY CallsAssumption DEF Drainers, Items
<1>1. /\ Len(q) \in Nat /\ Len(q2) = Len(q) + 1
      /\ \A i \in 1..Len(q) : q2[i] = q[i]
      /\ q2[Len(q) + 1] = d
  BY AppendFacts, LenProperties
<1>. HIDE DEF q2
<1>2. \A i \in 1..Len(q2) : (i \in 1..Len(q) /\ q2[i] = q[i]) \/ (i = Len(q) + 1 /\ q2[i] = d)
  BY <1>1
<1>3. Waiting(q2)
  BY <1>2 DEF OrderOf, Waiting
<1>4. Sorted(q2)
  BY <1>2 DEF OrderOf, Sorted
<1>5. RunningFirst(q2, run)
  BY <1>2 DEF OrderOf, RunningFirst
<1>6. \A n, k : k \in 0..Len(q) /\ Carried(n, q, k, run) =>
          \A m \in k..(Len(q) + 1) : Carried(n, q2, m, run)
  BY CarriedAppend DEF q2
<1>7. Complete(q2, run)
  BY <1>1, <1>6 DEF OrderOf, Complete
<1>8. SentinelBehind(q2, run)
  <2>. SUFFICES ASSUME NEW i \in 1..Len(q2), q2[i] \in Drainers
                PROVE  /\ pc[q2[i]] # "idle"
                       /\ \A n \in (finished + 1)..before[q2[i]] : Carried(n, q2, i - 1, run)
    BY DEF SentinelBehind
  <2>1. CASE i \in 1..Len(q) /\ q2[i] = q[i]
    <3>1. /\ pc[q[i]] # "idle"
          /\ \A n \in (finished + 1)..before[q[i]] : Carried(n, q, i - 1, run)
      BY <2>1 DEF OrderOf, SentinelBehind
    <3>2. i - 1 \in 0..Len(q) /\ i - 1 \in (i - 1)..(Len(q) + 1)
      BY <2>1, <1>1
    <3>. QED
      BY <3>1, <3>2, <2>1, <1>6
  <2>2. CASE i = Len(q) + 1 /\ q2[i] = d
    <3>1. \A n \in (finished + 1)..before[d] : n \in (finished + 1)..sent
      BY DEF TypeOK
    <3>2. \A n \in (finished + 1)..before[d] : Carried(n, q, Len(q), run)
      BY <3>1 DEF OrderOf, Complete
    <3>3. Len(q) \in 0..Len(q) /\ i - 1 = Len(q) /\ Len(q) \in Len(q)..(Len(q) + 1)
      BY <2>2, <1>1
    <3>. QED
      BY <2>2, <3>2, <3>3, <1>6
  <2>. QED
    BY <2>1, <2>2, <1>2
<1>9. NotLost(q2, run)
  BY <1>1 DEF OrderOf, NotLost
<1>. QED
  BY <1>3, <1>4, <1>5, <1>7, <1>8, <1>9 DEF OrderOf, q2

\* Receiving the oldest item keeps the order: a record is the next one, and a
\* sentinel has nothing left in front of it.
LEMMA TakeOldest ==
    ASSUME TypeOK, finished <= sent, NEW q \in Seq(Items), q # <<>>, OrderOf(q, {})
    PROVE  OrderOf(Tail(q), {Head(q)})
<1>. DEFINE t == Tail(q)
            h == Head(q)
<1>1. /\ Len(q) \in Nat \ {0} /\ h = q[1] /\ h \in Items
      /\ Len(t) = Len(q) - 1 /\ \A i \in 1..(Len(q) - 1) : t[i] = q[i + 1]
  BY TailFacts
<1>. HIDE DEF t, h
<1>2. \A i \in 1..Len(t) : i + 1 \in 1..Len(q) /\ t[i] = q[i + 1]
  BY <1>1
<1>3. \A j \in 1..Len(q) : (j = 1 /\ q[j] = h) \/ (j - 1 \in 1..Len(t) /\ t[j - 1] = q[j])
  BY <1>1
<1>. 1 \in 1..Len(q) /\ finished \in Nat /\ sent \in Nat /\ ticket \in [Records -> Nat]
     /\ before \in [Drainers -> Nat]
  BY <1>1 DEF TypeOK
<1>4. Waiting(t)
  BY <1>2 DEF OrderOf, Waiting
<1>5. Sorted(t)
  <2>. SUFFICES ASSUME NEW i \in 1..Len(t), NEW j \in 1..Len(t), i < j,
                       t[i] \in Records, t[j] \in Records
                PROVE  ticket[t[i]] < ticket[t[j]]
    BY DEF Sorted
  <2>1. i + 1 \in 1..Len(q) /\ j + 1 \in 1..Len(q) /\ i + 1 < j + 1
    BY <1>1, <1>2
  <2>. QED
    BY <1>2, <2>1 DEF OrderOf, Sorted
<1>6. ASSUME NEW n, NEW k \in 0..Len(q), Carried(n, q, k, {})
      PROVE  \A m \in (k - 1)..Len(t) : Carried(n, t, m, {h})
  <2>1. PICK j \in 1..k : q[j] \in Records /\ ticket[q[j]] = n
    BY <1>6 DEF Carried
  <2>2. j \in 1..Len(q)
    BY <2>1, <1>1
  <2>3. CASE j = 1
    BY <2>1, <2>3, <1>1 DEF Carried
  <2>4. CASE j - 1 \in 1..Len(t) /\ t[j - 1] = q[j]
    <3>. SUFFICES ASSUME NEW m \in (k - 1)..Len(t) PROVE Carried(n, t, m, {h})
      OBVIOUS
    <3>1. j - 1 \in 1..m
      BY <2>1, <2>4, <1>1
    <3>. QED
      BY <2>1, <2>4, <3>1 DEF Carried
  <2>. QED
    BY <2>2, <2>3, <2>4, <1>3
<1>7. RunningFirst(t, {h})
  <2>. SUFFICES ASSUME h \in Records
                PROVE  /\ call[h] = "sent" /\ ticket[h] = finished + 1 /\ finished + 1 <= sent
                       /\ \A i \in 1..Len(t) : t[i] \in Records => finished + 1 < ticket[t[i]]
    BY DEF RunningFirst
  <2>1. call[h] = "sent" /\ ticket[h] \in (finished + 1)..sent
    BY <1>1 DEF OrderOf, Waiting
  <2>2. \A i \in 1..Len(t) : t[i] \in Records => ticket[h] < ticket[t[i]]
    BY <1>1, <1>2 DEF OrderOf, Sorted
  <2>3. finished + 1 \in (finished + 1)..sent
    BY <2>1
  <2>4. PICK j \in 1..Len(q) : q[j] \in Records /\ ticket[q[j]] = finished + 1
    BY <2>3 DEF OrderOf, Complete, Carried
  <2>5. finished \in Int /\ ticket[h] \in Int /\ finished + 1 <= ticket[h]
    BY <2>1 DEF TypeOK
  <2>6. ASSUME j - 1 \in 1..Len(t), t[j - 1] = q[j]
        PROVE  FALSE
    <3>1. ticket[h] < ticket[t[j - 1]]
      BY <2>2, <2>4, <2>6
    <3>2. ticket[h] < finished + 1
      BY <3>1, <2>4, <2>6
    <3>. QED
      BY <3>2, <2>5
  <2>7. q[j] = h
    BY <2>6, <1>3, <2>4
  <2>8. ticket[h] = finished + 1
    BY <2>4, <2>7
  <2>. QED
    BY <2>1, <2>2, <2>8
<1>8. Complete(t, {h})
  <2>1. Len(q) \in 0..Len(q) /\ Len(t) \in (Len(q) - 1)..Len(t)
    BY <1>1
  <2>. QED
    BY <1>6, <2>1 DEF OrderOf, Complete
<1>9. SentinelBehind(t, {h})
  <2>. SUFFICES ASSUME NEW i \in 1..Len(t), t[i] \in Drainers
                PROVE  /\ pc[t[i]] # "idle"
                       /\ \A n \in (finished + 1)..before[t[i]] : Carried(n, t, i - 1, {h})
    BY DEF SentinelBehind
  <2>1. /\ pc[t[i]] # "idle"
        /\ \A n \in (finished + 1)..before[t[i]] : Carried(n, q, i, {})
    BY <1>2 DEF OrderOf, SentinelBehind
  <2>2. i \in 0..Len(q) /\ i - 1 \in (i - 1)..Len(t)
    BY <1>1
  <2>. QED
    BY <2>1, <2>2, <1>6
<1>10. SentinelCovers({h})
  <2>1. ASSUME h \in Drainers PROVE pc[h] # "idle" /\ before[h] <= finished
    <3>1. /\ pc[h] # "idle"
          /\ \A n \in (finished + 1)..before[h] : Carried(n, q, 0, {})
      BY <1>1, <2>1 DEF OrderOf, SentinelBehind
    <3>2. \A n : ~Carried(n, q, 0, {})
      BY DEF Carried
    <3>3. before[h] \in Nat /\ (before[h] > finished => before[h] \in (finished + 1)..before[h])
      BY <2>1
    <3>. QED
      BY <3>1, <3>2, <3>3
  <2>. QED
    BY <2>1 DEF OrderOf, SentinelCovers
<1>11. NotLost(t, {h})
  BY <1>3 DEF OrderOf, NotLost
<1>. QED
  BY <1>4, <1>5, <1>7, <1>8, <1>9, <1>10, <1>11 DEF OrderOf, t, h

\* A step that touches neither the channel nor the worker keeps the order.
LEMMA OrderFrame ==
    ASSUME TypeOK, Order,
           UNCHANGED <<jobs, running, done, finished, sent, ticket>>,
           \A r \in Records : call'[r] = "sent" <=> call[r] = "sent",
           \A d \in Drainers : pc[d] # "idle" => pc'[d] # "idle" /\ before'[d] = before[d],
           \A d \in Drainers : before'[d] <= sent,
           drained' \subseteq done
    PROVE  Order'
<1>1. \A n, k : Carried(n, jobs, k, running) => Carried(n, jobs, k, running)'
  BY DEF Carried
<1>2. Waiting(jobs)' /\ Sorted(jobs)' /\ RunningFirst(jobs, running)'
  BY DEF Order, OrderOf, Waiting, Sorted, RunningFirst
<1>3. Complete(jobs, running)'
  BY <1>1 DEF Order, OrderOf, Complete
<1>4. SentinelBehind(jobs, running)'
  BY <1>1 DEF Order, OrderOf, SentinelBehind
<1>5. SentinelCovers(running)'
  BY DEF Order, OrderOf, SentinelCovers, TypeOK
<1>6. NotLost(jobs, running)'
  BY DEF Order, OrderOf, NotLost
<1>. QED
  BY <1>2, <1>3, <1>4, <1>5, <1>6 DEF Order, OrderOf

\* A send gives the record the last place of the order.
LEMMA OrderSend ==
    ASSUME TypeOK, Order, NEW r \in Records, Send(r) PROVE Order'
<1>. r \in Items /\ jobs \in Seq(Items) /\ Len(jobs) \in Nat /\ sent \in Nat /\ finished \in Nat
     /\ ticket \in [Records -> Nat] /\ before \in [Drainers -> Nat]
  BY LenProperties DEF TypeOK, Items
<1>. r \notin Drainers
  BY CallsAssumption DEF Drainers
<1>1. /\ call[r] = "checked" /\ call' = [call EXCEPT ![r] = "sent"]
      /\ sent' = sent + 1 /\ ticket' = [ticket EXCEPT ![r] = sent + 1]
      /\ jobs' = Append(jobs, r)
      /\ UNCHANGED <<running, finished, done, pc, before, drained>>
  BY DEF Send, workerVars, drainVars
<1>2. /\ Len(jobs') = Len(jobs) + 1 /\ jobs'[Len(jobs) + 1] = r
      /\ \A i \in 1..Len(jobs) : jobs'[i] = jobs[i]
  BY <1>1, AppendFacts
<1>3. \A i \in 1..Len(jobs') :
          (i \in 1..Len(jobs) /\ jobs'[i] = jobs[i]) \/ (i = Len(jobs) + 1 /\ jobs'[i] = r)
  BY <1>2
<1>4. \A q \in Records : call[q] = "sent" => q # r /\ ticket'[q] = ticket[q] /\ call'[q] = "sent"
  BY <1>1 DEF TypeOK
<1>5. ticket'[r] = sent + 1 /\ call'[r] = "sent"
  BY <1>1 DEF TypeOK
<1>6. \A i \in 1..Len(jobs) : jobs[i] \in Records =>
          /\ jobs[i] # r /\ ticket'[jobs[i]] = ticket[jobs[i]] /\ call'[jobs[i]] = "sent"
          /\ ticket[jobs[i]] \in (finished + 1)..sent
  BY <1>4 DEF Order, OrderOf, Waiting
<1>7. \A q \in running \cap Records :
          q # r /\ ticket'[q] = ticket[q] /\ call'[q] = "sent" /\ ticket[q] = finished + 1
  BY <1>4 DEF Order, OrderOf, RunningFirst
<1>8. ASSUME NEW n, NEW k \in 0..Len(jobs), Carried(n, jobs, k, running)
      PROVE  \A m \in k..Len(jobs') : Carried(n, jobs, m, running)'
  <2>1. CASE \E q \in running \cap Records : ticket[q] = n
    BY <2>1, <1>1, <1>7 DEF Carried
  <2>2. CASE \E i \in 1..k : jobs[i] \in Records /\ ticket[jobs[i]] = n
    <3>1. PICK i \in 1..k : jobs[i] \in Records /\ ticket[jobs[i]] = n
      BY <2>2
    <3>2. jobs'[i] = jobs[i] /\ ticket'[jobs[i]] = n /\ \A m \in k..Len(jobs') : i \in 1..m
      BY <3>1, <1>2, <1>6
    <3>. QED
      BY <3>1, <3>2 DEF Carried
  <2>. QED
    BY <1>8, <2>1, <2>2 DEF Carried
<1>9. Waiting(jobs)'
  BY <1>1, <1>3, <1>5, <1>6 DEF Waiting, Order
<1>10. Sorted(jobs)'
  BY <1>1, <1>3, <1>5, <1>6 DEF Sorted, Order, OrderOf
<1>11. RunningFirst(jobs, running)'
  BY <1>1, <1>3, <1>5, <1>6, <1>7 DEF RunningFirst, Order, OrderOf
<1>12. Complete(jobs, running)'
  <2>. SUFFICES ASSUME NEW n \in (finished + 1)..(sent + 1)
                PROVE  Carried(n, jobs, Len(jobs), running)'
    BY <1>1 DEF Complete
  <2>1. CASE n \in (finished + 1)..sent
    <3>1. Carried(n, jobs, Len(jobs), running)
      BY <2>1 DEF Order, OrderOf, Complete
    <3>. QED
      BY <3>1, <1>2, <1>8
  <2>2. CASE n = sent + 1
    <3>1. Len(jobs) + 1 \in 1..Len(jobs')
      BY <1>2
    <3>. QED
      BY <2>2, <3>1, <1>2, <1>5 DEF Carried
  <2>. QED
    BY <2>1, <2>2
<1>13. SentinelBehind(jobs, running)'
  <2>. SUFFICES ASSUME NEW i \in 1..Len(jobs'), jobs'[i] \in Drainers
                PROVE  /\ pc'[jobs'[i]] # "idle"
                       /\ \A n \in (finished' + 1)..before'[jobs'[i]] :
                              Carried(n, jobs, i - 1, running)'
    BY DEF SentinelBehind
  <2>1. i \in 1..Len(jobs) /\ jobs'[i] = jobs[i]
    BY <1>3
  <2>2. /\ pc[jobs[i]] # "idle"
        /\ \A n \in (finished + 1)..before[jobs[i]] : Carried(n, jobs, i - 1, running)
    BY <2>1 DEF Order, OrderOf, SentinelBehind
  <2>3. i - 1 \in 0..Len(jobs) /\ i - 1 \in (i - 1)..Len(jobs')
    BY <2>1, <1>2
  <2>. QED
    BY <2>1, <2>2, <2>3, <1>1, <1>8
<1>14. SentinelCovers(running)'
  BY <1>1 DEF SentinelCovers, Order, OrderOf
<1>15. NotLost(jobs, running)'
  BY <1>1, <1>2 DEF NotLost, Order, OrderOf, TypeOK
<1>16. finished' <= sent' /\ (\A d \in Drainers : before'[d] <= sent') /\ drained' \subseteq done'
  BY <1>1 DEF Order
<1>. QED
  BY <1>9, <1>10, <1>11, <1>12, <1>13, <1>14, <1>15, <1>16 DEF Order, OrderOf

\* When the running record ends, the order moves on by one.
LEMMA OrderFinish ==
    ASSUME TypeOK, Control, Order, NEW r \in Records, Finish(r) PROVE Order'
<1>. jobs \in Seq(Items) /\ Len(jobs) \in Nat /\ sent \in Nat /\ finished \in Nat
     /\ ticket \in [Records -> Nat] /\ before \in [Drainers -> Nat]
  BY LenProperties DEF TypeOK
<1>1. /\ running = {r} /\ running' = {} /\ call' = [call EXCEPT ![r] = "ran"]
      /\ finished' = finished + 1
      /\ UNCHANGED <<jobs, pc, ticket, sent, done, before, drained>>
  BY DEF Finish, Control, drainVars
<1>2. /\ ticket[r] = finished + 1 /\ finished + 1 <= sent
      /\ \A i \in 1..Len(jobs) : jobs[i] \in Records => finished + 1 < ticket[jobs[i]]
  BY <1>1 DEF Order, OrderOf, RunningFirst
<1>3. \A i \in 1..Len(jobs) : jobs[i] \in Records =>
          /\ call'[jobs[i]] = "sent" /\ ticket[jobs[i]] \in (finished + 2)..sent
  BY <1>1, <1>2 DEF Order, OrderOf, Waiting, TypeOK
<1>4. Waiting(jobs)' /\ Sorted(jobs)'
  BY <1>1, <1>3 DEF Order, OrderOf, Waiting, Sorted
<1>5. RunningFirst(jobs, running)'
  BY <1>1 DEF RunningFirst
<1>6. \A n, k : n # finished + 1 /\ Carried(n, jobs, k, running) => Carried(n, jobs, k, running)'
  BY <1>1, <1>2 DEF Carried
<1>7. Complete(jobs, running)'
  <2>1. \A n \in (finished' + 1)..sent' : n # finished + 1 /\ n \in (finished + 1)..sent
    BY <1>1
  <2>. QED
    BY <1>1, <1>6, <2>1 DEF Order, OrderOf, Complete
<1>8. SentinelBehind(jobs, running)'
  <2>. SUFFICES ASSUME NEW i \in 1..Len(jobs), jobs[i] \in Drainers
                PROVE  /\ pc'[jobs[i]] # "idle"
                       /\ \A n \in (finished' + 1)..before'[jobs[i]] :
                              Carried(n, jobs, i - 1, running)'
    BY <1>1 DEF SentinelBehind
  <2>1. /\ pc[jobs[i]] # "idle"
        /\ \A n \in (finished + 1)..before[jobs[i]] : Carried(n, jobs, i - 1, running)
    BY DEF Order, OrderOf, SentinelBehind
  <2>2. \A n \in (finished' + 1)..before'[jobs[i]] :
            n # finished + 1 /\ n \in (finished + 1)..before[jobs[i]]
    BY <1>1
  <2>. QED
    BY <2>1, <2>2, <1>1, <1>6
<1>9. SentinelCovers(running)'
  BY <1>1 DEF Order, OrderOf, SentinelCovers, TypeOK
<1>10. NotLost(jobs, running)'
  BY <1>1 DEF Order, OrderOf, NotLost, TypeOK
<1>. QED
  BY <1>1, <1>2, <1>4, <1>5, <1>7, <1>8, <1>9, <1>10 DEF Order, OrderOf

\* A sentinel that has been executed covers what its call waits for.
LEMMA OrderSentinel ==
    ASSUME TypeOK, Control, Order, NEW d \in Drainers, RunSentinel(d) PROVE Order'
<1>1. /\ running = {d} /\ running' = {} /\ done' = done \cup {d} /\ d \notin Records
      /\ UNCHANGED <<jobs, pc, call, ticket, sent, finished, before, drained>>
  BY CallsAssumption DEF RunSentinel, Control, recordVars, drainVars, Drainers
<1>2. \A n, k : Carried(n, jobs, k, running) => Carried(n, jobs, k, running)'
  BY <1>1 DEF Carried
<1>3. Waiting(jobs)' /\ Sorted(jobs)' /\ RunningFirst(jobs, running)'
  BY <1>1 DEF Order, OrderOf, Waiting, Sorted, RunningFirst
<1>4. Complete(jobs, running)' /\ SentinelBehind(jobs, running)'
  BY <1>1, <1>2 DEF Order, OrderOf, Complete, SentinelBehind
<1>5. SentinelCovers(running)'
  BY <1>1 DEF Order, OrderOf, SentinelCovers
<1>6. NotLost(jobs, running)'
  BY <1>1 DEF Order, OrderOf, NotLost
<1>. QED
  BY <1>1, <1>3, <1>4, <1>5, <1>6 DEF Order, OrderOf

\* The order that a step has given to the channel and the worker is the order
\* of the next state when the step changes nothing else it depends on.
LEMMA OrderCarriesOver ==
    ASSUME TypeOK, OrderOf(jobs', running'),
           UNCHANGED <<call, ticket, sent, finished, done, before>>,
           \A d \in Drainers : pc[d] # "idle" => pc'[d] # "idle"
    PROVE  OrderOf(jobs, running)'
<1>1. \A n, k : Carried(n, jobs', k, running') => Carried(n, jobs, k, running)'
  BY DEF Carried
<1>2. Waiting(jobs)'
  BY DEF OrderOf, Waiting
<1>3. Sorted(jobs)'
  BY DEF OrderOf, Sorted
<1>4. RunningFirst(jobs, running)'
  BY DEF OrderOf, RunningFirst
<1>5. Complete(jobs, running)'
  BY <1>1 DEF OrderOf, Complete
<1>6. SentinelBehind(jobs, running)'
  BY <1>1 DEF OrderOf, SentinelBehind
<1>7. SentinelCovers(running)' /\ NotLost(jobs, running)'
  BY DEF OrderOf, SentinelCovers, NotLost, TypeOK
<1>. QED
  BY <1>2, <1>3, <1>4, <1>5, <1>6, <1>7 DEF OrderOf

\* The order of the queue holds in every reachable state.
THEOREM OrderCorrect == Spec => []Order
<1>1. Init => Order
  <2>. SUFFICES ASSUME Init PROVE Order
    OBVIOUS
  <2>1. jobs = <<>> /\ Len(jobs) = 0 /\ running = {} /\ done = {} /\ drained = {}
        /\ finished = 0 /\ sent = 0 /\ \A r \in Records : call[r] = "idle"
    BY EmptySeq DEF Init
  <2>2. \A d \in Drainers : before[d] = 0
    BY DEF Init
  <2>3. Waiting(jobs) /\ Sorted(jobs) /\ RunningFirst(jobs, running)
    BY <2>1 DEF Waiting, Sorted, RunningFirst
  <2>4. Complete(jobs, running) /\ SentinelBehind(jobs, running)
    BY <2>1 DEF Complete, SentinelBehind
  <2>5. SentinelCovers(running) /\ NotLost(jobs, running)
    BY <2>1 DEF SentinelCovers, NotLost
  <2>. QED
    BY <2>1, <2>2, <2>3, <2>4, <2>5 DEF Order, OrderOf
<1>2. TypeOK /\ Control /\ Order /\ [Next]_vars => Order'
  <2>. SUFFICES ASSUME TypeOK, Control, Order, [Next]_vars PROVE Order'
    OBVIOUS
  <2>. /\ pc \in [Drainers -> {"idle", "drain", "blocked", "wait", "close", "join",
                               "tp", "mp", "lp", "returned"}]
       /\ call \in [Records -> {"idle", "checked", "ignored", "sent", "dropped", "ran"}]
       /\ before \in [Drainers -> Nat] /\ sent \in Nat
       /\ \A d \in Drainers : before[d] <= sent
       /\ drained \subseteq done
    BY DEF TypeOK, Order
  <2>1. ASSUME NEW r \in Records, DispatchCheck(r) PROVE Order'
    BY <2>1, OrderFrame DEF DispatchCheck, workerVars, drainVars
  <2>2. ASSUME NEW r \in Records, Send(r) PROVE Order'
    BY <2>2, OrderSend
  <2>3. ASSUME NEW r \in Records, Overflow(r) PROVE Order'
    BY <2>3, OrderFrame DEF Overflow, workerVars, drainVars
  <2>4. ASSUME NEW r \in Records, JobReturn(r) \/ JobPanic(r) PROVE Order'
    BY <2>4, OrderFinish DEF JobReturn, JobPanic
  <2>5. CASE WorkerTake
    <3>1. running = {} /\ jobs # <<>> /\ jobs \in Seq(Items) /\ OrderOf(jobs, running)
      BY <2>5 DEF WorkerTake, TypeOK, Order
    <3>2. OrderOf(Tail(jobs), {Head(jobs)})
      BY <3>1, TakeOldest DEF Order
    <3>3. OrderOf(jobs', running')
      <4>1. running' = {Head(jobs)}
        BY <2>5 DEF WorkerTake
      <4>2. CASE jobs' = Tail(jobs)
        BY <3>2, <4>1, <4>2
      <4>3. ASSUME NEW d \in Drainers, pc[d] = "blocked", jobs' = Append(Tail(jobs), d)
            PROVE  OrderOf(jobs', running')
        <5>1. Tail(jobs) \in Seq(Items)
          BY <3>1, TailFacts
        <5>. QED
          BY <5>1, <3>2, <4>1, <4>3, PushSentinel DEF Order
      <4>. QED
        BY <4>2, <4>3, <2>5 DEF WorkerTake, Blocked
    <3>4. UNCHANGED <<call, ticket, sent, finished, done, before, drained>>
      BY <2>5 DEF WorkerTake, recordVars, drainVars
    <3>5. \A d \in Drainers : pc[d] # "idle" => pc'[d] # "idle"
      BY <2>5 DEF WorkerTake, Blocked, Goto
    <3>. QED
      BY <3>3, <3>4, <3>5, OrderCarriesOver DEF Order
  <2>6. CASE WorkerStop
    BY <2>6, OrderFrame DEF WorkerStop, recordVars, drainVars
  <2>7. ASSUME NEW d \in Drainers, RunSentinel(d) PROVE Order'
    BY <2>7, OrderSentinel
  <2>8. ASSUME NEW d \in Drainers, DrainSend(d) PROVE Order'
    <3>1. /\ pc[d] = "drain" /\ jobs' = Append(jobs, d) /\ pc' = [pc EXCEPT ![d] = "wait"]
          /\ UNCHANGED <<running, call, ticket, sent, finished, done, before, drained>>
      BY <2>8 DEF DrainSend, Goto, recordVars, workerVars, drainVars
    <3>2. OrderOf(jobs', running)
      <4>1. jobs \in Seq(Items) /\ OrderOf(jobs, running)
        BY DEF TypeOK, Order
      <4>. QED
        BY <4>1, <3>1, PushSentinel
    <3>3. \A e \in Drainers : pc[e] # "idle" => pc'[e] # "idle"
      BY <3>1
    <3>4. OrderOf(jobs', running')
      BY <3>1, <3>2
    <3>. QED
      BY <3>1, <3>3, <3>4, OrderCarriesOver DEF Order
  <2>9. ASSUME NEW d \in Drainers, DrainBlock(d) PROVE Order'
    BY <2>9, OrderFrame DEF DrainBlock, Goto, recordVars, workerVars, drainVars
  <2>10. ASSUME NEW d \in Drainers, DrainGiveUp(d) PROVE Order'
    BY <2>10, OrderFrame DEF DrainGiveUp, Goto, recordVars, workerVars
  <2>11. ASSUME NEW d \in Drainers, DrainDone(d) PROVE Order'
    BY <2>11, OrderFrame DEF DrainDone, AfterDrain, Goto, recordVars, workerVars
  <2>12. ASSUME NEW d \in Drainers, Export(d) PROVE Order'
    <3>1. AfterExport(pc[d]) # "idle"
      BY <2>12 DEF Export, AfterExport, Providers
    <3>. QED
      BY <2>12, <3>1, OrderFrame DEF Export, Goto, recordVars, workerVars
  <2>13. ASSUME NEW d \in Drainers, CtxExpire(d) PROVE Order'
    BY <2>13, OrderFrame DEF CtxExpire, recordVars, workerVars
  <2>14. ASSUME NEW f \in Flushes, FlushEnter(f) PROVE Order'
    BY <2>14, OrderFrame DEF FlushEnter, Goto, recordVars, workerVars, Drainers
  <2>15. ASSUME NEW s \in Shutdowns, ShutdownEnter(s) PROVE Order'
    <3>1. /\ pc[s] = "idle" /\ s \in Drainers
          /\ \E at \in {"drain", "returned"} : pc' = [pc EXCEPT ![s] = at]
          /\ before' = before \/ before' = [before EXCEPT ![s] = sent]
          /\ UNCHANGED <<jobs, running, done, finished, sent, ticket, call, drained>>
      BY <2>15 DEF ShutdownEnter, Goto, recordVars, workerVars, Drainers
    <3>. QED
      BY <3>1, OrderFrame
  <2>16. ASSUME NEW s \in Shutdowns, CloseStop(s) \/ Join(s) PROVE Order'
    BY <2>16, OrderFrame DEF CloseStop, Join, Goto, recordVars, workerVars, drainVars, Drainers
  <2>17. CASE UNCHANGED vars
    BY <2>17, OrderFrame DEF vars, recordVars, workerVars, drainVars
  <2>. QED
    BY <2>1, <2>2, <2>3, <2>4, <2>5, <2>6, <2>7, <2>8, <2>9, <2>10, <2>11, <2>12,
       <2>13, <2>14, <2>15, <2>16, <2>17
    DEF Next, Dispatch, Drain, Worker, Terminated
<1>. QED
  BY <1>1, <1>2, TypeCorrect, ControlCorrect, PTL DEF Spec

\* A drain that returns nil has waited for all that was queued before it.
THEOREM DrainKeepsItsWord == Spec => []DrainCoversPrior
<1>1. Order => DrainCoversPrior
  BY DEF Order, OrderOf, SentinelCovers, DrainCoversPrior
<1>. QED
  BY <1>1, OrderCorrect, PTL

\* Records are executed one at a time, in the order of sending.
THEOREM ExecutedInOrder == Spec => []InOrder
<1>1. Control => Cardinality(running) <= 1
  <2>1. Cardinality({}) = 0 /\ \A x : Cardinality({x}) = 1
    BY FS_EmptySet, FS_Singleton
  <2>2. ASSUME Control PROVE Cardinality(running) = 0 \/ Cardinality(running) = 1
    <3>1. CASE running = {}
      BY <2>1, <3>1
    <3>2. CASE \E x \in Items : running = {x}
      BY <2>1, <3>2
    <3>. QED
      BY <2>2, <3>1, <3>2 DEF Control
  <2>. QED
    BY <2>2
<1>2. Order => \A r \in running \cap Records : ticket[r] = finished + 1
  BY DEF Order, OrderOf, RunningFirst
<1>3. Control /\ Order => InOrder
  BY <1>1, <1>2 DEF InOrder
<1>. QED
  BY <1>3, OrderCorrect, ControlCorrect, PTL
-----------------------------------------------------------------------------
(* What a shutdown can lose: after the compare-and-swap only the callers   *)
(* that had passed the check before it still enter the channel.            *)

Won(s) == AtWork(s) \/ s \in drained

Race ==
    \A s \in Shutdowns : Won(s) =>
        /\ shutdown
        /\ \A r \in Records : call[r] = "checked" => r \in racing
        /\ \A r \in Records : call[r] = "sent" /\ before[s] < ticket[r] => r \in racing

\* A step that starts no shutdown, sends nothing and lets nobody pass the check
\* keeps the race as it was.
LEMMA RaceFrame ==
    ASSUME Race,
           \A s \in Shutdowns : Won(s)' => Won(s),
           UNCHANGED <<shutdown, racing, ticket>>,
           \A r \in Records : call'[r] \in {"checked", "sent"} => call'[r] = call[r],
           \A s \in Shutdowns : Won(s)' => before'[s] = before[s]
    PROVE  Race'
BY DEF Race

\* Once a shutdown has begun, whoever is past the check is in racing, and every
\* other record was sent before the shutdown counted them.
THEOREM RaceCorrect == Spec => []Race
<1>1. Init => Race
  BY DEF Init, Race, Won, AtWork, Drainers
<1>2. TypeOK /\ Control /\ Order /\ Race /\ [Next]_vars => Race'
  <2>. SUFFICES ASSUME TypeOK, Control, Order, Race, [Next]_vars PROVE Race'
    OBVIOUS
  <2>. USE DEF Drainers
  <2>. /\ pc \in [Drainers -> {"idle", "drain", "blocked", "wait", "close", "join",
                               "tp", "mp", "lp", "returned"}]
       /\ call \in [Records -> {"idle", "checked", "ignored", "sent", "dropped", "ran"}]
       /\ before \in [Drainers -> Nat] /\ ticket \in [Records -> Nat] /\ sent \in Nat
    BY DEF TypeOK
  <2>1. ASSUME NEW r \in Records, DispatchCheck(r) PROVE Race'
    <3>1. /\ call' = [call EXCEPT ![r] = IF shutdown THEN "ignored" ELSE "checked"]
          /\ UNCHANGED <<pc, drained, shutdown, racing, before, ticket>>
      BY <2>1 DEF DispatchCheck, drainVars, stopVars
    <3>. QED
      BY <3>1 DEF Race, Won, AtWork
  <2>2. ASSUME NEW r \in Records, Send(r) PROVE Race'
    <3>1. /\ call[r] = "checked" /\ call' = [call EXCEPT ![r] = "sent"]
          /\ ticket' = [ticket EXCEPT ![r] = sent + 1]
          /\ UNCHANGED <<pc, drained, shutdown, racing, before>>
      BY <2>2 DEF Send, drainVars, stopVars
    <3>. QED
      BY <3>1 DEF Race, Won, AtWork
  <2>3. ASSUME NEW r \in Records, Overflow(r) PROVE Race'
    BY <2>3, RaceFrame DEF Overflow, drainVars, stopVars, Won, AtWork
  <2>4. ASSUME NEW r \in Records, JobReturn(r) \/ JobPanic(r) PROVE Race'
    BY <2>4, RaceFrame DEF JobReturn, JobPanic, Finish, drainVars, stopVars, Won, AtWork
  <2>5. CASE WorkerTake
    BY <2>5, RaceFrame DEF WorkerTake, Blocked, Goto, recordVars, drainVars, stopVars, Won, AtWork
  <2>6. CASE WorkerStop
    BY <2>6, RaceFrame DEF WorkerStop, recordVars, drainVars, stopVars, Won, AtWork
  <2>7. ASSUME NEW d \in Drainers, RunSentinel(d) \/ CtxExpire(d) PROVE Race'
    BY <2>7, RaceFrame DEF RunSentinel, CtxExpire, recordVars, drainVars, stopVars, Won, AtWork
  <2>8. ASSUME NEW d \in Drainers, DrainSend(d) \/ DrainBlock(d) \/ DrainGiveUp(d) PROVE Race'
    BY <2>8, RaceFrame
    DEF DrainSend, DrainBlock, DrainGiveUp, Goto, recordVars, drainVars, stopVars, Won, AtWork
  <2>9. ASSUME NEW d \in Drainers, DrainDone(d) PROVE Race'
    BY <2>9, RaceFrame DEF DrainDone, AfterDrain, Goto, recordVars, stopVars, Won, AtWork
  <2>10. ASSUME NEW d \in Drainers, Export(d) PROVE Race'
    BY <2>10, RaceFrame DEF Export, Providers, Goto, recordVars, Won, AtWork
  <2>11. ASSUME NEW f \in Flushes, FlushEnter(f) PROVE Race'
    BY <2>11, RaceFrame, CallsAssumption DEF FlushEnter, Goto, recordVars, stopVars, Won, AtWork
  <2>12. ASSUME NEW s \in Shutdowns, ShutdownEnter(s) PROVE Race'
    <3>1. CASE shutdown
      BY <2>12, <3>1, RaceFrame DEF ShutdownEnter, Goto, recordVars, stopVars, Won, AtWork
    <3>2. CASE ~shutdown
      <4>1. /\ pc[s] = "idle" /\ pc' = [pc EXCEPT ![s] = "drain"]
            /\ before' = [before EXCEPT ![s] = sent]
            /\ racing' = {r \in Records : call[r] = "checked"}
            /\ UNCHANGED <<call, ticket, drained>>
        BY <2>12, <3>2 DEF ShutdownEnter, Goto, recordVars
      <4>2. shutdown'
        BY <2>12, <3>2 DEF ShutdownEnter
      <4>3. \A r \in Records : call[r] = "sent" => ticket[r] <= sent
        <5>. SUFFICES ASSUME NEW r \in Records, call[r] = "sent" PROVE ticket[r] <= sent
          OBVIOUS
        <5>1. CASE r \in running
          BY <5>1 DEF Order, OrderOf, RunningFirst
        <5>2. CASE \E i \in 1..Len(jobs) : jobs[i] = r
          BY <5>2 DEF Order, OrderOf, Waiting, TypeOK
        <5>. QED
          BY <5>1, <5>2 DEF Order, OrderOf, NotLost
      <4>4. \A t \in Shutdowns \ {s} : ~Won(t)'
        BY <3>2, <4>1 DEF Control, Race, Won, AtWork
      <4>. QED
        BY <4>1, <4>2, <4>3, <4>4 DEF Race
    <3>. QED
      BY <3>1, <3>2
  <2>13. ASSUME NEW s \in Shutdowns, CloseStop(s) \/ Join(s) PROVE Race'
    BY <2>13, RaceFrame DEF CloseStop, Join, Goto, recordVars, drainVars, stopVars, Won, AtWork
  <2>14. CASE UNCHANGED vars
    BY <2>14, RaceFrame DEF vars, recordVars, drainVars, stopVars, Won, AtWork
  <2>. QED
    BY <2>1, <2>2, <2>3, <2>4, <2>5, <2>6, <2>7, <2>8, <2>9, <2>10, <2>11, <2>12,
       <2>13, <2>14
    DEF Next, Dispatch, Drain, Worker, Terminated
<1>. QED
  BY <1>1, <1>2, TypeCorrect, ControlCorrect, OrderCorrect, PTL DEF Spec

\* After a Shutdown whose drain succeeded nothing is left behind but what raced
\* with it.
THEOREM LossesAreRacers == Spec => []ShutdownLosesOnlyRacers
<1>1. TypeOK /\ Control /\ Order /\ Race => ShutdownLosesOnlyRacers
  <2>. SUFFICES ASSUME TypeOK, Control, Order, Race, exited,
                       NEW s \in Shutdowns, s \in drained,
                       NEW r \in Records, call[r] = "sent"
                PROVE  r \in racing
    BY DEF ShutdownLosesOnlyRacers
  <2>1. running = {}
    BY DEF Control
  <2>2. PICK i \in 1..Len(jobs) : jobs[i] = r
    BY <2>1 DEF Order, OrderOf, NotLost
  <2>3. ticket[r] \in (finished + 1)..sent
    BY <2>2 DEF Order, OrderOf, Waiting
  <2>4. before[s] <= finished /\ before[s] \in Nat
    BY DEF Order, OrderOf, SentinelCovers, TypeOK, Drainers
  <2>5. before[s] < ticket[r]
    BY <2>3, <2>4 DEF TypeOK
  <2>. QED
    BY <2>5 DEF Race, Won
<1>. QED
  BY <1>1, TypeCorrect, ControlCorrect, OrderCorrect, RaceCorrect, PTL
-----------------------------------------------------------------------------
Dropped == {r \in Records : call[r] = "dropped"}

Counted == overflow = Cardinality(Dropped)

\* Every accepted record is in the channel or running until it has been
\* executed, and every dropped one has been counted exactly once.
THEOREM NothingLostSilently == Spec => []NoSilentLoss
<1>1. Init => Counted
  <2>1. Init => Dropped = {} /\ overflow = 0
    BY DEF Init, Dropped
  <2>. QED
    BY <2>1, FS_EmptySet DEF Counted
<1>2. TypeOK /\ Control /\ Order /\ Counted /\ [Next]_vars => Counted'
  <2>. SUFFICES ASSUME TypeOK, Control, Order, Counted, [Next]_vars PROVE Counted'
    OBVIOUS
  <2>. call \in [Records -> {"idle", "checked", "ignored", "sent", "dropped", "ran"}]
    BY DEF TypeOK
  <2>a. ASSUME Dropped' = Dropped, UNCHANGED overflow PROVE Counted'
    BY <2>a DEF Counted
  <2>1. ASSUME NEW r \in Records, DispatchCheck(r) \/ Send(r) PROVE Counted'
    <3>1. Dropped' = Dropped
      BY <2>1 DEF DispatchCheck, Send, Dropped
    <3>. QED
      BY <2>1, <2>a, <3>1 DEF DispatchCheck, Send
  <2>2. ASSUME NEW r \in Records, Overflow(r) PROVE Counted'
    <3>1. /\ r \notin Dropped /\ Dropped' = Dropped \cup {r} /\ overflow' = overflow + 1
      BY <2>2 DEF Overflow, Dropped
    <3>2. IsFiniteSet(Dropped)
      BY FiniteAssumption, FS_Subset DEF Dropped
    <3>3. Cardinality(Dropped \cup {r}) = Cardinality(Dropped) + 1
      BY <3>1, <3>2, FS_AddElement
    <3>. QED
      BY <3>1, <3>3 DEF Counted
  <2>3. ASSUME NEW r \in Records, Finish(r) PROVE Counted'
    <3>1. call[r] = "sent"
      BY <2>3 DEF Finish, Order, OrderOf, RunningFirst
    <3>2. Dropped' = Dropped /\ UNCHANGED overflow
      BY <2>3, <3>1 DEF Finish, Dropped
    <3>. QED
      BY <2>a, <3>2
  <2>4. CASE UNCHANGED <<call, overflow>>
    BY <2>4, <2>a DEF Dropped
  <2>5. CASE Worker \/ UNCHANGED vars
    BY <2>5, <2>4 DEF Worker, WorkerTake, WorkerStop, recordVars, vars
  <2>6. ASSUME NEW d \in Drainers, RunSentinel(d) \/ Drain(d) \/ Export(d) \/ CtxExpire(d)
        PROVE  Counted'
    BY <2>6, <2>4 DEF RunSentinel, Drain, DrainSend, DrainBlock, DrainGiveUp, DrainDone,
                      Export, CtxExpire, recordVars
  <2>7. ASSUME NEW f \in Flushes, FlushEnter(f) PROVE Counted'
    BY <2>7, <2>4 DEF FlushEnter, recordVars
  <2>8. ASSUME NEW s \in Shutdowns, ShutdownEnter(s) \/ CloseStop(s) \/ Join(s)
        PROVE  Counted'
    BY <2>8, <2>4 DEF ShutdownEnter, CloseStop, Join, recordVars
  <2>. QED
    BY <2>1, <2>2, <2>3, <2>5, <2>6, <2>7, <2>8
    DEF Next, Dispatch, JobReturn, JobPanic, Terminated
<1>3. Order /\ Counted => NoSilentLoss
  BY DEF Order, OrderOf, NotLost, Counted, Dropped, NoSilentLoss
<1>. QED
  BY <1>1, <1>2, <1>3, TypeCorrect, ControlCorrect, OrderCorrect, PTL DEF Spec

-----------------------------------------------------------------------------
\* A call whose drain has returned nil is past its drain.
Settled == \A d \in drained : pc[d] \notin {"idle", "drain", "blocked", "wait"}

\* A kept promise is never pending again: drained calls do not go back.
LEMMA SettledCorrect == Spec => []Settled
<1>1. Init => Settled
  BY DEF Init, Settled
<1>2. TypeOK /\ Settled /\ [Next]_vars => Settled'
  <2>. SUFFICES ASSUME TypeOK, Settled, [Next]_vars PROVE Settled'
    OBVIOUS
  <2>. pc \in [Drainers -> {"idle", "drain", "blocked", "wait", "close", "join",
                           "tp", "mp", "lp", "returned"}]
    BY DEF TypeOK
  <2>a. ASSUME UNCHANGED <<pc, drained>> PROVE Settled'
    BY <2>a DEF Settled
  <2>b. ASSUME NEW d \in Drainers, NEW at, Goto(d, at), UNCHANGED drained,
               \/ pc[d] \in {"idle", "drain", "blocked", "wait"}
               \/ at \notin {"idle", "drain", "blocked", "wait"}
        PROVE  Settled'
    BY <2>b DEF Settled, Goto, TypeOK
  <2>1. ASSUME NEW r \in Records, Dispatch(r) \/ JobReturn(r) \/ JobPanic(r) PROVE Settled'
    BY <2>1, <2>a DEF Dispatch, DispatchCheck, Send, Overflow, JobReturn, JobPanic, Finish, drainVars
  <2>2. CASE Worker
    BY <2>2, <2>a, <2>b DEF Worker, WorkerTake, WorkerStop, Blocked, drainVars
  <2>3. ASSUME NEW d \in Drainers, RunSentinel(d) \/ CtxExpire(d) PROVE Settled'
    BY <2>3, <2>a DEF RunSentinel, CtxExpire, drainVars
  <2>4. ASSUME NEW d \in Drainers, DrainSend(d) \/ DrainBlock(d) \/ DrainGiveUp(d) PROVE Settled'
    BY <2>4, <2>b DEF DrainSend, DrainBlock, DrainGiveUp, drainVars
  <2>5. ASSUME NEW d \in Drainers, DrainDone(d) PROVE Settled'
    BY <2>5 DEF DrainDone, AfterDrain, Goto, Settled, TypeOK
  <2>6. ASSUME NEW d \in Drainers, Export(d) PROVE Settled'
    <3>1. AfterExport(pc[d]) \in {"mp", "lp", "returned"}
      BY <2>6 DEF Export, AfterExport, Providers
    <3>. QED
      BY <2>6, <3>1, <2>b DEF Export
  <2>7. ASSUME NEW f \in Flushes, FlushEnter(f) PROVE Settled'
    BY <2>7, <2>b DEF FlushEnter, Drainers
  <2>8. ASSUME NEW s \in Shutdowns, ShutdownEnter(s) \/ CloseStop(s) \/ Join(s) PROVE Settled'
    BY <2>8, <2>b DEF ShutdownEnter, CloseStop, Join, drainVars, Drainers
  <2>9. CASE UNCHANGED vars
    BY <2>9, <2>a DEF vars, drainVars
  <2>. QED
    BY <2>1, <2>2, <2>3, <2>4, <2>5, <2>6, <2>7, <2>8, <2>9 DEF Next, Drain, Terminated
<1>. QED
  BY <1>1, <1>2, TypeCorrect, PTL DEF Spec

\* The pipeline implements the promise: every step of it is a step of Delivery
\* or leaves what Delivery sees unchanged.
THEOREM Refinement == Spec => ImplementsDelivery
<1>. USE DEF Drainers, Promise!Barriers
<1>1. Init => Promise!Init
  <2>1. Init => \A d \in Drainers : pc[d] = "idle"
    BY DEF Init
  <2>2. Init => Barrier = [d \in Drainers |-> "new"]
    BY <2>1 DEF Barrier
  <2>3. Init => {d \in Drainers : pc[d] = "returned"} = {}
    BY <2>1
  <2>. QED
    BY <2>2, <2>3 DEF Init, Promise!Init
<1>2. TypeOK /\ Control /\ Order /\ Settled /\ [Next]_vars => [Promise!Next]_Promise!vars
  <2>. SUFFICES ASSUME TypeOK, Control, Order, Settled, [Next]_vars
                PROVE  [Promise!Next]_Promise!vars
    OBVIOUS
  <2>. DEFINE Returned == {d \in Drainers : pc[d] = "returned"}
  <2>. pc \in [Drainers -> {"idle", "drain", "blocked", "wait", "close", "join",
                           "tp", "mp", "lp", "returned"}]
    BY DEF TypeOK
  <2>a. ASSUME UNCHANGED <<pc, drained>> PROVE UNCHANGED <<Barrier, Returned>>
    BY <2>a DEF Barrier
  (* a drainer that moves between states which Delivery does not tell apart *)
  <2>b. ASSUME NEW d \in Drainers, NEW at, Goto(d, at), UNCHANGED drained,
               \/ pc[d] \in {"drain", "blocked", "wait"} /\ at \in {"blocked", "wait"}
               \/ pc[d] \in {"close", "join"} /\ at \in {"join", "tp"}
        PROVE  UNCHANGED <<Barrier, Returned>>
    BY <2>b DEF Barrier, Goto
  <2>c. ASSUME UNCHANGED <<Barrier, Returned, call, ticket, sent, overflow, finished, shutdown,
                           exited, before, errs>>
        PROVE  UNCHANGED Promise!vars
    BY <2>c DEF Promise!vars, Promise!recordVars, Promise!barrierVars
  <2>1. ASSUME NEW r \in Records, DispatchCheck(r) PROVE Promise!Admit(r)
    BY <2>1, <2>a DEF DispatchCheck, Promise!Admit, Promise!Move, Promise!barrierVars,
                      workerVars, drainVars, stopVars
  <2>2. ASSUME NEW r \in Records, Send(r) PROVE Promise!Accept(r)
    BY <2>2, <2>a DEF Send, Promise!Accept, Promise!Move, Promise!barrierVars,
                      workerVars, drainVars, stopVars
  <2>3. ASSUME NEW r \in Records, Overflow(r) PROVE Promise!Drop(r)
    BY <2>3, <2>a DEF Overflow, Promise!Drop, Promise!Move, Promise!barrierVars,
                      workerVars, drainVars, stopVars
  <2>4. ASSUME NEW r \in Records, JobReturn(r) \/ JobPanic(r) PROVE Promise!Deliver(r)
    <3>1. ~exited /\ call[r] = "sent" /\ ticket[r] = finished + 1
      BY <2>4 DEF JobReturn, JobPanic, Finish, Control, Order, OrderOf, RunningFirst
    <3>. QED
      BY <2>4, <2>a, <3>1 DEF JobReturn, JobPanic, Finish, Promise!Deliver, Promise!Move,
                              Promise!barrierVars, drainVars, stopVars
  <2>5. CASE WorkerTake
    <3>1. UNCHANGED <<Barrier, Returned>>
      BY <2>5, <2>a, <2>b DEF WorkerTake, Blocked, drainVars
    <3>. QED
      BY <2>5, <2>c, <3>1 DEF WorkerTake, recordVars, drainVars, stopVars
  <2>6. CASE WorkerStop
    <3>1. shutdown /\ exited' = TRUE /\ UNCHANGED <<Barrier, Returned>>
      BY <2>6, <2>a DEF WorkerStop, Control, drainVars
    <3>. QED
      BY <2>6, <3>1 DEF WorkerStop, Promise!Next, Promise!Seal, Promise!recordVars,
                        Promise!barrierVars, recordVars, drainVars, stopVars
  <2>7. ASSUME NEW d \in Drainers, RunSentinel(d) \/ CtxExpire(d) PROVE UNCHANGED Promise!vars
    <3>1. UNCHANGED <<Barrier, Returned>>
      BY <2>7, <2>a DEF RunSentinel, CtxExpire, drainVars
    <3>. QED
      BY <2>7, <2>c, <3>1 DEF RunSentinel, CtxExpire, recordVars, workerVars, drainVars, stopVars
  <2>8. ASSUME NEW d \in Drainers, DrainSend(d) \/ DrainBlock(d) PROVE UNCHANGED Promise!vars
    <3>1. UNCHANGED <<Barrier, Returned>>
      BY <2>8, <2>b DEF DrainSend, DrainBlock, drainVars
    <3>. QED
      BY <2>8, <2>c, <3>1 DEF DrainSend, DrainBlock, recordVars, workerVars, drainVars, stopVars
  <2>9. ASSUME NEW d \in Drainers, DrainGiveUp(d) PROVE Promise!GiveUp(d)
    <3>1. /\ pc[d] \in {"blocked", "wait"} /\ d \notin drained /\ drained' = drained
          /\ pc' = [pc EXCEPT ![d] = IF d \in Shutdowns THEN "close" ELSE "returned"]
      BY <2>9 DEF DrainGiveUp, Goto, Settled
    <3>2. Barrier[d] = "pending" /\ Barrier' = [Barrier EXCEPT ![d] = "void"]
      BY <3>1 DEF Barrier
    <3>3. CASE d \in Shutdowns
      <4>1. Returned' = Returned /\ errs' = errs /\ d \notin Flushes
        BY <2>9, <3>1, <3>3, CallsAssumption DEF DrainGiveUp
      <4>. QED
        BY <2>9, <3>2, <4>1 DEF DrainGiveUp, Promise!GiveUp, Promise!recordVars,
                                recordVars, workerVars, stopVars
    <3>4. CASE d \in Flushes
      <4>1. Returned' = Returned \cup {d} /\ errs' = errs \cup {d}
        BY <2>9, <3>1, <3>4, CallsAssumption DEF DrainGiveUp
      <4>. QED
        BY <2>9, <3>2, <3>4, <4>1 DEF DrainGiveUp, Promise!GiveUp, Promise!recordVars,
                                      recordVars, workerVars, stopVars
    <3>. QED
      BY <3>3, <3>4
  <2>10. ASSUME NEW d \in Drainers, DrainDone(d) PROVE Promise!Keep(d)
    <3>1. /\ pc[d] = "wait" /\ drained' = drained \cup {d}
          /\ pc' = [pc EXCEPT ![d] = AfterDrain(d)] /\ AfterDrain(d) \in {"close", "tp"}
      BY <2>10 DEF DrainDone, AfterDrain, Goto
    <3>2. Barrier[d] = "pending" /\ Barrier' = [Barrier EXCEPT ![d] = "kept"]
      BY <3>1 DEF Barrier
    <3>3. Returned' = Returned
      BY <3>1
    <3>4. before[d] <= finished
      BY <2>10 DEF DrainDone, Order, OrderOf, SentinelCovers
    <3>. QED
      BY <2>10, <3>2, <3>3, <3>4 DEF DrainDone, Promise!Keep, Promise!recordVars,
                                     recordVars, workerVars, stopVars
  <2>11. ASSUME NEW d \in Drainers, Export(d) PROVE Promise!Settle(d)
    <3>1. /\ pc[d] \in Providers /\ drained' = drained
          /\ pc' = [pc EXCEPT ![d] = AfterExport(pc[d])]
          /\ AfterExport(pc[d]) \in {"mp", "lp", "returned"}
      BY <2>11 DEF Export, AfterExport, Goto, Providers
    <3>2. Barrier[d] \in {"kept", "void"} /\ Barrier' = Barrier
      BY <3>1 DEF Barrier, Providers
    <3>3. d \notin Returned /\ \E end \in {{}, {d}} : Returned' = Returned \cup end
      <4>1. CASE AfterExport(pc[d]) = "returned"
        BY <3>1, <4>1 DEF Providers
      <4>2. CASE AfterExport(pc[d]) # "returned"
        <5>1. Returned' = Returned \cup {}
          BY <3>1, <4>2 DEF Providers
        <5>. QED
          BY <3>1, <5>1 DEF Providers
      <4>. QED
        BY <4>1, <4>2
    <3>4. d \in Shutdowns => exited
      BY <3>1 DEF Control
    <3>. QED
      BY <2>11, <3>2, <3>3, <3>4 DEF Export, Promise!Settle, Promise!recordVars,
                                     recordVars, workerVars
  <2>12. ASSUME NEW d \in Drainers, pc[d] = "idle", shutdown,
                pc' = [pc EXCEPT ![d] = "returned"],
                UNCHANGED <<recordVars, finished, shutdown, exited, before, errs, drained>>
         PROVE  Promise!Noop(d)
    <3>1. Barrier[d] = "new" /\ Barrier' = [Barrier EXCEPT ![d] = "void"]
      BY <2>12 DEF Barrier, Settled
    <3>2. Returned' = Returned \cup {d}
      BY <2>12
    <3>. QED
      BY <2>12, <3>1, <3>2 DEF Promise!Noop, Promise!recordVars, recordVars
  <2>13. ASSUME NEW d \in Drainers, pc[d] = "idle", ~shutdown,
                pc' = [pc EXCEPT ![d] = "drain"], before' = [before EXCEPT ![d] = sent],
                shutdown' = (d \in Shutdowns),
                UNCHANGED <<recordVars, finished, exited, errs, drained>>
         PROVE  Promise!Begin(d)
    <3>1. Barrier[d] = "new" /\ Barrier' = [Barrier EXCEPT ![d] = "pending"]
      BY <2>13 DEF Barrier
    <3>2. Returned' = Returned
      BY <2>13
    <3>. QED
      BY <2>13, <3>1, <3>2 DEF Promise!Begin, Promise!recordVars, recordVars
  <2>14. ASSUME NEW f \in Flushes, FlushEnter(f) PROVE Promise!Noop(f) \/ Promise!Begin(f)
    <3>1. CASE shutdown
      BY <2>14, <3>1, <2>12 DEF FlushEnter, Goto, workerVars, stopVars
    <3>2. CASE ~shutdown
      <4>1. shutdown' = (f \in Shutdowns)
        BY <2>14, <3>2, CallsAssumption DEF FlushEnter, stopVars, TypeOK
      <4>. QED
        BY <2>14, <3>2, <4>1, <2>13 DEF FlushEnter, Goto, workerVars
    <3>. QED
      BY <3>1, <3>2
  <2>15. ASSUME NEW s \in Shutdowns, ShutdownEnter(s) PROVE Promise!Noop(s) \/ Promise!Begin(s)
    <3>1. CASE shutdown
      BY <2>15, <3>1, <2>12 DEF ShutdownEnter, Goto, workerVars, stopVars
    <3>2. CASE ~shutdown
      <4>1. shutdown' = (s \in Shutdowns)
        BY <2>15, <3>2 DEF ShutdownEnter
      <4>2. /\ pc[s] = "idle" /\ pc' = [pc EXCEPT ![s] = "drain"]
            /\ before' = [before EXCEPT ![s] = sent]
            /\ UNCHANGED <<recordVars, finished, exited, errs, drained>>
        BY <2>15, <3>2 DEF ShutdownEnter, Goto, workerVars
      <4>. QED
        BY <3>2, <4>1, <4>2, <2>13
    <3>. QED
      BY <3>1, <3>2
  <2>16. ASSUME NEW s \in Shutdowns, CloseStop(s) \/ Join(s) PROVE UNCHANGED Promise!vars
    <3>1. UNCHANGED <<Barrier, Returned>>
      BY <2>16, <2>b DEF CloseStop, Join, drainVars
    <3>. QED
      BY <2>16, <2>c, <3>1 DEF CloseStop, Join, recordVars, workerVars, drainVars, stopVars
  <2>17. CASE UNCHANGED vars
    <3>1. UNCHANGED <<Barrier, Returned>>
      BY <2>17, <2>a DEF vars, drainVars
    <3>. QED
      BY <2>17, <2>c, <3>1 DEF vars, recordVars, workerVars, drainVars, stopVars
  <2>. QED
    BY <2>1, <2>2, <2>3, <2>4, <2>5, <2>6, <2>7, <2>8, <2>9, <2>10, <2>11,
       <2>14, <2>15, <2>16, <2>17
    DEF Next, Dispatch, Drain, Worker, Terminated, Promise!Next
<1>. QED
  BY <1>1, <1>2, TypeCorrect, ControlCorrect, OrderCorrect, SettledCorrect, PTL
  DEF Spec, ImplementsDelivery, Promise!Spec
=============================================================================
