------------------------ MODULE TaxonomySharedProofs ------------------------
(***************************************************************************)
(* Theorems about the state that the Record methods share without a lock,  *)
(* for every set of calls, operations, names and install IDs.              *)
(*                                                                         *)
(* Each property rests on an invariant that says what a call knows at each *)
(* of its places: TaxonomyProofs gives the places, the lemmas below what a *)
(* step may change.                                                        *)
(***************************************************************************)
EXTENDS TaxonomyProofs, FiniteSetTheorems

Busy == {"claim", "store", "lookup", "command", "session", "generate", "dispatch",
         "install", "load", "emit"}

\* The first step of a call: what it changes, and where it leaves the call.
LEMMA BeginFrame ==
    ASSUME Control, NEW c \in Calls, NEW o \in Operations, Begin(c, o)
    PROVE  /\ pc[c] = "idle" /\ o \in AllOperations /\ op'[c] = o
           /\ \A d \in Calls : d # c => pc'[d] = pc[d] /\ op'[d] = op[d] /\ record'[d] = record[d]
           /\ UNCHANGED <<tier, closed, shared, install, queue, wire>>
           /\ \/ pc'[c] \in {"ignored", "belowTier"} /\ record'[c] = record[c]
              \/ pc'[c] = First(o) /\ record'[c] = Gathered(o)
<1>1. /\ pc[c] = "idle" /\ o \in AllOperations
      /\ UNCHANGED <<tier, closed, shared, install, queue, wire>>
  BY OperationsAssumption DEF Begin
<1>2. op' = [op EXCEPT ![c] = o]
  BY DEF Begin
<1>3. \/ pc' = [pc EXCEPT ![c] = "ignored"] /\ record' = record
      \/ pc' = [pc EXCEPT ![c] = "belowTier"] /\ record' = record
      \/ pc' = [pc EXCEPT ![c] = First(o)] /\ record' = [record EXCEPT ![c] = Gathered(o)]
  BY DEF Begin, Goto
<1>4. pc \in [Calls -> Places] /\ op \in [Calls -> AllOperations \cup {None}] /\ record \in [Calls -> Records]
  BY DEF Control, Shape
<1>5. op'[c] = o /\ \A d \in Calls : d # c => op'[d] = op[d]
  BY <1>2, <1>4
<1>6. \A d \in Calls : d # c => pc'[d] = pc[d] /\ record'[d] = record[d]
  BY <1>3, <1>4
<1>7. \/ pc'[c] \in {"ignored", "belowTier"} /\ record'[c] = record[c]
      \/ pc'[c] = First(o) /\ record'[c] = Gathered(o)
  BY <1>3, <1>4
<1>8. QED BY <1>1, <1>5, <1>6, <1>7

\* A later step of a call: it changes no other call and no operation.
LEMMA StepFrame ==
    ASSUME Control, NEW c \in Calls, Step(c)
    PROVE  /\ pc[c] \in Busy
           /\ \A d \in Calls : d # c => pc'[d] = pc[d] /\ record'[d] = record[d]
           /\ UNCHANGED <<tier, closed, began, installID, running>>
<1> USE DEF Goto, shared, install, queue
<1>1. pc[c] \in Busy
  BY DEF Busy, Step, ClaimSession, ClaimFeature, StoreCommand, SetKnownCommands, KnownCommand, ReadCommand,
     LoadSession, GenerateSession, Dispatch, MetricInstall, DispatchLoad, EmitMetric
<1>2. UNCHANGED <<tier, closed, began, installID, running>>
  BY DEF Step, ClaimSession, ClaimFeature, StoreCommand, SetKnownCommands, KnownCommand, ReadCommand,
     LoadSession, GenerateSession, Dispatch, MetricInstall, DispatchLoad, EmitMetric
<1>3. \A d \in Calls : d # c => pc'[d] = pc[d]
  BY DEF Step, ClaimSession, ClaimFeature, StoreCommand, SetKnownCommands, KnownCommand, ReadCommand,
     LoadSession, GenerateSession, Dispatch, MetricInstall, DispatchLoad, EmitMetric, Control, Shape
<1>4. \A d \in Calls : d # c => record'[d] = record[d]
  <2>1. record \in [Calls -> Records]
    BY DEF Control, Shape
  <2>2. CASE KnownCommand(c) \/ ReadCommand(c)
    BY <2>1, <2>2 DEF KnownCommand, ReadCommand
  <2>3. CASE LoadSession(c) \/ GenerateSession(c)
    BY <2>1, <2>3 DEF LoadSession, GenerateSession
  <2>4. CASE MetricInstall(c)
    BY <2>1, <2>4 DEF MetricInstall
  <2>5. CASE \/ ClaimSession(c) \/ ClaimFeature(c) \/ StoreCommand(c) \/ SetKnownCommands(c)
             \/ Dispatch(c) \/ DispatchLoad(c) \/ EmitMetric(c)
    BY <2>5 DEF ClaimSession, ClaimFeature, StoreCommand, SetKnownCommands, Dispatch, DispatchLoad, EmitMetric
  <2>6. QED BY <2>2, <2>3, <2>4, <2>5 DEF Step
<1>5. QED BY <1>1, <1>2, <1>3, <1>4

-----------------------------------------------------------------------------
\* A call whose job is in the channel or with the worker waits there, or has
\* been sent.
Waiting ==
    /\ \A i \in 1..Len(jobs) : jobs[i] \in Calls => pc[jobs[i]] \in {"queued", "sent"}
    /\ running \in Calls => pc[running] \in {"queued", "sent"}

\* A step of the worker moves only a call that waits.
LEMMA WorkerFrame ==
    ASSUME Control, Channel, Waiting, Worker \/ Close \/ Terminated \/ UNCHANGED vars
    PROVE  /\ \A c \in Calls : pc'[c] = pc[c] \/ (pc[c] \in {"queued", "sent"} /\ pc'[c] = "sent")
           /\ UNCHANGED <<tier, shared, installLoading, began, overflow, loadDropped, record>>
<1> USE DEF queue, install
<1>1. UNCHANGED <<tier, shared, installLoading, began, overflow, loadDropped, record>>
  BY DEF Worker, TakeJob, LoadInstallID, RunJob, Close, Terminated, vars
<1>2. CASE RunJob /\ running # Load
  <2>1. running \in Calls /\ pc' = [pc EXCEPT ![running] = "sent"]
    BY <1>2 DEF RunJob, Channel, Goto
  <2>2. QED BY <1>1, <2>1 DEF Waiting, Control, Shape
<1>3. CASE ~(RunJob /\ running # Load)
  BY <1>1, <1>3 DEF Worker, TakeJob, LoadInstallID, RunJob, Close, Terminated, vars
<1>4. QED BY <1>2, <1>3

THEOREM WaitingCorrect == Spec => []Waiting
<1> USE NamesAssumption
<1>1. Init => Waiting
  BY DEF Init, Waiting
<1>2. Control /\ Channel /\ Waiting /\ [Next]_vars => Waiting'
  <2> SUFFICES ASSUME Control, Channel, Waiting, [Next]_vars PROVE Waiting'
    OBVIOUS
  <2>1. \A c \in Calls : pc[c] \in {"queued", "sent"} => pc'[c] \in {"queued", "sent"}
    <3>1. ASSUME NEW c \in Calls, NEW o \in Operations, Begin(c, o)
          PROVE  \A d \in Calls : pc[d] \in {"queued", "sent"} => pc'[d] = pc[d]
      BY <3>1, BeginFrame
    <3>2. ASSUME NEW c \in Calls, Step(c)
          PROVE  \A d \in Calls : pc[d] \in {"queued", "sent"} => pc'[d] = pc[d]
      BY <3>2, StepFrame DEF Busy
    <3>3. CASE Worker \/ Close \/ Terminated \/ UNCHANGED vars
      BY <3>3, WorkerFrame
    <3>4. QED BY <3>1, <3>2, <3>3 DEF Next
  <2>2. ASSUME UNCHANGED <<jobs, running>> PROVE Waiting'
    BY <2>1, <2>2 DEF Waiting, Channel
  <2>3. ASSUME NEW job \in Calls \cup {Load}, Enqueue(job), UNCHANGED running,
               job \in Calls => pc'[job] \in {"queued", "sent"} \/ ~HasRoom
        PROVE  Waiting'
    <3>1. CASE HasRoom
      <4>1. jobs' = Append(jobs, job)
        BY <2>3, <3>1 DEF Enqueue
      <4>2. /\ Len(jobs') = Len(jobs) + 1 /\ Len(jobs) \in Nat
            /\ \A i \in 1..Len(jobs) : jobs'[i] = jobs[i]
            /\ jobs'[Len(jobs) + 1] = job
        BY <4>1, AppendProperties, LenProperties DEF Channel
      <4>3. \A i \in 1..Len(jobs') : jobs'[i] \in Calls => pc'[jobs'[i]] \in {"queued", "sent"}
        BY <2>1, <2>3, <3>1, <4>2 DEF Waiting
      <4>4. QED BY <2>1, <2>3, <4>3 DEF Waiting
    <3>2. CASE ~HasRoom
      BY <2>2, <2>3, <3>2 DEF Enqueue
    <3>3. QED BY <3>1, <3>2
  <2>4. ASSUME NEW c \in Calls, Dispatch(c) PROVE Waiting'
    <3>1. CASE closed
      BY <2>2, <2>4, <3>1 DEF Dispatch, queue
    <3>2. CASE ~closed
      <4>1. Enqueue(c) /\ UNCHANGED running
        BY <2>4, <3>2 DEF Dispatch
      <4>2. HasRoom => pc'[c] = "queued"
        BY <2>4, <3>2 DEF Dispatch, Goto, Control, Shape
      <4>3. QED BY <2>3, <4>1, <4>2
    <3>3. QED BY <3>1, <3>2
  <2>5. ASSUME NEW c \in Calls, DispatchLoad(c) PROVE Waiting'
    <3>1. CASE closed
      BY <2>2, <2>5, <3>1 DEF DispatchLoad, queue
    <3>2. CASE ~closed
      BY <2>3, <2>5, <3>2 DEF DispatchLoad
    <3>3. QED BY <3>1, <3>2
  <2>6. CASE TakeJob
    <3>1. /\ Len(jobs) \in Nat \ {0} /\ Head(jobs) = jobs[1] /\ Len(Tail(jobs)) = Len(jobs) - 1
      BY <2>6, HeadTailProperties, EmptySeq, LenProperties DEF TakeJob, Channel
    <3>2. \A i \in 1..(Len(jobs) - 1) : Tail(jobs)[i] = jobs[i + 1]
      BY <2>6, <3>1, HeadTailProperties DEF TakeJob, Channel
    <3>3. jobs' = Tail(jobs) /\ running' = jobs[1] /\ pc' = pc
      BY <2>6, <3>1 DEF TakeJob
    <3>4. \A i \in 1..Len(jobs') : jobs'[i] \in Calls => pc[jobs'[i]] \in {"queued", "sent"}
      BY <3>1, <3>2, <3>3 DEF Waiting
    <3>5. running' \in Calls => pc[running'] \in {"queued", "sent"}
      BY <3>1, <3>3 DEF Waiting
    <3>6. QED BY <3>3, <3>4, <3>5 DEF Waiting
  <2>7. CASE RunJob
    BY <2>1, <2>7 DEF RunJob, Waiting, Channel
  <2>8. ASSUME NEW c \in Calls, NEW o \in Operations, Begin(c, o) PROVE Waiting'
    BY <2>2, <2>8 DEF Begin, queue
  <2>9. ASSUME NEW c \in Calls,
               \/ ClaimSession(c) \/ ClaimFeature(c) \/ StoreCommand(c) \/ SetKnownCommands(c)
               \/ KnownCommand(c) \/ ReadCommand(c) \/ LoadSession(c) \/ GenerateSession(c)
               \/ MetricInstall(c) \/ EmitMetric(c)
        PROVE  Waiting'
    BY <2>2, <2>9 DEF ClaimSession, ClaimFeature, StoreCommand, SetKnownCommands, KnownCommand, ReadCommand,
         LoadSession, GenerateSession, MetricInstall, EmitMetric, queue
  <2>10. CASE LoadInstallID \/ Close \/ Terminated \/ UNCHANGED vars
    BY <2>2, <2>10 DEF LoadInstallID, Close, Terminated, vars, queue
  <2>11. QED BY <2>4, <2>5, <2>6, <2>7, <2>8, <2>9, <2>10 DEF Next, Step, Worker
<1>3. QED BY <1>1, <1>2, ControlCorrect, ChannelCorrect, PTL DEF Spec
-----------------------------------------------------------------------------
(* What a step may do to a record and to the wire.                         *)

\* Of the values a record carries, a step of its call changes the suggestion,
\* the install ID and the command, and only to what is shared.
LEMMA RecordValues ==
    ASSUME Control, NEW c \in Calls, Step(c)
    PROVE  /\ \/ record'[c].suggestion = record[c].suggestion
              \/ knownCommands # None /\ record'[c].suggestion \in knownCommands
           /\ record'[c].install \in {record[c].install, installID}
           /\ record'[c].command # record[c].command => ReadCommand(c) /\ record'[c].command = currentCommand
           /\ record'[c].install # record[c].install => MetricInstall(c)
<1>1. record \in [Calls -> Records] /\ record[c] \in Records
  BY DEF Control, Shape
<1>2. CASE KnownCommand(c)
  <2> DEFINE r == [record[c] EXCEPT !.fields = {"suggestion"}, !.suggestion = op[c].suggestion]
  <2>1. \/ record' = record
        \/ /\ knownCommands # None /\ op[c].suggestion \in knownCommands
           /\ record' = [record EXCEPT ![c] = r]
    BY <1>2 DEF KnownCommand
  <2>2. r.suggestion = op[c].suggestion /\ r.install = record[c].install /\ r.command = record[c].command
    BY <1>1 DEF Records
  <2> HIDE DEF r
  <2>3. QED BY <1>1, <2>1, <2>2
<1>3. CASE ReadCommand(c)
  <2> DEFINE r == [record[c] EXCEPT !.fields = @ \cup {"command"}, !.command = currentCommand]
  <2>1. record' = record \/ record' = [record EXCEPT ![c] = r]
    BY <1>3 DEF ReadCommand
  <2>2. /\ r.suggestion = record[c].suggestion /\ r.install = record[c].install
        /\ r.command = currentCommand
    BY <1>1 DEF Records
  <2> HIDE DEF r
  <2>3. QED BY <1>1, <1>3, <2>1, <2>2
<1>4. CASE LoadSession(c) \/ GenerateSession(c)
  <2>1. \/ record' = record
        \/ \E v : record' = [record EXCEPT ![c] = [record[c] EXCEPT !.session = v]]
    BY <1>4 DEF LoadSession, GenerateSession
  <2>2. CASE record' = record
    BY <2>2
  <2>3. ASSUME NEW v, record' = [record EXCEPT ![c] = [record[c] EXCEPT !.session = v]]
        PROVE  /\ record'[c].suggestion = record[c].suggestion
               /\ record'[c].install = record[c].install
               /\ record'[c].command = record[c].command
    <3> DEFINE r == [record[c] EXCEPT !.session = v]
    <3>1. /\ r.suggestion = record[c].suggestion /\ r.install = record[c].install
          /\ r.command = record[c].command
      BY <1>1 DEF Records
    <3>2. record' = [record EXCEPT ![c] = r]
      BY <2>3
    <3> HIDE DEF r
    <3>3. QED BY <1>1, <3>1, <3>2
  <2>4. QED BY <2>1, <2>2, <2>3
<1>5. CASE MetricInstall(c)
  <2> DEFINE r == [record[c] EXCEPT !.fields = @ \cup {"install"}, !.install = installID]
  <2>1. record' = record \/ record' = [record EXCEPT ![c] = r]
    BY <1>5 DEF MetricInstall
  <2>2. /\ r.suggestion = record[c].suggestion /\ r.install = installID
        /\ r.command = record[c].command
    BY <1>1 DEF Records
  <2> HIDE DEF r
  <2>3. QED BY <1>1, <1>5, <2>1, <2>2
<1>6. CASE \/ ClaimSession(c) \/ ClaimFeature(c) \/ StoreCommand(c) \/ SetKnownCommands(c)
           \/ Dispatch(c) \/ DispatchLoad(c) \/ EmitMetric(c)
  BY <1>6 DEF ClaimSession, ClaimFeature, StoreCommand, SetKnownCommands, Dispatch, DispatchLoad, EmitMetric
<1>7. QED BY <1>2, <1>3, <1>4, <1>5, <1>6 DEF Step

\* What the job of a call sends carries the values that its record has, and
\* may add the install ID of the Client.
LEMMA EmittedValues ==
    ASSUME Known, NEW c \in Calls, Sendable(c), NEW item \in Emitted(c)
    PROVE  /\ item.call = c
           /\ item.signal # "metric"
           /\ item.signal = "feature.activated" => op[c].kind = "feature"
           /\ item.body.suggestion = record[c].suggestion
           /\ item.body.command = record[c].command
           /\ item.body.install \in {None, record[c].install, installID}
<1> DEFINE Same(b) == /\ b.suggestion = record[c].suggestion /\ b.command = record[c].command
                      /\ b.install \in {None, record[c].install, installID}
           Sent(signal, b) == item = Item(c, signal, b) /\ Same(b)
<1>1. op[c].kind \in {"sessionStart", "invoked", "completed", "error", "feature",
                      "unknown", "help", "detail"}
  BY DEF Sendable, Route
<1>2. record[c] \in Records
  BY DEF Known, Control, Shape
<1>3. Same(Identified(c)) /\ Identified(c) \in Records
  <2> DEFINE s == record[c].session
             f == record[c].fields \cup (IF s \notin {None, NoID} THEN {"session"} ELSE {})
                    \cup (IF installID \notin {None, NoID} /\ Allows(TierBasic) THEN {"install"} ELSE {})
             u == IF s = NoID THEN None ELSE s
             i == IF installID # NoID /\ Allows(TierBasic) THEN installID ELSE None
  <2>1. Identified(c) = [record[c] EXCEPT !.fields = f, !.session = u, !.install = i]
    BY DEF Identified
  <2>2. i \in {None, installID}
    OBVIOUS
  <2> HIDE DEF s, f, u, i
  <2>3. QED BY <1>2, <2>1, <2>2, IdentifiedLawful DEF Records
<1>4. Same(Unidentified(c)) /\ Unidentified(c) \in Records
  BY <1>2, UnidentifiedLawful DEF Unidentified, Records
<1>5. \A b \in Records : \A f : Same(b) => Same([b EXCEPT !.fields = f])
  BY DEF Records
<1>6. Same(record[c])
  OBVIOUS
<1> HIDE DEF Same
<1>7. \E signal, b : /\ Sent(signal, b) /\ signal # "metric"
                     /\ signal = "feature.activated" => op[c].kind = "feature"
  <2>1. CASE op[c].kind = "sessionStart"
    BY <1>3, <2>1 DEF Emitted
  <2>2. CASE op[c].kind = "invoked"
    BY <1>3, <2>2 DEF Emitted
  <2>3. CASE op[c].kind = "completed"
    <3> DEFINE m == [Unidentified(c) EXCEPT !.fields = {"command", "exitCode"}]
               e == [Identified(c) EXCEPT !.fields = @ \ {"flags", "usage"}]
    <3>1. Same(m) /\ Same(e)
      BY <1>3, <1>4, <1>5
    <3>2. item \in {Item(c, "command.span", Unidentified(c)), Item(c, "command.metrics", m),
                    Item(c, "command.completed", e)}
      BY <2>3 DEF Emitted
    <3> HIDE DEF m, e
    <3>3. QED BY <1>4, <3>1, <3>2
  <2>4. CASE op[c].kind = "feature"
    BY <1>3, <2>4 DEF Emitted
  <2>5. CASE op[c].kind = "unknown"
    BY <1>6, <2>5 DEF Emitted
  <2>6. CASE op[c].kind = "help"
    BY <1>6, <2>6 DEF Emitted
  <2>7. CASE op[c].kind = "error"
    <3>1. item = Item(c, "errors", Unidentified(c)) \/ item = Item(c, "error.raised", Identified(c))
      BY <2>7 DEF Emitted
    <3>2. QED BY <1>3, <1>4, <3>1
  <2>8. CASE op[c].kind = "detail"
    BY <1>6, <2>8 DEF Emitted
  <2>9. QED BY <1>1, <2>1, <2>2, <2>3, <2>4, <2>5, <2>6, <2>7, <2>8
<1>8. QED BY <1>7 DEF Same, Item

\* What is new on the wire comes from the job that the worker ends, or from a
\* call that records its metric.
LEMMA NewOnWire ==
    ASSUME Known, Waiting, [Next]_vars, NEW item \in wire', item \notin wire
    PROVE  \/ /\ RunJob /\ running \in Calls /\ item \in Emitted(running)
              /\ pc[running] \in {"queued", "sent"} /\ Sendable(running)
           \/ \E c \in Calls : EmitMetric(c) /\ item = Item(c, "metric", record[c])
<1>1. CASE RunJob
  <2>1. running # Load /\ running \in Calls
    BY <1>1 DEF RunJob, Known, Channel
  <2>2. QED BY <1>1, <2>1 DEF RunJob, Known, Channel, Waiting
<1>2. ASSUME NEW c \in Calls, EmitMetric(c)
      PROVE  item = Item(c, "metric", record[c])
  BY <1>2 DEF EmitMetric
<1>3. ASSUME NEW c \in Calls, Step(c), ~EmitMetric(c) PROVE wire' = wire
  BY <1>3 DEF Step, ClaimSession, ClaimFeature, StoreCommand, SetKnownCommands, KnownCommand,
       ReadCommand, LoadSession, GenerateSession, Dispatch, MetricInstall, DispatchLoad
<1>4. ASSUME NEW c \in Calls, NEW o \in Operations, Begin(c, o) PROVE wire' = wire
  BY <1>4 DEF Begin
<1>5. CASE TakeJob \/ LoadInstallID \/ Close \/ Terminated \/ UNCHANGED vars
  BY <1>5 DEF TakeJob, LoadInstallID, Close, Terminated, vars
<1>6. QED BY <1>1, <1>2, <1>3, <1>4, <1>5 DEF Next, Worker
-----------------------------------------------------------------------------
(* Claims: the compare-and-swap of the session and of each feature.        *)

PastClaim == {"command", "session", "generate", "dispatch", "queued", "dropped", "sent"}

Claimed(c) == pc[c] \in PastClaim /\ op[c].kind \in {"sessionStart", "feature"}

\* A call that got past a claim has left it on the shared state, and no other
\* call has got past the same one.
Claims ==
    /\ \A c \in Calls : Claimed(c) =>
          /\ op[c].kind = "sessionStart" => sessionOn
          /\ op[c].kind = "feature" => op[c].feature \in activated
    /\ \A c, d \in Calls : Claimed(c) /\ Claimed(d) /\ op[c] = op[d] => c = d

\* A step that lets no call past a claim keeps the claims.
LEMMA ClaimsFrame ==
    ASSUME Claims, sessionOn => sessionOn', activated \subseteq activated',
           \A c \in Calls : Claimed(c)' => Claimed(c) /\ op'[c] = op[c]
    PROVE  Claims'
<1>1. \A c \in Calls : Claimed(c)' =>
          /\ op'[c].kind = "sessionStart" => sessionOn'
          /\ op'[c].kind = "feature" => op'[c].feature \in activated'
  BY DEF Claims
<1>2. \A c, d \in Calls : Claimed(c)' /\ Claimed(d)' /\ op'[c] = op'[d] => c = d
  BY DEF Claims
<1>3. QED BY <1>1, <1>2 DEF Claims

THEOREM ClaimsCorrect == Spec => []Claims
<1>1. Init => Claims
  BY DEF Init, Claims, Claimed, PastClaim
<1>2. Control /\ Channel /\ Waiting /\ Claims /\ [Next]_vars => Claims'
  <2> SUFFICES ASSUME Control, Channel, Waiting, Claims, [Next]_vars PROVE Claims'
    OBVIOUS
  <2>1. ASSUME NEW c \in Calls, NEW o \in Operations, Begin(c, o) PROVE Claims'
    <3>1. /\ op'[c] = o /\ o \in AllOperations
          /\ \A d \in Calls : d # c => pc'[d] = pc[d] /\ op'[d] = op[d]
          /\ sessionOn' = sessionOn /\ activated' = activated
          /\ pc'[c] \in {"ignored", "belowTier", First(o)}
      BY <2>1, BeginFrame DEF shared
    <3>2. o.kind \in {"sessionStart", "feature"} => First(o) = "claim"
      BY DEF First
    <3>3. ~Claimed(c)'
      BY <3>1, <3>2 DEF Claimed, PastClaim
    <3>4. \A d \in Calls : Claimed(d)' => Claimed(d) /\ op'[d] = op[d]
      BY <3>1, <3>3 DEF Claimed
    <3>5. QED BY <3>1, <3>4, ClaimsFrame
  <2>2. ASSUME NEW c \in Calls, ClaimSession(c) PROVE Claims'
    <3>1. /\ op' = op /\ sessionOn' = TRUE /\ activated' = activated
          /\ \A d \in Calls : d # c => pc'[d] = pc[d]
          /\ pc'[c] = (IF sessionOn THEN "repeated" ELSE "session")
          /\ op[c].kind = "sessionStart"
      BY <2>2 DEF ClaimSession, began, Goto, Control, Shape
    <3>2. CASE sessionOn
      <4>1. \A d \in Calls : Claimed(d)' => Claimed(d) /\ op'[d] = op[d]
        BY <3>1, <3>2 DEF Claimed, PastClaim
      <4>2. QED BY <3>1, <4>1, ClaimsFrame
    <3>3. CASE ~sessionOn
      <4>1. \A d \in Calls : Claimed(d) => op[d].kind # "sessionStart"
        BY <3>3 DEF Claims
      <4>2. \A d \in Calls : Claimed(d)' => d = c \/ Claimed(d)
        BY <3>1 DEF Claimed
      <4>3. \A d, e \in Calls : Claimed(d)' /\ Claimed(e)' /\ op'[d] = op'[e] => d = e
        BY <3>1, <4>1, <4>2 DEF Claims
      <4>4. \A d \in Calls : Claimed(d)' =>
                /\ op'[d].kind = "sessionStart" => sessionOn'
                /\ op'[d].kind = "feature" => op'[d].feature \in activated'
        BY <3>1, <4>2 DEF Claims
      <4>5. QED BY <4>3, <4>4 DEF Claims
    <3>4. QED BY <3>2, <3>3
  <2>3. ASSUME NEW c \in Calls, ClaimFeature(c) PROVE Claims'
    <3>1. /\ op' = op /\ sessionOn' = sessionOn /\ activated' = activated \cup {op[c].feature}
          /\ \A d \in Calls : d # c => pc'[d] = pc[d]
          /\ pc'[c] = (IF op[c].feature \in activated THEN "repeated" ELSE "command")
          /\ op[c].kind = "feature"
      BY <2>3 DEF ClaimFeature, began, Goto, Control, Shape
    <3>2. CASE op[c].feature \in activated
      <4>1. \A d \in Calls : Claimed(d)' => Claimed(d) /\ op'[d] = op[d]
        BY <3>1, <3>2 DEF Claimed, PastClaim
      <4>2. QED BY <3>1, <4>1, ClaimsFrame
    <3>3. CASE op[c].feature \notin activated
      <4>1. \A d \in Calls : Claimed(d) => op[d] # op[c]
        BY <3>1, <3>3 DEF Claims
      <4>2. \A d \in Calls : Claimed(d)' => d = c \/ Claimed(d)
        BY <3>1 DEF Claimed
      <4>3. \A d, e \in Calls : Claimed(d)' /\ Claimed(e)' /\ op'[d] = op'[e] => d = e
        BY <3>1, <4>1, <4>2 DEF Claims
      <4>4. \A d \in Calls : Claimed(d)' =>
                /\ op'[d].kind = "sessionStart" => sessionOn'
                /\ op'[d].kind = "feature" => op'[d].feature \in activated'
        BY <3>1, <4>2 DEF Claims
      <4>5. QED BY <4>3, <4>4 DEF Claims
    <3>4. QED BY <3>2, <3>3
  <2>4. ASSUME NEW c \in Calls, Step(c), ~ClaimSession(c), ~ClaimFeature(c) PROVE Claims'
    <3>1. /\ UNCHANGED <<op, sessionOn, activated>>
          /\ \A d \in Calls : d # c => pc'[d] = pc[d]
      <4>1. UNCHANGED <<sessionOn, activated>>
        BY <2>4 DEF Step, StoreCommand, SetKnownCommands, KnownCommand, ReadCommand,
             LoadSession, GenerateSession, Dispatch, MetricInstall, DispatchLoad, EmitMetric, shared
      <4>2. QED BY <2>4, <4>1, StepFrame DEF began
    <3>2. op[c].kind \in {"sessionStart", "feature"} => pc[c] \in PastClaim
      <4>1. Route(op[c], pc[c])
        BY DEF Control, Routed
      <4>2. QED BY <2>4, <4>1 DEF Step, StoreCommand, SetKnownCommands, KnownCommand, ReadCommand,
             LoadSession, GenerateSession, Dispatch, MetricInstall, DispatchLoad, EmitMetric, Route, PastClaim
    <3>3. \A d \in Calls : Claimed(d)' => Claimed(d) /\ op'[d] = op[d]
      BY <3>1, <3>2 DEF Claimed
    <3>4. QED BY <3>1, <3>3, ClaimsFrame
  <2>5. CASE Worker \/ Close \/ Terminated \/ UNCHANGED vars
    <3>1. /\ UNCHANGED <<op, sessionOn, activated>>
          /\ \A c \in Calls : pc'[c] = pc[c] \/ pc[c] \in {"queued", "sent"}
      BY <2>5, WorkerFrame DEF shared, began
    <3>2. \A d \in Calls : Claimed(d)' => Claimed(d) /\ op'[d] = op[d]
      BY <3>1 DEF Claimed, PastClaim
    <3>3. QED BY <3>1, <3>2, ClaimsFrame
  <2>6. QED BY <2>1, <2>2, <2>3, <2>4, <2>5 DEF Next
<1>3. QED BY <1>1, <1>2, ControlCorrect, ChannelCorrect, WaitingCorrect, PTL DEF Spec

\* ReportedOnce: however many calls race, one of them at most reports the
\* start of the session, and one each feature.
THEOREM OneReport == Spec => []ReportedOnce
<1>1. Claims => ReportedOnce
  BY DEF Claims, Claimed, PastClaim, ReportedOnce
<1>2. QED BY <1>1, ClaimsCorrect, PTL

-----------------------------------------------------------------------------
(* Suggestions.                                                            *)

Suggestions ==
    /\ knownCommands = None \/ knownCommands \subseteq registered
    /\ \A c \in Calls : record[c].suggestion # None => record[c].suggestion \in registered
    /\ SuggestionRegistered

\* Nothing is ever unregistered.
LEMMA RegisteredGrows ==
    ASSUME Control, [Next]_vars
    PROVE  /\ registered \subseteq registered'
           /\ \/ UNCHANGED knownCommands
              \/ knownCommands' \subseteq registered'
<1> USE DEF shared
<1>1. ASSUME NEW c \in Calls, SetKnownCommands(c)
      PROVE  registered \subseteq registered' /\ knownCommands' \subseteq registered'
  BY <1>1 DEF SetKnownCommands
<1>2. ASSUME NEW c \in Calls, Step(c), ~SetKnownCommands(c) PROVE UNCHANGED <<registered, knownCommands>>
  BY <1>2 DEF Step, ClaimSession, ClaimFeature, StoreCommand, KnownCommand, ReadCommand,
       LoadSession, GenerateSession, Dispatch, MetricInstall, DispatchLoad, EmitMetric
<1>3. ASSUME NEW c \in Calls, NEW o \in Operations, Begin(c, o) PROVE UNCHANGED <<registered, knownCommands>>
  BY <1>3 DEF Begin
<1>4. CASE Worker \/ Close \/ Terminated \/ UNCHANGED vars
  BY <1>4 DEF Worker, TakeJob, LoadInstallID, RunJob, Close, Terminated, vars
<1>5. QED BY <1>1, <1>2, <1>3, <1>4 DEF Next

THEOREM SuggestionsCorrect == Spec => []Suggestions
<1>1. Init => Suggestions
  BY DEF Init, Suggestions, SuggestionRegistered, Empty
<1>2. Known /\ Waiting /\ Suggestions /\ [Next]_vars => Suggestions'
  <2> SUFFICES ASSUME Known, Waiting, Suggestions, [Next]_vars PROVE Suggestions'
    OBVIOUS
  <2>0. Control /\ Channel
    BY DEF Known
  <2>1. registered \subseteq registered' /\ (knownCommands' = None \/ knownCommands' \subseteq registered')
    BY <2>0, RegisteredGrows DEF Suggestions
  <2>2. \A c \in Calls : record'[c].suggestion # None => record'[c].suggestion \in registered'
    <3>1. ASSUME NEW c \in Calls, NEW o \in Operations, Begin(c, o)
          PROVE  \A d \in Calls : record'[d].suggestion \in {None, record[d].suggestion}
      BY <2>0, <3>1, BeginFrame, GatheredType
    <3>2. ASSUME NEW c \in Calls, Step(c)
          PROVE  \A d \in Calls : \/ record'[d].suggestion = record[d].suggestion
                                  \/ record'[d].suggestion \in registered
      BY <2>0, <3>2, StepFrame, RecordValues DEF Suggestions
    <3>3. CASE Worker \/ Close \/ Terminated \/ UNCHANGED vars
      BY <2>0, <2>1, <3>3, WorkerFrame DEF Suggestions
    <3>4. QED BY <2>1, <3>1, <3>2, <3>3 DEF Suggestions, Next
  <2>3. ASSUME NEW item \in wire', item.body.suggestion # None
        PROVE  item.body.suggestion \in registered
    <3>1. CASE item \in wire
      BY <2>3, <3>1 DEF Suggestions, SuggestionRegistered
    <3>2. CASE item \notin wire
      <4>1. CASE running \in Calls /\ item \in Emitted(running) /\ Sendable(running)
        BY <2>3, <4>1, EmittedValues DEF Suggestions
      <4>2. CASE \E c \in Calls : item = Item(c, "metric", record[c])
        BY <2>3, <4>2 DEF Suggestions, Item
      <4>3. QED BY <3>2, <4>1, <4>2, NewOnWire
    <3>3. QED BY <3>1, <3>2
  <2>4. QED BY <2>1, <2>2, <2>3 DEF Suggestions, SuggestionRegistered
<1>3. QED BY <1>1, <1>2, ControlCorrect, ChannelCorrect, PermitsCorrect, SessionsCorrect,
          WaitingCorrect, PTL DEF Spec, Known

\* SuggestionRegistered: a suggestion reaches the wire only if the CLI has
\* registered that command, whatever the host passes.
THEOREM SuggestionsAreCommands == Spec => []SuggestionRegistered
<1>1. Suggestions => SuggestionRegistered
  BY DEF Suggestions
<1>2. QED BY <1>1, SuggestionsCorrect, PTL
-----------------------------------------------------------------------------
(* The install ID.                                                         *)

\* Every install ID in a record or on the wire is the Client's.
Installs ==
    /\ \A c \in Calls : record[c].install # None => record[c].install = installID
    /\ \A item \in wire : item.body.install # None => item.body.install = installID

\* The install ID is set once, and only where the tier allows it.
LEMMA InstallIDOnce ==
    ASSUME Control, [Next]_vars
    PROVE  \/ UNCHANGED installID
           \/ /\ installID = None /\ Allows(TierBasic) /\ installID' # None
              /\ UNCHANGED <<pc, op, record, wire, installBefore>>
<1> USE DEF install
<1>1. CASE LoadInstallID
  BY <1>1, NamesAssumption DEF LoadInstallID, NeedsInstallID, began
<1>2. ASSUME NEW c \in Calls, Step(c) PROVE UNCHANGED installID
  BY <1>2, StepFrame
<1>3. ASSUME NEW c \in Calls, NEW o \in Operations, Begin(c, o) PROVE UNCHANGED installID
  BY <1>3 DEF Begin
<1>4. CASE TakeJob \/ RunJob \/ Close \/ Terminated \/ UNCHANGED vars
  BY <1>4 DEF TakeJob, RunJob, Close, Terminated, vars
<1>5. QED BY <1>1, <1>2, <1>3, <1>4 DEF Next, Worker

THEOREM InstallsCorrect == Spec => []Installs
<1>1. Init => Installs
  BY DEF Init, Installs, Empty
<1>2. Known /\ Waiting /\ Installs /\ [Next]_vars => Installs'
  <2> SUFFICES ASSUME Known, Waiting, Installs, [Next]_vars PROVE Installs'
    OBVIOUS
  <2>0. Control /\ Channel
    BY DEF Known
  <2>1. CASE installID' # installID
    BY <2>0, <2>1, InstallIDOnce DEF Installs
  <2>2. CASE installID' = installID
    <3>1. \A c \in Calls : record'[c].install \in {None, record[c].install, installID}
      <4>1. ASSUME NEW c \in Calls, NEW o \in Operations, Begin(c, o)
            PROVE  \A d \in Calls : record'[d].install \in {None, record[d].install}
        BY <2>0, <4>1, BeginFrame, GatheredType
      <4>2. ASSUME NEW c \in Calls, Step(c)
            PROVE  \A d \in Calls : record'[d].install \in {record[d].install, installID}
        BY <2>0, <4>2, StepFrame, RecordValues
      <4>3. CASE Worker \/ Close \/ Terminated \/ UNCHANGED vars
        BY <2>0, <4>3, WorkerFrame
      <4>4. QED BY <4>1, <4>2, <4>3 DEF Next
    <3>2. ASSUME NEW item \in wire', item.body.install # None PROVE item.body.install = installID
      <4>1. CASE item \in wire
        BY <3>2, <4>1 DEF Installs
      <4>2. CASE item \notin wire
        <5>1. CASE running \in Calls /\ item \in Emitted(running) /\ Sendable(running)
          BY <3>2, <5>1, EmittedValues DEF Installs
        <5>2. CASE \E c \in Calls : item = Item(c, "metric", record[c])
          BY <3>2, <5>2 DEF Installs, Item
        <5>3. QED BY <4>2, <5>1, <5>2, NewOnWire
      <4>3. QED BY <4>1, <4>2
    <3>3. QED BY <2>2, <3>1, <3>2 DEF Installs
  <2>3. QED BY <2>1, <2>2
<1>3. QED BY <1>1, <1>2, ControlCorrect, ChannelCorrect, PermitsCorrect, SessionsCorrect,
          WaitingCorrect, PTL DEF Spec, Known

\* OneInstall: the worker and the goroutines of metrics attach one install ID.
THEOREM InstallIsOne == Spec => []OneInstall
<1>1. Installs => OneInstall
  BY DEF Installs, OneInstall
<1>2. QED BY <1>1, InstallsCorrect, PTL

-----------------------------------------------------------------------------
(* What a call that began after an event must see of it.                   *)

\* The calls on the wire have begun.
Begun == \A item \in wire : item.call \in Calls /\ pc[item.call] # "idle"

THEOREM BegunCorrect == Spec => []Begun
<1>1. Init => Begun
  BY DEF Init, Begun
<1>2. Known /\ Waiting /\ Begun /\ [Next]_vars => Begun'
  <2> SUFFICES ASSUME Known, Waiting, Begun, [Next]_vars PROVE Begun'
    OBVIOUS
  <2>1. \A c \in Calls : pc[c] # "idle" => pc'[c] # "idle"
    BY CallsGoOn DEF Known
  <2>2. ASSUME NEW item \in wire', item \notin wire
        PROVE  item.call \in Calls /\ pc[item.call] # "idle"
    <3>1. CASE running \in Calls /\ item \in Emitted(running) /\ Sendable(running)
      BY <3>1, EmittedValues DEF Sendable
    <3>2. CASE \E c \in Calls : EmitMetric(c) /\ item = Item(c, "metric", record[c])
      BY <3>2 DEF EmitMetric, Item
    <3>3. QED BY <2>2, <3>1, <3>2, NewOnWire
  <2>3. QED BY <2>1, <2>2 DEF Begun
<1>3. QED BY <1>1, <1>2, ControlCorrect, ChannelCorrect, PermitsCorrect, SessionsCorrect,
          WaitingCorrect, PTL DEF Spec, Known

\* What a metric attaches of a loaded install ID.
Attached == IF installID = NoID THEN None ELSE installID

\* The places where a metric has yet to look at the install ID, and those
\* where it has.
Before(c) ==
    \/ op[c].kind = "handle" /\ pc[c] \in {"command", "install"}
    \/ op[c].kind = "counter" /\ pc[c] = "install"

After(c) ==
    \/ op[c].kind = "handle" /\ pc[c] = "emit"
    \/ op[c].kind = "counter" /\ pc[c] \in {"command", "emit"}

Visible ==
    /\ installBefore # {} => installID # None
    /\ installID # None => Allows(TierBasic)
    /\ \A c \in Calls : Before(c) => record[c].install = None
    /\ \A c \in installBefore : pc[c] # "load" /\ (After(c) => record[c].install = Attached)
    /\ MetricsSeeInstallID

THEOREM VisibleCorrect == Spec => []Visible
<1> USE NamesAssumption
<1>1. Init => Visible
  BY DEF Init, Visible, Before, MetricsSeeInstallID
<1>2. Known /\ Waiting /\ Begun /\ Visible /\ [Next]_vars => Visible'
  <2> SUFFICES ASSUME Known, Waiting, Begun, Visible, [Next]_vars PROVE Visible'
    OBVIOUS
  <2>0. Control /\ Channel /\ tier' = tier
    BY CallsGoOn DEF Known
  <2>1. CASE installID' # installID
    <3>1. /\ installID = None /\ Allows(TierBasic) /\ installID' # None
          /\ UNCHANGED <<pc, op, record, wire, installBefore>>
      BY <2>0, <2>1, InstallIDOnce
    <3>2. installBefore' = {}
      BY <3>1 DEF Visible
    <3>3. \A c \in Calls : Before(c)' => record'[c].install = None
      BY <3>1 DEF Visible, Before
    <3>4. Allows(TierBasic)' /\ MetricsSeeInstallID'
      BY <2>0, <3>1, <3>2 DEF Allows, MetricsSeeInstallID
    <3>5. QED BY <3>2, <3>3, <3>4 DEF Visible
  <2>2. CASE installID' = installID
    <3>0. (installID' # None => Allows(TierBasic)') /\ Attached' = Attached
      BY <2>0, <2>2 DEF Visible, Allows, Attached
    <3>1. ASSUME NEW c \in Calls, NEW o \in Operations, Begin(c, o) PROVE Visible'
      <4>1. /\ pc[c] = "idle" /\ o \in AllOperations /\ op'[c] = o
            /\ \A d \in Calls : d # c => pc'[d] = pc[d] /\ op'[d] = op[d] /\ record'[d] = record[d]
            /\ wire' = wire
            /\ \/ pc'[c] \in {"ignored", "belowTier"}
               \/ pc'[c] = First(o) /\ record'[c].install = None
        BY <2>0, <3>1, BeginFrame, GatheredType
      <4>2. installBefore' = (IF installID # None THEN installBefore \cup {c} ELSE installBefore)
        BY <3>1 DEF Begin
      <4>3. Before(c)' => record'[c].install = None
        BY <4>1 DEF Before
      <4>4. pc'[c] # "load" /\ ~After(c)'
        BY <4>1, OperationFacts DEF After, First, FirstOfHandle
      <4>5. \A d \in Calls : Before(d)' => record'[d].install = None
        BY <4>1, <4>3 DEF Before, Visible
      <4>6. \A d \in installBefore' : pc'[d] # "load" /\ (After(d)' => record'[d].install = Attached)
        <5> SUFFICES ASSUME NEW d \in installBefore', d # c
                     PROVE  pc'[d] # "load" /\ (After(d)' => record'[d].install = Attached)
          BY <4>4
        <5>1. d \in installBefore /\ d \in Calls
          BY <2>0, <4>2 DEF Control, Shape
        <5>2. QED BY <4>1, <5>1 DEF Visible, After
      <4>7. MetricsSeeInstallID'
        BY <2>2, <4>1, <4>2 DEF Begun, Visible, MetricsSeeInstallID
      <4>8. installBefore' # {} => installID' # None
        BY <2>2, <4>2 DEF Visible
      <4>9. QED BY <3>0, <4>5, <4>6, <4>7, <4>8 DEF Visible
    <3>2. ASSUME UNCHANGED <<op, installBefore>>,
                 \A d \in Calls : Before(d)' => record'[d].install = None,
                 \A d \in installBefore : pc'[d] # "load" /\ (After(d)' => record'[d].install = Attached)
          PROVE  Visible'
      <4>1. ASSUME NEW item \in wire', item.signal = "metric", item.call \in installBefore
            PROVE  item.body.install = Attached
        <5>1. CASE item \in wire
          BY <4>1, <5>1 DEF Visible, MetricsSeeInstallID, Attached
        <5>2. CASE item \notin wire
          <6>1. PICK c \in Calls : EmitMetric(c) /\ item = Item(c, "metric", record[c])
            BY <4>1, <5>2, NewOnWire, EmittedValues
          <6>2. After(c)
            BY <2>0, <6>1 DEF EmitMetric, After, Control, Routed, Route
          <6>3. QED BY <4>1, <6>1, <6>2 DEF Visible, Item
        <5>3. QED BY <5>1, <5>2
      <4>2. MetricsSeeInstallID'
        BY <2>2, <3>2, <4>1 DEF MetricsSeeInstallID, Attached
      <4>3. installBefore' # {} => installID' # None
        BY <2>2, <3>2 DEF Visible
      <4>4. QED BY <3>0, <3>2, <4>2, <4>3 DEF Visible
    <3>3. ASSUME NEW c \in Calls, Step(c) PROVE Visible'
      <4>1. /\ UNCHANGED <<op, installBefore>> /\ installBefore \subseteq Calls
            /\ \A d \in Calls : d # c => pc'[d] = pc[d] /\ record'[d] = record[d]
        BY <2>0, <3>3, StepFrame DEF began, Control, Shape
      <4>2. Before(c)' => record'[c].install = None
        <5>1. CASE ReadCommand(c)
          <6>1. record'[c].install = record[c].install
            BY <2>0, <3>3, <5>1, RecordValues DEF ReadCommand, MetricInstall
          <6>2. Before(c)' => Before(c)
            BY <2>0, <4>1, <5>1 DEF ReadCommand, Before, Goto, Control, Shape
          <6>3. QED BY <6>1, <6>2 DEF Visible
        <5>2. CASE ~ReadCommand(c)
          <6>1. ~Before(c)'
            BY <2>0, <3>3, <4>1, <5>2 DEF Step, ClaimSession, ClaimFeature, StoreCommand, SetKnownCommands,
               KnownCommand, LoadSession, GenerateSession, Dispatch, MetricInstall, DispatchLoad, EmitMetric,
               AfterInstall, Before, Goto, Control, Shape
          <6>2. QED BY <6>1
        <5>3. QED BY <5>1, <5>2
      <4>3. ASSUME c \in installBefore
            PROVE  pc'[c] # "load" /\ (After(c)' => record'[c].install = Attached)
        <5>1. installID # None /\ Allows(TierBasic) /\ pc[c] # "load" /\ ~DispatchLoad(c)
          BY <4>3 DEF Visible, DispatchLoad
        <5>2. CASE MetricInstall(c)
          <6>1. /\ pc' = [pc EXCEPT ![c] = AfterInstall(c)]
                /\ record' = IF installID # NoID
                               THEN [record EXCEPT ![c] =
                                       [record[c] EXCEPT !.fields = @ \cup {"install"}, !.install = installID]]
                               ELSE record
            BY <5>1, <5>2 DEF MetricInstall, Goto
          <6>2. record[c].install = None /\ record[c] \in Records /\ record \in [Calls -> Records]
            BY <2>0, <5>2 DEF MetricInstall, Visible, Before, Control, Routed, Route, Shape
          <6>3. record'[c].install = Attached
            <7> DEFINE r == [record[c] EXCEPT !.fields = @ \cup {"install"}, !.install = installID]
            <7>1. r.install = installID
              BY <6>2 DEF Records
            <7> HIDE DEF r
            <7>2. record' = IF installID # NoID THEN [record EXCEPT ![c] = r] ELSE record
              BY <6>1 DEF r
            <7>3. QED BY <6>2, <7>1, <7>2 DEF Attached
          <6>4. QED BY <2>0, <6>1, <6>3 DEF AfterInstall, Control, Shape
        <5>3. CASE ReadCommand(c)
          <6>1. record'[c].install = record[c].install
            BY <2>0, <3>3, <5>3, RecordValues DEF ReadCommand, MetricInstall
          <6>2. pc'[c] # "load" /\ (After(c)' => After(c))
            BY <2>0, <4>1, <5>3 DEF ReadCommand, After, Goto, Control, Shape, Routed, Route
          <6>3. QED BY <4>3, <6>1, <6>2 DEF Visible
        <5>4. CASE ~MetricInstall(c) /\ ~ReadCommand(c)
          BY <2>0, <3>3, <4>1, <5>1, <5>4 DEF Step, ClaimSession, ClaimFeature, StoreCommand, SetKnownCommands,
             KnownCommand, LoadSession, GenerateSession, Dispatch, EmitMetric,
             After, Goto, Control, Shape
        <5>5. QED BY <5>2, <5>3, <5>4
      <4>4. \A d \in Calls : Before(d)' => record'[d].install = None
        BY <4>1, <4>2 DEF Before, Visible
      <4>5. \A d \in installBefore : pc'[d] # "load" /\ (After(d)' => record'[d].install = Attached)
        BY <4>1, <4>3 DEF After, Visible
      <4>6. QED BY <3>2, <4>1, <4>4, <4>5
    <3>4. CASE Worker \/ Close \/ Terminated \/ UNCHANGED vars
      <4>1. /\ UNCHANGED <<op, installBefore, record>> /\ installBefore \subseteq Calls
            /\ \A d \in Calls : pc'[d] = pc[d] \/ pc'[d] = "sent"
        BY <2>0, <3>4, WorkerFrame DEF began, Control, Shape
      <4>2. \A d \in Calls : (Before(d)' => Before(d)) /\ (After(d)' => After(d))
        BY <4>1 DEF Before, After
      <4>3. QED BY <3>2, <4>1, <4>2 DEF Visible
    <3>5. QED BY <3>1, <3>3, <3>4 DEF Next
  <2>3. QED BY <2>1, <2>2
<1>3. QED BY <1>1, <1>2, ControlCorrect, ChannelCorrect, PermitsCorrect, SessionsCorrect,
          WaitingCorrect, BegunCorrect, PTL DEF Spec, Known

\* MetricsSeeInstallID: once the worker has published the install ID, every
\* metric that begins carries it.
THEOREM PublishedIsSeen == Spec => []MetricsSeeInstallID
<1>1. Visible => MetricsSeeInstallID
  BY DEF Visible
<1>2. QED BY <1>1, VisibleCorrect, PTL
-----------------------------------------------------------------------------
(* The command.                                                            *)

\* The calls that have stored the current command, and those that have read it.
Stored(c) ==
    /\ op[c] # None /\ op[c].kind = "invoked"
    /\ pc[c] \in {"session", "generate", "dispatch", "queued", "dropped", "sent"}

HasRead(c) ==
    \/ op[c].kind = "feature" /\ pc[c] \in {"session", "generate", "dispatch", "queued", "sent"}
    \/ op[c].kind = "counter" /\ pc[c] = "emit"
    \/ op[c].kind = "handle" /\ pc[c] \in {"install", "load", "emit"}

Attribution ==
    /\ \A c \in Calls : Stored(c) => currentCommand # None
    /\ commandBefore # {} => currentCommand # None
    /\ \A c \in commandBefore : HasRead(c) => record[c].command # None
    /\ Attributed

\* The current command is never taken back.
LEMMA CommandStays ==
    ASSUME Control, [Next]_vars
    PROVE  currentCommand # None => currentCommand' # None
<1> USE DEF shared
<1>1. ASSUME NEW c \in Calls, StoreCommand(c) PROVE currentCommand' # None
  <2>1. op[c].command \in Commands
    BY <1>1, OperationFacts DEF StoreCommand, Control, Routed, Route
  <2>2. QED BY <1>1, <2>1, NamesAssumption DEF StoreCommand
<1>2. ASSUME NEW c \in Calls, Step(c), ~StoreCommand(c) PROVE UNCHANGED currentCommand
  BY <1>2 DEF Step, ClaimSession, ClaimFeature, SetKnownCommands, KnownCommand, ReadCommand,
       LoadSession, GenerateSession, Dispatch, MetricInstall, DispatchLoad, EmitMetric
<1>3. ASSUME NEW c \in Calls, NEW o \in Operations, Begin(c, o) PROVE UNCHANGED currentCommand
  BY <1>3 DEF Begin
<1>4. CASE Worker \/ Close \/ Terminated \/ UNCHANGED vars
  BY <1>4 DEF Worker, TakeJob, LoadInstallID, RunJob, Close, Terminated, vars
<1>5. QED BY <1>1, <1>2, <1>3, <1>4 DEF Next

\* A step of a call comes to have stored, or to have read, the command only
\* from a place where it had, or by storing or reading it.
LEMMA CommandPlaces ==
    ASSUME Control, NEW c \in Calls, Step(c)
    PROVE  /\ Stored(c)' => Stored(c) \/ StoreCommand(c)
           /\ HasRead(c)' => HasRead(c) \/ ReadCommand(c)
<1>1. op' = op
  BY StepFrame DEF began
<1>2. Route(op[c], pc[c]) /\ pc \in [Calls -> Places]
  BY DEF Control, Routed, Shape
<1> USE DEF Goto, Route
<1>3. CASE ClaimSession(c)
  BY <1>1, <1>2, <1>3 DEF ClaimSession, Stored, HasRead
<1>4. CASE ClaimFeature(c)
  BY <1>1, <1>2, <1>4 DEF ClaimFeature, Stored, HasRead
<1>5. CASE StoreCommand(c)
  BY <1>1, <1>2, <1>5 DEF StoreCommand, Stored, HasRead
<1>6. CASE SetKnownCommands(c)
  BY <1>1, <1>2, <1>6 DEF SetKnownCommands, Stored, HasRead
<1>7. CASE KnownCommand(c)
  BY <1>1, <1>2, <1>7 DEF KnownCommand, Stored, HasRead
<1>8. CASE ReadCommand(c)
  BY <1>1, <1>2, <1>8 DEF ReadCommand, Stored, HasRead
<1>9. CASE LoadSession(c)
  BY <1>1, <1>2, <1>9 DEF LoadSession, Stored, HasRead
<1>10. CASE GenerateSession(c)
  BY <1>1, <1>2, <1>10 DEF GenerateSession, Stored, HasRead
<1>11. CASE Dispatch(c)
  BY <1>1, <1>2, <1>11 DEF Dispatch, Stored, HasRead
<1>12. CASE MetricInstall(c)
  <2>1. op[c].kind \in {"counter", "handle"} /\ pc'[c] \in {"load", "emit", "invalid", "command"}
    BY <1>2, <1>12 DEF MetricInstall, AfterInstall
  <2>2. op[c].kind = "counter" => pc'[c] # "emit"
    BY <1>2, <1>12 DEF MetricInstall, AfterInstall
  <2>3. op[c].kind = "handle" => HasRead(c)
    BY <1>12 DEF MetricInstall, HasRead
  <2>4. QED BY <1>1, <2>1, <2>2, <2>3 DEF Stored, HasRead
<1>13. CASE DispatchLoad(c)
  <2>1. op[c].kind \in {"counter", "handle"} /\ pc'[c] \in {"emit", "invalid", "command"}
    BY <1>2, <1>13 DEF DispatchLoad, AfterInstall
  <2>2. op[c].kind = "counter" => pc'[c] # "emit"
    BY <1>2, <1>13 DEF DispatchLoad, AfterInstall
  <2>3. op[c].kind = "handle" => HasRead(c)
    BY <1>13 DEF DispatchLoad, HasRead
  <2>4. QED BY <1>1, <2>1, <2>2, <2>3 DEF Stored, HasRead
<1>14. CASE EmitMetric(c)
  BY <1>1, <1>2, <1>14 DEF EmitMetric, Stored, HasRead
<1>15. QED BY <1>3, <1>4, <1>5, <1>6, <1>7, <1>8, <1>9, <1>10, <1>11, <1>12, <1>13, <1>14 DEF Step

THEOREM AttributionCorrect == Spec => []Attribution
<1> USE NamesAssumption
<1>1. Init => Attribution
  BY DEF Init, Attribution, Stored, Attributed
<1>2. Known /\ Waiting /\ Begun /\ Attribution /\ [Next]_vars => Attribution'
  <2> SUFFICES ASSUME Known, Waiting, Begun, Attribution, [Next]_vars PROVE Attribution'
    OBVIOUS
  <2>0. Control /\ Channel /\ (currentCommand # None => currentCommand' # None)
    BY CommandStays DEF Known
  <2>1. ASSUME NEW c \in Calls, NEW o \in Operations, Begin(c, o) PROVE Attribution'
    <3>1. /\ pc[c] = "idle" /\ o \in AllOperations /\ op'[c] = o
          /\ \A d \in Calls : d # c => pc'[d] = pc[d] /\ op'[d] = op[d] /\ record'[d] = record[d]
          /\ wire' = wire /\ pc'[c] \in {"ignored", "belowTier", First(o)}
      BY <2>0, <2>1, BeginFrame
    <3>2. \/ commandBefore' = commandBefore
          \/ commandBefore' = commandBefore \cup {c} /\ \E d \in Calls : Stored(d)
      BY <2>1 DEF Begin, Stored
    <3>3. commandBefore' # {} => currentCommand # None
      BY <3>2 DEF Attribution
    <3>4. ~Stored(c)' /\ ~HasRead(c)'
      <4>1. /\ o.kind = "invoked" => First(o) = "store"
            /\ o.kind = "feature" => First(o) = "claim"
            /\ o.kind = "counter" => First(o) = "install"
            /\ o.kind = "handle" => First(o) \in {"command", "invalid"}
        BY DEF First, FirstOfHandle
      <4>2. QED BY <3>1, <4>1 DEF Stored, HasRead
    <3>5. \A d \in Calls : Stored(d)' => Stored(d)
      BY <3>1, <3>4 DEF Stored
    <3>6. \A d \in commandBefore' : HasRead(d)' => record'[d].command # None
      <4> SUFFICES ASSUME NEW d \in commandBefore', d # c, HasRead(d)' PROVE record'[d].command # None
        BY <3>4
      <4>1. d \in commandBefore /\ d \in Calls
        BY <2>0, <3>2 DEF Control, Shape
      <4>2. QED BY <3>1, <4>1 DEF Attribution, HasRead
    <3>7. Attributed'
      BY <3>1, <3>2 DEF Begun, Attribution, Attributed
    <3>8. QED BY <2>0, <3>3, <3>5, <3>6, <3>7 DEF Attribution
  <2>2. ASSUME UNCHANGED commandBefore,
               \A d \in Calls : Stored(d)' => Stored(d) \/ currentCommand' # None,
               \A d \in commandBefore : HasRead(d)' => record'[d].command # None
        PROVE  Attribution'
    <3>1. ASSUME NEW item \in wire', item.signal \in {"feature.activated", "metric"},
                 item.call \in commandBefore
          PROVE  item.body.command # None
      <4>1. CASE item \in wire
        BY <3>1, <4>1 DEF Attribution, Attributed
      <4>2. CASE item \notin wire
        <5>1. CASE /\ running \in Calls /\ item \in Emitted(running)
                   /\ pc[running] \in {"queued", "sent"} /\ Sendable(running)
          <6>1. /\ item.call = running /\ item.body.command = record[running].command
                /\ op[running].kind = "feature"
            BY <3>1, <5>1, EmittedValues
          <6>2. HasRead(running)
            BY <5>1, <6>1 DEF HasRead
          <6>3. QED BY <3>1, <6>1, <6>2 DEF Attribution
        <5>2. ASSUME NEW c \in Calls, EmitMetric(c), item = Item(c, "metric", record[c])
              PROVE  item.body.command # None
          <6>1. HasRead(c)
            BY <2>0, <5>2 DEF EmitMetric, HasRead, Control, Routed, Route
          <6>2. QED BY <3>1, <5>2, <6>1 DEF Attribution, Item
        <5>3. QED BY <4>2, <5>1, <5>2, NewOnWire
      <4>3. QED BY <4>1, <4>2
    <3>2. Attributed'
      BY <2>2, <3>1 DEF Attributed
    <3>3. QED BY <2>0, <2>2, <3>2 DEF Attribution
  <2>3. ASSUME NEW c \in Calls, Step(c) PROVE Attribution'
    <3>1. /\ UNCHANGED <<op, commandBefore>> /\ commandBefore \subseteq Calls
          /\ \A d \in Calls : d # c => pc'[d] = pc[d] /\ record'[d] = record[d]
      BY <2>0, <2>3, StepFrame DEF began, Control, Shape
    <3>2. StoreCommand(c) => currentCommand' # None
      <4> SUFFICES ASSUME StoreCommand(c) PROVE currentCommand' # None
        OBVIOUS
      <4>1. op[c].command \in Commands
        BY <2>0, OperationFacts DEF StoreCommand, Control, Routed, Route
      <4>2. QED BY <4>1 DEF StoreCommand
    <3>3. \A d \in Calls : Stored(d)' => Stored(d) \/ currentCommand' # None
      <4>1. \A d \in Calls : d # c => (Stored(d)' => Stored(d))
        BY <3>1 DEF Stored
      <4>2. QED BY <2>0, <2>3, <3>2, <4>1, CommandPlaces
    <3>4. ASSUME c \in commandBefore, HasRead(c)' PROVE record'[c].command # None
      <4>1. currentCommand # None
        BY <3>4 DEF Attribution
      <4>2. CASE ReadCommand(c)
        <5> DEFINE r == [record[c] EXCEPT !.fields = @ \cup {"command"}, !.command = currentCommand]
        <5>1. r.command = currentCommand
          BY <2>0 DEF Control, Shape, Records
        <5>2. record' = [record EXCEPT ![c] = r]
          BY <4>1, <4>2 DEF ReadCommand
        <5> HIDE DEF r
        <5>3. QED BY <2>0, <4>1, <5>1, <5>2 DEF Control, Shape
      <4>3. CASE ~ReadCommand(c)
        <5>1. HasRead(c) /\ record'[c].command = record[c].command
          BY <2>0, <2>3, <3>4, <4>3, CommandPlaces, RecordValues
        <5>2. QED BY <3>4, <5>1 DEF Attribution
      <4>4. QED BY <4>2, <4>3
    <3>5. \A d \in commandBefore : HasRead(d)' => record'[d].command # None
      BY <3>1, <3>4 DEF HasRead, Attribution
    <3>6. QED BY <2>2, <3>1, <3>3, <3>5
  <2>4. CASE Worker \/ Close \/ Terminated \/ UNCHANGED vars
    <3>1. /\ UNCHANGED <<op, commandBefore, record>> /\ commandBefore \subseteq Calls
          /\ \A d \in Calls : pc'[d] = pc[d] \/ (pc[d] \in {"queued", "sent"} /\ pc'[d] = "sent")
      BY <2>0, <2>4, WorkerFrame DEF began, Control, Shape
    <3>2. \A d \in Calls : (Stored(d)' => Stored(d)) /\ (HasRead(d)' => HasRead(d))
      BY <3>1 DEF Stored, HasRead
    <3>3. QED BY <2>2, <3>1, <3>2 DEF Attribution
  <2>5. QED BY <2>1, <2>3, <2>4 DEF Next
<1>3. QED BY <1>1, <1>2, ControlCorrect, ChannelCorrect, PermitsCorrect, SessionsCorrect,
          WaitingCorrect, BegunCorrect, PTL DEF Spec, Known

\* Attributed: a feature or a metric that begins after an invocation has
\* returned names a command, even if the queue dropped the invocation.
THEOREM CommandIsAttributed == Spec => []Attributed
<1>1. Attribution => Attributed
  BY DEF Attribution
<1>2. QED BY <1>1, AttributionCorrect, PTL
-----------------------------------------------------------------------------
(* The counters.                                                           *)

At(place) == {c \in Calls : pc[c] = place}

\* One call at most is about to ask for the install ID, and it is the first.
Counts ==
    /\ \A c \in At("load") : installLoading /\ ~loadDropped
    /\ \A c, d \in At("load") : c = d
    /\ loadDropped => installLoading
    /\ DropsCounted

\* A call that leaves for a place adds one to the calls there.
LEMMA OneMore ==
    ASSUME Control, NEW c \in Calls, NEW place, pc'[c] = place, pc[c] # place,
           \A d \in Calls : d # c => pc'[d] = pc[d]
    PROVE  Cardinality(At(place)') = Cardinality(At(place)) + 1 /\ Cardinality(At(place)) \in Nat
<1>1. At(place) \subseteq Calls /\ IsFiniteSet(At(place)) /\ c \notin At(place)
  BY FiniteCalls, FS_Subset DEF At
<1>2. At(place)' = At(place) \cup {c}
  BY DEF At
<1>3. QED BY <1>1, <1>2, FS_AddElement, FS_CardinalityType

\* A step in which no call arrives at a place or leaves it.
LEMMA NoneMore ==
    ASSUME NEW place, \A c \in Calls : (pc'[c] = place) <=> (pc[c] = place)
    PROVE  At(place)' = At(place)
BY DEF At

\* A step that sends no call to a place where calls are counted, and none to
\* ask for the install ID, keeps the counts.
LEMMA CountsFrame ==
    ASSUME Counts, UNCHANGED <<belowTier, overflow, loadDropped, installLoading>>,
           \A c \in Calls : \A place \in {"belowTier", "dropped"} : (pc'[c] = place) <=> (pc[c] = place),
           \A c \in Calls : pc'[c] = "load" => pc[c] = "load"
    PROVE  Counts'
<1>1. At("belowTier")' = At("belowTier") /\ At("dropped")' = At("dropped")
  BY NoneMore
<1>2. At("load")' \subseteq At("load")
  BY DEF At
<1>3. DropsCounted'
  BY <1>1 DEF Counts, DropsCounted, At
<1>4. QED BY <1>2, <1>3 DEF Counts

THEOREM CountsCorrect == Spec => []Counts
<1>1. Init => Counts
  <2> SUFFICES ASSUME Init PROVE Counts
    OBVIOUS
  <2>1. \A place : place # "idle" => At(place) = {}
    BY DEF Init, At
  <2>2. At("belowTier") = {} /\ At("dropped") = {} /\ At("load") = {}
    BY <2>1
  <2>3. DropsCounted
    <3>1. belowTier = 0 /\ overflow = 0 /\ ~loadDropped
      BY DEF Init
    <3>2. Cardinality(At("belowTier")) = 0 /\ Cardinality(At("dropped")) = 0
      BY <2>2, FS_EmptySet
    <3>3. QED BY <3>1, <3>2 DEF DropsCounted, At
  <2>4. loadDropped = FALSE
    BY DEF Init
  <2>5. QED BY <2>2, <2>3, <2>4 DEF Counts
<1>2. Control /\ Channel /\ Waiting /\ Counts /\ [Next]_vars => Counts'
  <2> SUFFICES ASSUME Control, Channel, Waiting, Counts, [Next]_vars PROVE Counts'
    OBVIOUS
  <2>1. ASSUME NEW c \in Calls, NEW o \in Operations, Begin(c, o) PROVE Counts'
    <3>1. /\ pc[c] = "idle" /\ o \in AllOperations
          /\ \A d \in Calls : d # c => pc'[d] = pc[d]
          /\ UNCHANGED <<overflow, loadDropped, installLoading>>
      BY <2>1, BeginFrame DEF queue, install
    <3>2. First(o) \notin {"belowTier", "dropped", "load"}
      BY <3>1, OperationFacts DEF First, FirstOfHandle
    <3>3. \/ pc'[c] = "belowTier" /\ belowTier' = belowTier + 1
          \/ pc'[c] \in {"ignored", First(o)} /\ belowTier' = belowTier
      BY <2>1 DEF Begin, Goto, Control, Shape
    <3>4. CASE pc'[c] = "belowTier" /\ belowTier' = belowTier + 1
      <4>1. Cardinality(At("belowTier")') = Cardinality(At("belowTier")) + 1
        BY <3>1, <3>4, OneMore
      <4>2. At("dropped")' = At("dropped") /\ At("load")' = At("load")
        BY <3>1, <3>4 DEF At
      <4>3. DropsCounted'
        BY <3>1, <3>4, <4>1, <4>2 DEF Counts, DropsCounted, At
      <4>4. QED BY <3>1, <4>2, <4>3 DEF Counts
    <3>5. CASE pc'[c] \in {"ignored", First(o)} /\ belowTier' = belowTier
      BY <3>1, <3>2, <3>5, CountsFrame
    <3>6. QED BY <3>3, <3>4, <3>5
  <2>2. ASSUME NEW c \in Calls, Dispatch(c) PROVE Counts'
    <3>1. /\ pc[c] = "dispatch" /\ \A d \in Calls : d # c => pc'[d] = pc[d]
          /\ UNCHANGED <<belowTier, loadDropped, installLoading>>
      BY <2>2 DEF Dispatch, Goto, queue, install, began, Control, Shape
    <3>2. CASE closed \/ HasRoom
      <4>1. pc'[c] \in {"ignored", "queued"} /\ overflow' = overflow
        BY <2>2, <3>2 DEF Dispatch, Enqueue, Goto, queue, Control, Shape
      <4>2. QED BY <3>1, <4>1, CountsFrame
    <3>3. CASE ~closed /\ ~HasRoom
      <4>1. pc'[c] = "dropped" /\ overflow' = overflow + 1
        BY <2>2, <3>3 DEF Dispatch, Enqueue, Goto, Control, Shape
      <4>2. Cardinality(At("dropped")') = Cardinality(At("dropped")) + 1 /\ Cardinality(At("dropped")) \in Nat
        BY <3>1, <4>1, OneMore
      <4>3. At("belowTier")' = At("belowTier") /\ At("load")' = At("load")
        BY <3>1, <4>1 DEF At
      <4>4. DropsCounted'
        BY <3>1, <4>1, <4>2, <4>3 DEF Counts, DropsCounted, At
      <4>5. QED BY <3>1, <4>3, <4>4 DEF Counts
    <3>4. QED BY <3>2, <3>3
  <2>3. ASSUME NEW c \in Calls, MetricInstall(c) PROVE Counts'
    <3>1. /\ pc[c] = "install" /\ \A d \in Calls : d # c => pc'[d] = pc[d]
          /\ UNCHANGED <<belowTier, overflow, loadDropped>>
      BY <2>3 DEF MetricInstall, Goto, queue, began, Control, Shape
    <3>2. CASE pc'[c] = "load" /\ installLoading' = TRUE /\ ~installLoading
      <4>1. At("load") = {} /\ ~loadDropped
        BY <3>2 DEF Counts
      <4>2. At("load")' = {c} /\ At("dropped")' = At("dropped") /\ At("belowTier")' = At("belowTier")
        BY <3>1, <3>2, <4>1 DEF At
      <4>3. DropsCounted'
        BY <3>1, <4>2 DEF Counts, DropsCounted, At
      <4>4. QED BY <3>1, <3>2, <4>1, <4>2, <4>3 DEF Counts
    <3>3. CASE ~(pc'[c] = "load" /\ installLoading' = TRUE /\ ~installLoading)
      <4>1. pc' = [pc EXCEPT ![c] = AfterInstall(c)] /\ UNCHANGED installLoading
        BY <2>3, <3>3 DEF MetricInstall, Goto, Control, Shape
      <4>2. pc'[c] \in {"emit", "invalid", "command"}
        BY <4>1 DEF AfterInstall, Control, Shape
      <4>3. QED BY <3>1, <4>1, <4>2, CountsFrame
    <3>4. QED BY <3>2, <3>3
  <2>4. ASSUME NEW c \in Calls, DispatchLoad(c) PROVE Counts'
    <3>1. /\ pc[c] = "load" /\ \A d \in Calls : d # c => pc'[d] = pc[d]
          /\ pc'[c] \in {"emit", "invalid", "command"}
          /\ UNCHANGED <<belowTier, installLoading>>
      BY <2>4 DEF DispatchLoad, AfterInstall, Goto, queue, install, began, Control, Shape
    <3>2. CASE closed \/ HasRoom
      <4>1. UNCHANGED overflow
        BY <2>4, <3>2 DEF DispatchLoad, Enqueue, queue
      <4>2. UNCHANGED loadDropped
        <5>1. ~loadDropped /\ loadDropped \in BOOLEAN
          BY <3>1 DEF Counts, At, Control, Shape
        <5>2. CASE closed
          BY <2>4, <5>2 DEF DispatchLoad, queue
        <5>3. CASE ~closed
          <6>1. loadDropped' = ~HasRoom
            BY <2>4, <5>3 DEF DispatchLoad
          <6>2. loadDropped' = FALSE
            BY <3>2, <5>3, <6>1
          <6>3. QED BY <5>1, <6>2
        <5>4. QED BY <5>2, <5>3
      <4>3. QED BY <3>1, <4>1, <4>2, CountsFrame
    <3>3. CASE ~closed /\ ~HasRoom
      <4>1. ~loadDropped /\ installLoading /\ At("load") = {c}
        BY <3>1 DEF Counts, At
      <4>2. overflow' = overflow + 1
        BY <2>4, <3>3 DEF DispatchLoad, Enqueue
      <4>3. loadDropped'
        <5>1. loadDropped' = ~HasRoom
          BY <2>4, <3>3 DEF DispatchLoad
        <5>2. QED BY <3>3, <5>1
      <4>4. At("load")' = {} /\ At("dropped")' = At("dropped") /\ At("belowTier")' = At("belowTier")
        BY <3>1, <4>1 DEF At
      <4>5. Cardinality(At("dropped")) \in Nat
        BY FiniteCalls, FS_Subset, FS_CardinalityType DEF At
      <4>6. DropsCounted'
        <5>1. belowTier = Cardinality(At("belowTier")) /\ overflow = Cardinality(At("dropped"))
          BY <4>1, <4>5 DEF Counts, DropsCounted, At
        <5>2. /\ belowTier' = Cardinality(At("belowTier")')
              /\ overflow' = Cardinality(At("dropped")') + 1
          BY <3>1, <4>2, <4>4, <5>1
        <5>3. QED BY <4>3, <5>2 DEF DropsCounted, At
      <4>7. installLoading'
        BY <3>1, <4>1
      <4>8. QED BY <4>4, <4>6, <4>7 DEF Counts
    <3>4. QED BY <3>2, <3>3
  <2>5. ASSUME NEW c \in Calls, Step(c), ~Dispatch(c), ~MetricInstall(c), ~DispatchLoad(c) PROVE Counts'
    <3>1. /\ UNCHANGED <<belowTier, overflow, loadDropped, installLoading>>
          /\ \A d \in Calls : d # c => pc'[d] = pc[d]
      <4>1. UNCHANGED <<overflow, loadDropped, installLoading>>
        BY <2>5 DEF Step, ClaimSession, ClaimFeature, StoreCommand, SetKnownCommands, KnownCommand,
           ReadCommand, LoadSession, GenerateSession, EmitMetric, queue, install
      <4>2. QED BY <2>5, <4>1, StepFrame DEF began
    <3>2. pc[c] \in Busy \ {"load"}
      BY <2>5 DEF Busy, Step, ClaimSession, ClaimFeature, StoreCommand, SetKnownCommands, KnownCommand,
         ReadCommand, LoadSession, GenerateSession, EmitMetric
    <3>3. pc'[c] \notin {"belowTier", "dropped", "load"}
      <4>1. Route(op[c], pc[c]) /\ pc \in [Calls -> Places]
        BY DEF Control, Routed, Shape
      <4>2. QED BY <2>5, <4>1 DEF Step, ClaimSession, ClaimFeature, StoreCommand, SetKnownCommands,
           KnownCommand, ReadCommand, LoadSession, GenerateSession, EmitMetric, Goto, Route
    <3>4. QED BY <3>1, <3>2, <3>3, CountsFrame DEF Busy
  <2>6. CASE Worker \/ Close \/ Terminated \/ UNCHANGED vars
    <3>1. /\ UNCHANGED <<belowTier, overflow, loadDropped, installLoading>>
          /\ \A c \in Calls : pc'[c] = pc[c] \/ (pc[c] \in {"queued", "sent"} /\ pc'[c] = "sent")
      BY <2>6, WorkerFrame DEF began
    <3>2. QED BY <3>1, CountsFrame
  <2>7. QED BY <2>1, <2>2, <2>3, <2>4, <2>5, <2>6 DEF Next
<1>3. QED BY <1>1, <1>2, ControlCorrect, ChannelCorrect, WaitingCorrect, PTL DEF Spec

\* DropsCounted: Stats counts every record that was given up for its tier or
\* for a full queue, for any number of calls.
THEOREM DropsAreCounted == Spec => []DropsCounted
<1>1. Counts => DropsCounted
  BY DEF Counts
<1>2. QED BY <1>1, CountsCorrect, PTL
=============================================================================
