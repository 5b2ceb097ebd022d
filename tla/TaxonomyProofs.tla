--------------------------- MODULE TaxonomyProofs ---------------------------
(***************************************************************************)
(* Theorems about Taxonomy, for every set of calls, operations, names and  *)
(* install IDs, and every size of the queue.                               *)
(***************************************************************************)
EXTENDS Taxonomy, SequenceTheorems, TLAPS

\* What a call gathers before it touches shared state has no session, install
\* ID or suggestion yet.
LEMMA GatheredType ==
    ASSUME NEW o \in AllOperations
    PROVE  /\ Gathered(o) \in Records
           /\ Gathered(o).session = None /\ Gathered(o).install = None
           /\ Gathered(o).suggestion = None
           /\ Gathered(o).fields = AnonymousPart(o) \cup OptInPart(o) \cup Permitted(TierBasic, BasicPart(o))
<1> DEFINE f == AnonymousPart(o) \cup OptInPart(o) \cup Permitted(TierBasic, BasicPart(o))
           k == IF "command" \in DOMAIN o THEN o.command ELSE None
<1>1. f \subseteq Fields
  BY DEF AnonymousPart, OptInPart, Permitted, BasicPart, Fields, AnonymousFields, BasicFields, OptInFields
<1>2. k \in Commands \cup {None}
  <2>1. CASE \/ o \in [kind : {"sessionStart"}] \/ o \in [kind : {"feature"}, feature : Features]
             \/ o \in [kind : {"setKnown"}, commands : SUBSET Commands]
             \/ o \in [kind : {"unknown"}, suggestion : Commands \cup {None}]
    BY <2>1
  <2>2. CASE \/ o \in [kind : {"counter"}, label : {"none", "valid", "invalid"}]
             \/ o \in [kind : {"handle"}, valid : BOOLEAN]
    BY <2>2
  <2>3. CASE \/ o \in [kind : {"invoked", "completed"}, command : Commands, flags : BOOLEAN]
             \/ o \in [kind : {"help"}, command : Commands]
    BY <2>3
  <2>4. CASE \/ o \in [kind : {"error"}, command : Commands, reason : BOOLEAN]
             \/ o \in [kind : {"detail"}, command : Commands, stack : BOOLEAN]
    BY <2>4
  <2>5. QED BY <2>1, <2>2, <2>3, <2>4 DEF AllOperations
<1>3. Gathered(o) = [Empty EXCEPT !.fields = f, !.command = k]
  BY DEF Gathered
<1> HIDE DEF f, k
<1>4. Empty \in Records
  BY DEF Empty, Records
<1>5. /\ Gathered(o) \in Records /\ Gathered(o).fields = f
      /\ Gathered(o).session = None /\ Gathered(o).install = None
      /\ Gathered(o).suggestion = None
  BY <1>1, <1>2, <1>3, <1>4 DEF Records, Empty
<1>6. QED BY <1>5 DEF f

\* The arguments of the operations that the shared state is written from.
LEMMA OperationFacts ==
    ASSUME NEW o \in AllOperations
    PROVE  /\ o.kind = "invoked" => o.command \in Commands
           /\ o.kind = "feature" => o.feature \in Features
           /\ o.kind = "setKnown" => o.commands \in SUBSET Commands
           /\ o.kind \in {"sessionStart", "invoked", "completed", "feature", "setKnown", "unknown",
                          "help", "error", "detail", "counter", "handle"}
BY DEF AllOperations

-----------------------------------------------------------------------------
\* The types of everything but the queue and the wire.
Shape ==
    /\ tier \in Tiers /\ closed \in BOOLEAN /\ sessionOn \in BOOLEAN
    /\ sessionID \in Calls \cup {None, NoID}
    /\ currentCommand \in Commands \cup {None}
    /\ activated \in SUBSET Features
    /\ knownCommands \in {None} \cup SUBSET Commands
    /\ installLoading \in BOOLEAN /\ loadDropped \in BOOLEAN
    /\ installID \in InstallIDs \cup {None, NoID}
    /\ overflow \in Nat /\ belowTier \in Nat
    /\ pc \in [Calls -> Places]
    /\ op \in [Calls -> AllOperations \cup {None}]
    /\ record \in [Calls -> Records]
    /\ registered \in SUBSET Commands
    /\ commandBefore \in SUBSET Calls /\ installBefore \in SUBSET Calls

\* Where a call may be, by what it calls: past its gate, and only at the steps
\* of its own method.
Route(o, at) ==
    /\ at \notin {"idle", "sent"} => o \in AllOperations
    /\ at \notin {"idle", "sent", "ignored", "belowTier"} => Allows(Gate(o))
    /\ at \in {"session", "generate"} =>
          o.kind \in {"sessionStart", "invoked", "completed", "error", "feature"}
    /\ at \in {"dispatch", "queued"} =>
          o.kind \in {"sessionStart", "invoked", "completed", "error", "feature",
                      "unknown", "help", "detail"}
    /\ at = "lookup" => o.kind = "unknown"
    /\ at = "command" => o.kind \in {"feature", "counter", "handle"}
    /\ at \in {"install", "load", "emit"} => o.kind \in {"counter", "handle"}
    /\ at \in {"lookup", "generate"} => Allows(TierBasic)

Routed == \A c \in Calls : Route(op[c], pc[c])

Control == Shape /\ Routed

\* The types hold initially.
LEMMA ShapeInit == Init => Shape
<1> USE NamesAssumption
<1>1. QED
  <2>1. Empty \in Records
    BY DEF Empty, Records
  <2>2. Init => closed \in BOOLEAN /\ sessionOn \in BOOLEAN /\ installLoading \in BOOLEAN /\ loadDropped \in BOOLEAN
    BY DEF Init
  <2>3. Init => /\ pc \in [Calls -> Places] /\ op \in [Calls -> AllOperations \cup {None}]
                /\ record \in [Calls -> Records]
    BY <2>1 DEF Init, Places
  <2>4. Init => overflow \in Nat /\ belowTier \in Nat
    BY DEF Init
  <2>5. Init => /\ tier \in Tiers /\ sessionID = None /\ currentCommand = None
                /\ activated = {} /\ knownCommands = None /\ installID = None
                /\ registered = {} /\ commandBefore = {} /\ installBefore = {}
    BY DEF Init
  <2>6. QED BY <2>2, <2>3, <2>4, <2>5 DEF Shape

\* Every step keeps the types.
LEMMA ShapeStep == Control /\ [Next]_vars => Shape'
<1> USE NamesAssumption
<1>1. QED
  <2> SUFFICES ASSUME Control, Shape, [Next]_vars PROVE Shape'
    BY DEF Control
  <2> USE DEF shared, install, queue, began, Goto
  <2>1. ASSUME NEW c \in Calls, NEW o \in Operations, Begin(c, o) PROVE Shape'
    <3>1. o \in AllOperations /\ Gathered(o) \in Records
      BY OperationsAssumption, GatheredType
    <3>2. First(o) \in Places
      BY <3>1, OperationFacts DEF First, FirstOfHandle, Places, Ended
    <3>3. op' \in [Calls -> AllOperations \cup {None}] /\ op'[c] = o
          /\ \A d \in Calls : d # c => op'[d] = op[d]
      BY <2>1, <3>1 DEF Begin, Shape
    <3>4. pc' \in [Calls -> Places] /\ \A d \in Calls : d # c => pc'[d] = pc[d]
      BY <2>1, <3>2 DEF Begin, Shape, Places, Ended
    <3>5. record' \in [Calls -> Records] /\ belowTier' \in Nat
      BY <2>1, <3>1 DEF Begin, Shape
    <3>6. commandBefore' \in SUBSET Calls /\ installBefore' \in SUBSET Calls
      BY <2>1 DEF Begin, Shape
    <3>7. UNCHANGED <<tier, closed, shared, install, queue, wire>>
      BY <2>1 DEF Begin
    <3>8. QED BY <3>1, <3>3, <3>4, <3>5, <3>6, <3>7 DEF Shape
  <2>2. ASSUME NEW c \in Calls, ClaimSession(c) PROVE Shape'
    BY <2>2 DEF ClaimSession, Shape, Places, Ended
  <2>3. ASSUME NEW c \in Calls, ClaimFeature(c) PROVE Shape'
    <3>1. op[c].feature \in Features
      BY <2>3, OperationFacts DEF ClaimFeature, Control, Routed, Route
    <3>2. QED BY <2>3, <3>1 DEF ClaimFeature, Shape, Places, Ended
  <2>4. ASSUME NEW c \in Calls, StoreCommand(c) PROVE Shape'
    <3>1. op[c].command \in Commands
      BY <2>4, OperationFacts DEF StoreCommand, Control, Routed, Route
    <3>2. QED BY <2>4, <3>1 DEF StoreCommand, Shape, Places, Ended
  <2>5. ASSUME NEW c \in Calls, SetKnownCommands(c) PROVE Shape'
    <3>1. op[c].commands \in SUBSET Commands
      BY <2>5, OperationFacts DEF SetKnownCommands, Control, Routed, Route
    <3>2. QED BY <2>5, <3>1 DEF SetKnownCommands, Shape, Places, Ended
  <2>6. ASSUME NEW c \in Calls, KnownCommand(c) PROVE Shape'
    <3>1. record' \in [Calls -> Records]
      <4>1. CASE knownCommands # None /\ op[c].suggestion \in knownCommands
        <5> DEFINE r == [record[c] EXCEPT !.fields = {"suggestion"}, !.suggestion = op[c].suggestion]
        <5>1. op[c].suggestion \in Commands
          BY <4>1 DEF Shape
        <5>2. r \in Records
          <6>1. record[c] \in Records
            BY DEF Shape
          <6>2. QED BY <5>1, <6>1 DEF Records, Fields, BasicFields
        <5>3. record' = [record EXCEPT ![c] = r]
          BY <2>6, <4>1 DEF KnownCommand
        <5>4. QED BY <5>2, <5>3 DEF Shape
      <4>2. CASE ~(knownCommands # None /\ op[c].suggestion \in knownCommands)
        BY <2>6, <4>2 DEF KnownCommand, Shape
      <4>3. QED BY <4>1, <4>2
    <3>2. QED BY <2>6, <3>1 DEF KnownCommand, Shape, Places, Ended
  <2>7. ASSUME NEW c \in Calls, ReadCommand(c) PROVE Shape'
    <3>1. record' \in [Calls -> Records]
      <4>1. CASE currentCommand # None
        <5> DEFINE r == [record[c] EXCEPT !.fields = @ \cup {"command"}, !.command = currentCommand]
        <5>1. record[c] \in Records /\ currentCommand \in Commands
          BY <4>1 DEF Shape
        <5>2. r \in Records
          BY <5>1 DEF Records, Fields, AnonymousFields
        <5>3. record' = [record EXCEPT ![c] = r]
          BY <2>7, <4>1 DEF ReadCommand
        <5>4. QED BY <5>2, <5>3 DEF Shape
      <4>2. CASE currentCommand = None
        BY <2>7, <4>2 DEF ReadCommand, Shape
      <4>3. QED BY <4>1, <4>2
    <3>2. op[c].kind \in {"feature", "counter", "handle"}
      BY <2>7 DEF ReadCommand, Control, Routed, Route
    <3>3. QED BY <2>7, <3>1, <3>2 DEF ReadCommand, Shape, Places, Ended
  <2>8. ASSUME NEW c \in Calls, LoadSession(c) PROVE Shape'
    <3>1. record' \in [Calls -> Records]
      BY <2>8 DEF LoadSession, Shape, Records
    <3>2. QED BY <2>8, <3>1 DEF LoadSession, Shape, Places, Ended
  <2>9. ASSUME NEW c \in Calls, GenerateSession(c) PROVE Shape'
    <3>1. sessionID' \in Calls \cup {None, NoID}
      BY <2>9 DEF GenerateSession, Shape
    <3>2. record' \in [Calls -> Records]
      BY <2>9, <3>1 DEF GenerateSession, Shape, Records
    <3>3. QED BY <2>9, <3>1, <3>2 DEF GenerateSession, Shape, Places, Ended
  <2>10. ASSUME NEW c \in Calls, Dispatch(c) PROVE Shape'
    BY <2>10 DEF Dispatch, Enqueue, Shape, Places, Ended
  <2>11. CASE TakeJob
    BY <2>11 DEF TakeJob, Shape
  <2>12. CASE LoadInstallID
    BY <2>12 DEF LoadInstallID, Shape
  <2>13. CASE RunJob
    <3>1. pc' \in [Calls -> Places]
      BY <2>13 DEF RunJob, Shape, Places, Ended
    <3>2. QED BY <2>13, <3>1 DEF RunJob, Shape
  <2>14. ASSUME NEW c \in Calls, MetricInstall(c) PROVE Shape'
    <3>1. record' \in [Calls -> Records]
      BY <2>14 DEF MetricInstall, Shape, Records, Fields, BasicFields
    <3>2. pc' \in [Calls -> Places]
      BY <2>14 DEF MetricInstall, AfterInstall, Shape, Places, Ended
    <3>3. QED BY <2>14, <3>1, <3>2 DEF MetricInstall, Shape
  <2>15. ASSUME NEW c \in Calls, DispatchLoad(c) PROVE Shape'
    <3>1. pc' \in [Calls -> Places]
      BY <2>15 DEF DispatchLoad, AfterInstall, Shape, Places, Ended
    <3>2. overflow' \in Nat
      BY <2>15 DEF DispatchLoad, Enqueue, Shape
    <3>3. loadDropped' \in BOOLEAN
      <4>1. CASE closed
        BY <2>15, <4>1 DEF DispatchLoad, Shape
      <4>2. CASE ~closed
        BY <2>15, <4>2 DEF DispatchLoad
      <4>3. QED BY <4>1, <4>2
    <3>4. UNCHANGED <<tier, closed, shared, install, began, record>>
      BY <2>15 DEF DispatchLoad
    <3>5. QED BY <3>1, <3>2, <3>3, <3>4 DEF Shape
  <2>16. ASSUME NEW c \in Calls, EmitMetric(c) PROVE Shape'
    BY <2>16 DEF EmitMetric, Shape, Places, Ended
  <2>17. CASE Close
    BY <2>17 DEF Close, Shape
  <2>18. CASE Terminated \/ UNCHANGED vars
    BY <2>18 DEF Terminated, vars, Shape
  <2>19. QED BY <2>1, <2>2, <2>3, <2>4, <2>5, <2>6, <2>7, <2>8, <2>9, <2>10, <2>11, <2>12, <2>13,
               <2>14, <2>15, <2>16, <2>17, <2>18 DEF Next, Step, Worker

\* A step that moves one call along its own route keeps every call on its own.
LEMMA RouteMove ==
    ASSUME Control, NEW c \in Calls, NEW at, Route(op[c], at),
           UNCHANGED <<tier, op>>, pc' = [pc EXCEPT ![c] = at]
    PROVE  Routed'
<1>1. \A o, a : Route(o, a)' = Route(o, a)
  BY DEF Route, Allows, Gate
<1>2. \A d \in Calls : Route(op[d], pc'[d])
  BY DEF Control, Shape, Routed
<1>3. QED BY <1>1, <1>2 DEF Routed, Route, Allows

\* Every step keeps every call on the route of its method.
LEMMA RoutedStep == Control /\ [Next]_vars => Routed'
<1> SUFFICES ASSUME Control, [Next]_vars PROVE Routed'
  OBVIOUS
<1> USE DEF shared, install, queue, began, Goto
<1>1. ASSUME NEW c \in Calls, NEW o \in Operations, Begin(c, o) PROVE Routed'
  <2>1. o \in AllOperations /\ UNCHANGED tier
    <3>1. UNCHANGED tier
      BY <1>1 DEF Begin
    <3>2. QED BY <3>1, OperationsAssumption
  <2>2. /\ op'[c] = o
        /\ \A d \in Calls : d # c => op'[d] = op[d] /\ pc'[d] = pc[d]
    BY <1>1 DEF Begin, Control, Shape
  <2>3. \/ pc'[c] \in {"ignored", "belowTier"}
        \/ pc'[c] = First(o) /\ Allows(Gate(o))
    <3>1. \/ pc' = [pc EXCEPT ![c] = "ignored"]
          \/ pc' = [pc EXCEPT ![c] = "belowTier"]
          \/ pc' = [pc EXCEPT ![c] = First(o)] /\ Allows(Gate(o))
      BY <1>1 DEF Begin
    <3>2. QED BY <3>1 DEF Control, Shape
  <2>4. Allows(Gate(o)) => Route(o, First(o))
    BY <2>1, OperationFacts DEF First, FirstOfHandle, Route
  <2>5. Route(o, pc'[c])
    BY <2>1, <2>3, <2>4 DEF Route
  <2>6. \A d \in Calls : Route(op'[d], pc'[d])
    BY <2>2, <2>5 DEF Control, Routed
  <2>7. QED BY <2>1, <2>6 DEF Routed, Route, Allows
<1>2. ASSUME NEW c \in Calls, Step(c) PROVE Routed'
  <2>1. Route(op[c], pc[c]) /\ pc[c] \in Places
    BY DEF Control, Routed, Shape
  <2>2. CASE ClaimSession(c)
    BY <2>1, <2>2, RouteMove DEF ClaimSession, Route
  <2>3. CASE ClaimFeature(c)
    BY <2>1, <2>3, RouteMove DEF ClaimFeature, Route
  <2>4. CASE StoreCommand(c)
    BY <2>1, <2>4, RouteMove DEF StoreCommand, Route
  <2>5. CASE SetKnownCommands(c)
    BY <2>1, <2>5, RouteMove DEF SetKnownCommands, Route
  <2>6. CASE KnownCommand(c)
    BY <2>1, <2>6, RouteMove DEF KnownCommand, Route
  <2>7. CASE ReadCommand(c)
    BY <2>1, <2>7, RouteMove DEF ReadCommand, Route
  <2>8. CASE LoadSession(c)
    BY <2>1, <2>8, RouteMove DEF LoadSession, Route
  <2>9. CASE GenerateSession(c)
    BY <2>1, <2>9, RouteMove DEF GenerateSession, Route
  <2>10. CASE Dispatch(c)
    BY <2>1, <2>10, RouteMove DEF Dispatch, Route
  <2>11. CASE MetricInstall(c)
    BY <2>1, <2>11, RouteMove DEF MetricInstall, AfterInstall, Route
  <2>12. CASE DispatchLoad(c)
    BY <2>1, <2>12, RouteMove DEF DispatchLoad, AfterInstall, Route
  <2>13. CASE EmitMetric(c)
    BY <2>1, <2>13, RouteMove DEF EmitMetric, Route
  <2>14. QED BY <1>2, <2>2, <2>3, <2>4, <2>5, <2>6, <2>7, <2>8, <2>9, <2>10, <2>11, <2>12, <2>13 DEF Step
<1>3. CASE RunJob
  <2>1. CASE running \in Calls /\ running # Load
    <3>1. pc' = [pc EXCEPT ![running] = "sent"] /\ UNCHANGED <<tier, op>>
      BY <1>3, <2>1 DEF RunJob
    <3>2. Route(op[running], "sent")
      BY DEF Route
    <3>3. QED BY <2>1, <3>1, <3>2, RouteMove
  <2>2. CASE running \notin Calls \/ running = Load
    <3>1. UNCHANGED <<tier, op>> /\ \A d \in Calls : pc'[d] = pc[d]
      BY <1>3, <2>2, NamesAssumption DEF RunJob, Control, Shape
    <3>2. QED BY <3>1 DEF Control, Routed, Route, Allows
  <2>3. QED BY <2>1, <2>2
<1>4. CASE TakeJob \/ LoadInstallID \/ Close \/ Terminated \/ UNCHANGED vars
  <2>1. UNCHANGED <<tier, op, pc>>
    BY <1>4 DEF TakeJob, LoadInstallID, Close, Terminated, vars
  <2>2. QED BY <2>1 DEF Control, Routed, Route, Allows
<1>5. QED BY <1>1, <1>2, <1>3, <1>4 DEF Next, Worker

\* The variables are well-typed and every call is where its method may be.
THEOREM ControlCorrect == Spec => []Control
<1>1. Init => Routed
  BY DEF Init, Routed, Route
<1>2. Init => Control
  BY <1>1, ShapeInit DEF Control
<1>3. Control /\ [Next]_vars => Control'
  BY ShapeStep, RoutedStep DEF Control
<1>4. QED BY <1>2, <1>3, PTL DEF Spec

-----------------------------------------------------------------------------
(* The session ID.                                                         *)

\* The session that a record carries is the one of the Client, or the empty
\* ID below TierBasic.
Sessions ==
    \A c \in Calls : record[c].session # None =>
        record[c].session = (IF Allows(TierBasic) THEN sessionID ELSE NoID)

\* A step that leaves the sessions alone keeps them one.
LEMMA SessionFrame ==
    ASSUME Sessions, UNCHANGED <<tier, sessionID>>,
           \A c \in Calls : record'[c].session = record[c].session
    PROVE  Sessions'
BY DEF Sessions, Allows

\* All the records have the session of the Client.
THEOREM SessionsCorrect == Spec => []Sessions
<1>1. Init => Sessions
  BY DEF Init, Sessions, Empty
<1>2. Control /\ Sessions /\ [Next]_vars => Sessions'
  <2> SUFFICES ASSUME Control, Sessions, [Next]_vars PROVE Sessions'
    OBVIOUS
  <2> USE DEF shared, install, queue, began
  <2>1. ASSUME NEW c \in Calls, NEW o \in Operations, Begin(c, o) PROVE Sessions'
    <3>1. UNCHANGED <<tier, sessionID>> /\ Gathered(o).session = None
      BY <2>1, OperationsAssumption, GatheredType DEF Begin
    <3>2. record' = record \/ record' = [record EXCEPT ![c] = Gathered(o)]
      BY <2>1 DEF Begin
    <3>3. \A d \in Calls : record'[d].session \in {None, record[d].session}
      BY <3>1, <3>2 DEF Control, Shape
    <3>4. QED BY <3>1, <3>3 DEF Sessions, Allows
  <2>2. ASSUME NEW c \in Calls, LoadSession(c) PROVE Sessions'
    <3>1. UNCHANGED <<tier, sessionID>>
      BY <2>2 DEF LoadSession
    <3>2. record[c] \in Records /\ record \in [Calls -> Records]
      BY DEF Control, Shape
    <3>3. CASE Allows(TierBasic) /\ sessionID = None
      BY <2>2, <3>1, <3>3, SessionFrame DEF LoadSession
    <3>4. CASE ~(Allows(TierBasic) /\ sessionID = None)
      <4>1. /\ record'[c].session = (IF Allows(TierBasic) THEN sessionID ELSE NoID)
            /\ \A d \in Calls : d # c => record'[d].session = record[d].session
        BY <2>2, <3>2, <3>4 DEF LoadSession, Records
      <4>2. QED BY <3>1, <4>1 DEF Sessions, Allows
    <3>5. QED BY <3>3, <3>4
  <2>3. ASSUME NEW c \in Calls, GenerateSession(c) PROVE Sessions'
    <3>1. Allows(TierBasic) /\ UNCHANGED tier
      BY <2>3 DEF GenerateSession, Control, Routed, Route
    <3>2. /\ record'[c].session = sessionID'
          /\ \A d \in Calls : d # c => record'[d].session = record[d].session
      BY <2>3 DEF GenerateSession, Control, Shape, Records
    <3>3. sessionID # None => sessionID' = sessionID
      BY <2>3 DEF GenerateSession
    <3>4. \A d \in Calls : record[d].session # None => sessionID # None
      BY <3>1 DEF Sessions
    <3>5. QED BY <3>1, <3>2, <3>3, <3>4 DEF Sessions, Allows
  <2>4. ASSUME NEW c \in Calls, KnownCommand(c) PROVE Sessions'
    <3>1. UNCHANGED <<tier, sessionID>> /\ \A d \in Calls : record'[d].session = record[d].session
      BY <2>4 DEF KnownCommand, Control, Shape
    <3>2. QED BY <3>1, SessionFrame
  <2>5. ASSUME NEW c \in Calls, ReadCommand(c) PROVE Sessions'
    <3>1. UNCHANGED <<tier, sessionID>> /\ \A d \in Calls : record'[d].session = record[d].session
      BY <2>5 DEF ReadCommand, Control, Shape
    <3>2. QED BY <3>1, SessionFrame
  <2>6. ASSUME NEW c \in Calls, MetricInstall(c) PROVE Sessions'
    <3>1. UNCHANGED <<tier, sessionID>>
      BY <2>6 DEF MetricInstall
    <3>2. \/ record' = record
          \/ record' = [record EXCEPT ![c] =
                           [record[c] EXCEPT !.fields = @ \cup {"install"}, !.install = installID]]
      BY <2>6 DEF MetricInstall
    <3>3. \A d \in Calls : record'[d].session = record[d].session
      <4> DEFINE r == [record[c] EXCEPT !.fields = @ \cup {"install"}, !.install = installID]
      <4>1. r.session = record[c].session
        OBVIOUS
      <4> HIDE DEF r
      <4>2. record' = record \/ record' = [record EXCEPT ![c] = r]
        BY <3>2 DEF r
      <4>3. QED BY <4>1, <4>2 DEF Control, Shape
    <3>4. QED BY <3>1, <3>3, SessionFrame
  <2>7. ASSUME NEW c \in Calls,
               \/ ClaimSession(c) \/ ClaimFeature(c) \/ StoreCommand(c) \/ SetKnownCommands(c)
               \/ Dispatch(c) \/ DispatchLoad(c) \/ EmitMetric(c)
        PROVE  Sessions'
    <3>1. UNCHANGED <<tier, sessionID, record>>
      BY <2>7 DEF ClaimSession, ClaimFeature, StoreCommand, SetKnownCommands, Dispatch, DispatchLoad, EmitMetric
    <3>2. QED BY <3>1, SessionFrame
  <2>8. CASE Worker \/ Close \/ Terminated \/ UNCHANGED vars
    <3>1. UNCHANGED <<tier, sessionID, record>>
      BY <2>8 DEF Worker, TakeJob, LoadInstallID, RunJob, Close, Terminated, vars
    <3>2. QED BY <3>1, SessionFrame
  <2>9. QED BY <2>1, <2>2, <2>3, <2>4, <2>5, <2>6, <2>7, <2>8 DEF Next, Step
<1>3. QED BY <1>1, <1>2, ControlCorrect, PTL DEF Spec

\* OneSession: the calls that race to generate the session ID agree on one.
THEOREM SessionIsOne == Spec => []OneSession
<1>1. Sessions => OneSession
  BY DEF Sessions, OneSession
<1>2. QED BY <1>1, SessionsCorrect, PTL

-----------------------------------------------------------------------------
(* The channel.                                                            *)

\* A call that has a job to run: past its gate for good, whatever follows.
Sendable(c) == pc[c] # "idle" /\ Route(op[c], "queued")

Channel ==
    /\ jobs \in Seq(Calls \cup {Load}) /\ Len(jobs) <= QueueSize
    /\ running \in Calls \cup {Load, None}
    /\ \A i \in 1..Len(jobs) : jobs[i] \in Calls => Sendable(jobs[i])
    /\ running \in Calls => Sendable(running)

\* A call keeps its operation and never becomes idle again.
LEMMA CallsGoOn ==
    Control /\ [Next]_vars =>
        /\ tier' = tier
        /\ \A c \in Calls : pc[c] # "idle" => op'[c] = op[c] /\ pc'[c] # "idle"
<1> SUFFICES ASSUME Control, [Next]_vars
             PROVE  /\ tier' = tier
                    /\ \A c \in Calls : pc[c] # "idle" => op'[c] = op[c] /\ pc'[c] # "idle"
  OBVIOUS
<1> USE DEF began, Goto, Control, Shape
<1>1. ASSUME NEW c \in Calls, NEW o \in Operations, Begin(c, o)
      PROVE  /\ tier' = tier
             /\ \A d \in Calls : pc[d] # "idle" => op'[d] = op[d] /\ pc'[d] # "idle"
  <2>1. tier' = tier /\ pc[c] = "idle"
    BY <1>1 DEF Begin
  <2>2. \A d \in Calls : d # c => op'[d] = op[d] /\ pc'[d] = pc[d]
    BY <1>1 DEF Begin
  <2>3. QED BY <2>1, <2>2
<1>2. ASSUME NEW c \in Calls, Step(c)
      PROVE  tier' = tier /\ op' = op /\ \A d \in Calls : pc[d] # "idle" => pc'[d] # "idle"
  <2>1. tier' = tier /\ op' = op
    BY <1>2 DEF Step, ClaimSession, ClaimFeature, StoreCommand, SetKnownCommands, KnownCommand, ReadCommand,
         LoadSession, GenerateSession, Dispatch, MetricInstall, DispatchLoad, EmitMetric
  <2>2. \A d \in Calls : d # c => pc'[d] = pc[d]
    BY <1>2 DEF Step, ClaimSession, ClaimFeature, StoreCommand, SetKnownCommands, KnownCommand, ReadCommand,
         LoadSession, GenerateSession, Dispatch, MetricInstall, DispatchLoad, EmitMetric
  <2>3. pc'[c] # "idle"
    <3>1. CASE ReadCommand(c)
      BY <3>1 DEF ReadCommand, Routed, Route
    <3>2. CASE MetricInstall(c)
      BY <3>2 DEF MetricInstall, AfterInstall
    <3>3. CASE DispatchLoad(c)
      BY <3>3 DEF DispatchLoad, AfterInstall
    <3>4. CASE ~ReadCommand(c) /\ ~MetricInstall(c) /\ ~DispatchLoad(c)
      BY <1>2, <3>4 DEF Step, ClaimSession, ClaimFeature, StoreCommand, SetKnownCommands, KnownCommand,
           LoadSession, GenerateSession, Dispatch, EmitMetric
    <3>5. QED BY <3>1, <3>2, <3>3, <3>4
  <2>4. QED BY <2>1, <2>2, <2>3
<1>3. CASE Worker \/ Close \/ Terminated \/ UNCHANGED vars
  <2>1. tier' = tier /\ op' = op
    BY <1>3 DEF Worker, TakeJob, LoadInstallID, RunJob, Close, Terminated, vars
  <2>2. \A d \in Calls : pc'[d] \in {pc[d], "sent"}
    BY <1>3 DEF Worker, TakeJob, LoadInstallID, RunJob, Close, Terminated, vars
  <2>3. QED BY <2>1, <2>2
<1>4. QED BY <1>1, <1>2, <1>3 DEF Next

\* The worker runs nothing but the jobs of calls that the tier let through.
THEOREM ChannelCorrect == Spec => []Channel
<1> USE NamesAssumption, QueueAssumption
<1>1. Init => Channel
  BY EmptySeq DEF Init, Channel
<1>2. Control /\ Channel /\ [Next]_vars => Channel'
  <2> SUFFICES ASSUME Control, Channel, [Next]_vars PROVE Channel'
    OBVIOUS
  <2>1. \A c \in Calls : Sendable(c) => Sendable(c)'
    BY CallsGoOn DEF Sendable, Route, Allows
  <2>2. ASSUME UNCHANGED <<jobs, running>> PROVE Channel'
    BY <2>1, <2>2 DEF Channel
  <2>3. ASSUME NEW job \in Calls \cup {Load}, Enqueue(job), UNCHANGED running,
               job \in Calls => Sendable(job)
        PROVE  Channel'
    <3>1. CASE HasRoom
      <4>1. jobs' = Append(jobs, job) /\ Len(jobs) < QueueSize
        BY <2>3, <3>1 DEF Enqueue, HasRoom
      <4>2. /\ jobs' \in Seq(Calls \cup {Load}) /\ Len(jobs') = Len(jobs) + 1 /\ Len(jobs) \in Nat
            /\ \A i \in 1..Len(jobs) : jobs'[i] = jobs[i]
            /\ jobs'[Len(jobs) + 1] = job
        BY <4>1, AppendProperties, LenProperties DEF Channel
      <4>3. Len(jobs') <= QueueSize
        BY <4>1, <4>2
      <4>4. \A i \in 1..Len(jobs') : jobs'[i] \in Calls => Sendable(jobs'[i])
        BY <2>3, <4>2 DEF Channel
      <4>5. QED BY <2>1, <2>3, <4>2, <4>3, <4>4 DEF Channel
    <3>2. CASE ~HasRoom
      BY <2>2, <2>3, <3>2 DEF Enqueue
    <3>3. QED BY <3>1, <3>2
  <2>4. ASSUME NEW c \in Calls, Dispatch(c) PROVE Channel'
    <3>1. CASE closed
      BY <2>2, <2>4, <3>1 DEF Dispatch, queue
    <3>2. CASE ~closed
      <4>1. Enqueue(c) /\ UNCHANGED running
        BY <2>4, <3>2 DEF Dispatch
      <4>2. Sendable(c)
        BY <2>4 DEF Dispatch, Sendable, Control, Routed, Route
      <4>3. QED BY <2>3, <4>1, <4>2
    <3>3. QED BY <3>1, <3>2
  <2>5. ASSUME NEW c \in Calls, DispatchLoad(c) PROVE Channel'
    <3>1. CASE closed
      BY <2>2, <2>5, <3>1 DEF DispatchLoad, queue
    <3>2. CASE ~closed
      BY <2>3, <2>5, <3>2 DEF DispatchLoad
    <3>3. QED BY <3>1, <3>2
  <2>6. CASE TakeJob
    <3>1. /\ Len(jobs) \in Nat \ {0} /\ Head(jobs) = jobs[1] /\ Head(jobs) \in Calls \cup {Load}
          /\ Tail(jobs) \in Seq(Calls \cup {Load}) /\ Len(Tail(jobs)) = Len(jobs) - 1
      BY <2>6, HeadTailProperties, EmptySeq, LenProperties DEF TakeJob, Channel
    <3>2. \A i \in 1..(Len(jobs) - 1) : Tail(jobs)[i] = jobs[i + 1]
      BY <2>6, <3>1, HeadTailProperties DEF TakeJob, Channel
    <3>3. jobs' = Tail(jobs) /\ running' = jobs[1]
      BY <2>6, <3>1 DEF TakeJob
    <3>4. \A i \in 1..Len(jobs') : jobs'[i] \in Calls => Sendable(jobs'[i])
      BY <3>1, <3>2, <3>3 DEF Channel
    <3>5. running' \in Calls => Sendable(running')
      BY <3>1, <3>3 DEF Channel
    <3>6. jobs' \in Seq(Calls \cup {Load}) /\ Len(jobs') <= QueueSize /\ running' \in Calls \cup {Load, None}
      BY <3>1, <3>3 DEF Channel
    <3>7. QED BY <2>1, <3>4, <3>5, <3>6 DEF Channel
  <2>7. CASE RunJob
    BY <2>1, <2>7 DEF RunJob, Channel
  <2>8. ASSUME NEW c \in Calls, NEW o \in Operations, Begin(c, o) PROVE Channel'
    BY <2>2, <2>8 DEF Begin, queue
  <2>9. ASSUME NEW c \in Calls,
               \/ ClaimSession(c) \/ ClaimFeature(c) \/ StoreCommand(c) \/ SetKnownCommands(c)
               \/ KnownCommand(c) \/ ReadCommand(c) \/ LoadSession(c) \/ GenerateSession(c)
               \/ MetricInstall(c) \/ EmitMetric(c)
        PROVE  Channel'
    BY <2>2, <2>9 DEF ClaimSession, ClaimFeature, StoreCommand, SetKnownCommands, KnownCommand, ReadCommand,
         LoadSession, GenerateSession, MetricInstall, EmitMetric, queue
  <2>10. CASE LoadInstallID \/ Close \/ Terminated \/ UNCHANGED vars
    BY <2>2, <2>10 DEF LoadInstallID, Close, Terminated, vars, queue
  <2>11. QED BY <2>4, <2>5, <2>6, <2>7, <2>8, <2>9, <2>10 DEF Next, Step, Worker
<1>3. QED BY <1>1, <1>2, ControlCorrect, PTL DEF Spec

-----------------------------------------------------------------------------
(* The consent tier.                                                       *)

\* What may be sent at the tier of the Client.
LawfulBody(b) ==
    /\ \A field \in b.fields : Allows(FieldTier(field))
    /\ b.session # None \/ b.install # None => Allows(TierBasic)

\* The tier of each group of fields.
LEMMA FieldTiers ==
    /\ \A field \in AnonymousFields : FieldTier(field) = TierAnonymous
    /\ \A field \in BasicFields : FieldTier(field) = TierBasic
    /\ \A field \in Fields : FieldTier(field) \in {TierAnonymous, TierBasic, TierOptIn}
BY DEF FieldTier, Fields, AnonymousFields, BasicFields, OptInFields

\* What a tier allows, a higher one allows too.
LEMMA Ceiling ==
    ASSUME Shape
    PROVE  /\ \A field \in AnonymousFields : Allows(FieldTier(field))
           /\ Allows(TierBasic) => \A field \in BasicFields : Allows(FieldTier(field))
           /\ Allows(TierOptIn) => \A field \in Fields : Allows(FieldTier(field))
BY FieldTiers DEF Shape, Allows, Tiers, TierAnonymous, TierBasic, TierOptIn

\* What a call gathers past its gate is allowed.
LEMMA GatheredLawful ==
    ASSUME Shape, NEW o \in AllOperations, Allows(Gate(o)), NEW field \in Gathered(o).fields
    PROVE  Allows(FieldTier(field))
<1>1. field \in AnonymousPart(o) \cup OptInPart(o) \cup Permitted(TierBasic, BasicPart(o))
  BY GatheredType
<1>2. CASE field \in AnonymousPart(o)
  <2>1. field \in AnonymousFields
    BY <1>2 DEF AnonymousPart, AnonymousFields
  <2>2. QED BY <2>1, Ceiling
<1>3. CASE field \in OptInPart(o)
  <2>1. Allows(TierOptIn) /\ field \in Fields
    BY <1>3 DEF OptInPart, Gate, Fields, AnonymousFields, OptInFields
  <2>2. QED BY <2>1, Ceiling
<1>4. CASE field \in Permitted(TierBasic, BasicPart(o))
  <2>1. Allows(TierBasic) /\ field \in BasicFields
    BY <1>4 DEF Permitted, BasicPart, BasicFields
  <2>2. QED BY <2>1, Ceiling
<1>5. QED BY <1>1, <1>2, <1>3, <1>4

\* What a call has gathered is allowed, and it has a session only if its
\* method looks for one.
Permits ==
    \A c \in Calls :
        /\ \A field \in record[c].fields : Allows(FieldTier(field))
        /\ record[c].install # None => Allows(TierBasic)
        /\ record[c].session # None =>
              op[c].kind \in {"sessionStart", "invoked", "completed", "error", "feature"}
        /\ pc[c] = "idle" => record[c].session = None

\* A step that changes at most the record of one call that has begun keeps
\* Permits if that record is allowed.
LEMMA PermitsFrame ==
    ASSUME Control, [Next]_vars, Permits, NEW c \in Calls, pc[c] # "idle", UNCHANGED op,
           \A d \in Calls : d # c => record'[d] = record[d] /\ pc'[d] = pc[d],
           \A field \in record'[c].fields : Allows(FieldTier(field)),
           record'[c].install # None => Allows(TierBasic),
           record'[c].session # None =>
              op[c].kind \in {"sessionStart", "invoked", "completed", "error", "feature"}
    PROVE  Permits'
<1>1. UNCHANGED tier /\ pc'[c] # "idle"
  BY CallsGoOn
<1>2. QED BY <1>1 DEF Permits, Allows, FieldTier

\* Whatever the host passes, what is gathered for a record is allowed.
THEOREM PermitsCorrect == Spec => []Permits
<1>1. Init => Permits
  BY DEF Init, Permits, Empty
<1>2. Control /\ Permits /\ [Next]_vars => Permits'
  <2> SUFFICES ASSUME Control, Permits, [Next]_vars PROVE Permits'
    OBVIOUS
  <2> USE DEF Goto
  <2>0. Shape /\ tier' = tier
    BY CallsGoOn DEF Control
  <2>1. ASSUME NEW c \in Calls, NEW o \in Operations, Begin(c, o) PROVE Permits'
    <3>1. o \in AllOperations /\ pc[c] = "idle"
      BY <2>1, OperationsAssumption DEF Begin
    <3>2. \A d \in Calls : d # c => record'[d] = record[d] /\ op'[d] = op[d] /\ pc'[d] = pc[d]
      BY <2>0, <2>1 DEF Begin, Shape
    <3>3. \/ record' = record
          \/ record' = [record EXCEPT ![c] = Gathered(o)] /\ Allows(Gate(o))
      BY <2>1 DEF Begin
    <3>4. record'[c] = record[c] \/ (record'[c] = Gathered(o) /\ Allows(Gate(o)))
      BY <2>0, <3>3 DEF Shape
    <3>5. record[c].session = None
      BY <3>1 DEF Permits
    <3>6. /\ \A field \in record'[c].fields : Allows(FieldTier(field))
          /\ record'[c].install # None => Allows(TierBasic)
          /\ record'[c].session = None
      BY <2>0, <3>1, <3>4, <3>5, GatheredType, GatheredLawful DEF Permits
    <3>7. QED BY <2>0, <3>2, <3>6 DEF Permits, Allows, FieldTier
  <2>2. ASSUME NEW c \in Calls, KnownCommand(c) PROVE Permits'
    <3>1. /\ pc[c] # "idle" /\ op' = op /\ Allows(TierBasic)
          /\ \A d \in Calls : d # c => record'[d] = record[d] /\ pc'[d] = pc[d]
      BY <2>0, <2>2 DEF KnownCommand, began, Shape, Control, Routed, Route
    <3>2. \/ record' = record
          \/ record' = [record EXCEPT ![c] =
                           [record[c] EXCEPT !.fields = {"suggestion"}, !.suggestion = op[c].suggestion]]
      BY <2>2 DEF KnownCommand
    <3>3. \/ record'[c] = record[c]
          \/ record'[c] = [record[c] EXCEPT !.fields = {"suggestion"}, !.suggestion = op[c].suggestion]
      BY <2>0, <3>2 DEF Shape
    <3>4. record[c] \in Records
      BY <2>0 DEF Shape
    <3>5. /\ record'[c].fields = record[c].fields \/ record'[c].fields = {"suggestion"}
          /\ record'[c].session = record[c].session /\ record'[c].install = record[c].install
      BY <3>3, <3>4 DEF Records
    <3>6. Allows(FieldTier("suggestion"))
      BY <2>0, <3>1, Ceiling DEF BasicFields
    <3>7. QED BY <3>1, <3>5, <3>6, PermitsFrame DEF Permits
  <2>3. ASSUME NEW c \in Calls, ReadCommand(c) PROVE Permits'
    <3>1. /\ pc[c] # "idle" /\ op' = op
          /\ \A d \in Calls : d # c => record'[d] = record[d] /\ pc'[d] = pc[d]
      BY <2>0, <2>3 DEF ReadCommand, began, Shape
    <3>2. \/ record' = record
          \/ record' = [record EXCEPT ![c] =
                           [record[c] EXCEPT !.fields = @ \cup {"command"}, !.command = currentCommand]]
      BY <2>3 DEF ReadCommand
    <3>3. \/ record'[c] = record[c]
          \/ record'[c] = [record[c] EXCEPT !.fields = @ \cup {"command"}, !.command = currentCommand]
      BY <2>0, <3>2 DEF Shape
    <3>4. record[c] \in Records
      BY <2>0 DEF Shape
    <3>5. /\ record'[c].fields \in {record[c].fields, record[c].fields \cup {"command"}}
          /\ record'[c].session = record[c].session /\ record'[c].install = record[c].install
      BY <3>3, <3>4 DEF Records
    <3>6. Allows(FieldTier("command"))
      BY <2>0, Ceiling DEF AnonymousFields
    <3>7. QED BY <3>1, <3>5, <3>6, PermitsFrame DEF Permits
  <2>4. ASSUME NEW c \in Calls, LoadSession(c) \/ GenerateSession(c) PROVE Permits'
    <3>1. /\ pc[c] # "idle" /\ op' = op
          /\ op[c].kind \in {"sessionStart", "invoked", "completed", "error", "feature"}
          /\ \A d \in Calls : d # c => record'[d] = record[d] /\ pc'[d] = pc[d]
      BY <2>0, <2>4 DEF LoadSession, GenerateSession, began, Shape, Control, Routed, Route
    <3>2. /\ record'[c].fields = record[c].fields
          /\ record'[c].install = record[c].install
      <4>1. \/ record' = record
            \/ record' = [record EXCEPT ![c].session = IF Allows(TierBasic) THEN sessionID ELSE NoID]
            \/ record' = [record EXCEPT ![c].session = sessionID']
        BY <2>4 DEF LoadSession, GenerateSession
      <4>2. \A v : [record EXCEPT ![c].session = v][c].fields = record[c].fields
                  /\ [record EXCEPT ![c].session = v][c].install = record[c].install
        BY <2>0 DEF Shape
      <4>3. QED BY <4>1, <4>2
    <3>3. QED BY <3>1, <3>2, PermitsFrame DEF Permits
  <2>5. ASSUME NEW c \in Calls, MetricInstall(c) PROVE Permits'
    <3>1. /\ pc[c] # "idle" /\ op' = op
          /\ \A d \in Calls : d # c => record'[d] = record[d] /\ pc'[d] = pc[d]
      BY <2>0, <2>5 DEF MetricInstall, began, Shape
    <3>2. \/ record' = record
          \/ /\ Allows(TierBasic)
             /\ record' = [record EXCEPT ![c] =
                              [record[c] EXCEPT !.fields = @ \cup {"install"}, !.install = installID]]
      BY <2>5 DEF MetricInstall
    <3>3. \/ record'[c] = record[c]
          \/ /\ Allows(TierBasic)
             /\ record'[c] = [record[c] EXCEPT !.fields = @ \cup {"install"}, !.install = installID]
      BY <2>0, <3>2 DEF Shape
    <3>4. record[c] \in Records
      BY <2>0 DEF Shape
    <3>5. /\ \/ record'[c].fields = record[c].fields /\ record'[c].install = record[c].install
             \/ record'[c].fields = record[c].fields \cup {"install"} /\ Allows(TierBasic)
          /\ record'[c].session = record[c].session
      BY <3>3, <3>4 DEF Records
    <3>6. Allows(TierBasic) => Allows(FieldTier("install"))
      BY <2>0, Ceiling DEF BasicFields
    <3>7. QED BY <3>1, <3>5, <3>6, PermitsFrame DEF Permits
  <2>6. ASSUME UNCHANGED <<op, record>>, \A c \in Calls : pc'[c] = "idle" => pc[c] = "idle" PROVE Permits'
    BY <2>0, <2>6 DEF Permits, Allows, FieldTier
  <2>7. ASSUME NEW c \in Calls,
               \/ ClaimSession(c) \/ ClaimFeature(c) \/ StoreCommand(c) \/ SetKnownCommands(c)
               \/ Dispatch(c) \/ DispatchLoad(c) \/ EmitMetric(c)
        PROVE  Permits'
    <3>1. UNCHANGED <<op, record>>
      BY <2>7 DEF ClaimSession, ClaimFeature, StoreCommand, SetKnownCommands, Dispatch, DispatchLoad, EmitMetric, began
    <3>2. QED BY <2>6, <3>1, CallsGoOn
  <2>8. CASE Worker \/ Close \/ Terminated \/ UNCHANGED vars
    <3>1. UNCHANGED <<op, record>>
      BY <2>8 DEF Worker, TakeJob, LoadInstallID, RunJob, Close, Terminated, vars, began
    <3>2. QED BY <2>6, <3>1, CallsGoOn
  <2>9. QED BY <2>1, <2>2, <2>3, <2>4, <2>5, <2>7, <2>8 DEF Next, Step
<1>3. QED BY <1>1, <1>2, ControlCorrect, PTL DEF Spec

-----------------------------------------------------------------------------
(* The wire.                                                               *)

Known == Control /\ Channel /\ Permits /\ Sessions

\* A record with the identity of the Client is allowed.
LEMMA IdentifiedLawful ==
    ASSUME Known, NEW c \in Calls
    PROVE  Identified(c) \in Records /\ LawfulBody(Identified(c))
<1> DEFINE s == record[c].session
           f == record[c].fields \cup (IF s \notin {None, NoID} THEN {"session"} ELSE {})
                  \cup (IF installID \notin {None, NoID} /\ Allows(TierBasic) THEN {"install"} ELSE {})
           u == IF s = NoID THEN None ELSE s
           i == IF installID # NoID /\ Allows(TierBasic) THEN installID ELSE None
<1>1. record[c] \in Records /\ Shape
  BY DEF Known, Control, Shape
<1>2. s \notin {None, NoID} => Allows(TierBasic)
  BY DEF Known, Sessions
<1>3. Allows(TierBasic) => Allows(FieldTier("session")) /\ Allows(FieldTier("install"))
  BY <1>1, Ceiling DEF BasicFields
<1>4. f \in SUBSET Fields /\ \A field \in f : Allows(FieldTier(field))
  <2>1. "session" \in Fields /\ "install" \in Fields
    BY DEF Fields, BasicFields
  <2>2. record[c].fields \in SUBSET Fields
    BY <1>1 DEF Records
  <2>3. \A field \in record[c].fields : Allows(FieldTier(field))
    BY DEF Known, Permits
  <2>4. QED BY <1>2, <1>3, <2>1, <2>2, <2>3
<1>5. u \in Calls \cup {None, NoID} /\ i \in InstallIDs \cup {None}
  BY <1>1 DEF Records, Shape
<1>6. (u # None \/ i # None) => Allows(TierBasic)
  BY <1>2
<1>7. Identified(c) = [record[c] EXCEPT !.fields = f, !.session = u, !.install = i]
  BY DEF Identified
<1> HIDE DEF s, f, u, i
<1>8. /\ Identified(c) \in Records /\ Identified(c).fields = f
      /\ Identified(c).session = u /\ Identified(c).install = i
  BY <1>1, <1>4, <1>5, <1>7 DEF Records
<1>9. QED BY <1>4, <1>6, <1>8 DEF LawfulBody

\* So is one without.
LEMMA UnidentifiedLawful ==
    ASSUME Known, NEW c \in Calls
    PROVE  /\ Unidentified(c) \in Records /\ LawfulBody(Unidentified(c))
           /\ op[c].kind \notin {"sessionStart", "invoked", "completed", "error", "feature"} =>
                 record[c] \in Records /\ LawfulBody(record[c])
<1>1. record[c] \in Records
  BY DEF Known, Control, Shape
<1>2. /\ \A field \in record[c].fields : Allows(FieldTier(field))
      /\ record[c].install # None => Allows(TierBasic)
      /\ op[c].kind \notin {"sessionStart", "invoked", "completed", "error", "feature"} =>
            record[c].session = None
  BY DEF Known, Permits
<1>3. /\ Unidentified(c) \in Records /\ Unidentified(c).session = None
      /\ Unidentified(c).fields = record[c].fields /\ Unidentified(c).install = record[c].install
  BY <1>1 DEF Unidentified, Records
<1>4. QED BY <1>1, <1>2, <1>3 DEF LawfulBody

\* A lawful body with fewer fields, or with fields that every tier allows, is
\* lawful.
LEMMA NarrowedLawful ==
    ASSUME Known, NEW b \in Records, LawfulBody(b), NEW f \in SUBSET Fields,
           \A field \in f : field \in b.fields \/ field \in AnonymousFields
    PROVE  [b EXCEPT !.fields = f] \in Records /\ LawfulBody([b EXCEPT !.fields = f])
<1> DEFINE n == [b EXCEPT !.fields = f]
<1>1. n \in Records /\ n.fields = f /\ n.session = b.session /\ n.install = b.install
  BY DEF Records
<1>2. \A field \in f : Allows(FieldTier(field))
  BY Ceiling DEF Known, Control, LawfulBody
<1>3. QED BY <1>1, <1>2 DEF LawfulBody

\* An item on the wire is well-typed, and the tier allows it.
LawfulItem(item) ==
    /\ item \in Items
    /\ LawfulBody(item.body)
    /\ item.signal \in {"feature.activated", "error.raised"} => Allows(TierBasic)

\* An item is as lawful as its body.
LEMMA ItemLawful ==
    ASSUME NEW c \in Calls, NEW signal \in Signals, NEW body \in Records, LawfulBody(body),
           signal \in {"feature.activated", "error.raised"} => Allows(TierBasic)
    PROVE  LawfulItem(Item(c, signal, body))
BY DEF LawfulItem, Item, Items

\* All that the job of a call sends is lawful.
LEMMA EmittedLawful ==
    ASSUME Known, NEW c \in Calls, Sendable(c), NEW item \in Emitted(c)
    PROVE  LawfulItem(item)
<1> USE DEF Signals
<1>1. /\ op[c].kind \in {"sessionStart", "invoked", "completed", "error", "feature",
                         "unknown", "help", "detail"}
      /\ Allows(Gate(op[c]))
  BY DEF Sendable, Route
<1>2. /\ Identified(c) \in Records /\ LawfulBody(Identified(c))
      /\ Unidentified(c) \in Records /\ LawfulBody(Unidentified(c))
      /\ op[c].kind \notin {"sessionStart", "invoked", "completed", "error", "feature"} =>
            record[c] \in Records /\ LawfulBody(record[c])
  BY IdentifiedLawful, UnidentifiedLawful
<1>3. CASE op[c].kind = "sessionStart"
  BY <1>2, <1>3, ItemLawful DEF Emitted
<1>4. CASE op[c].kind = "invoked"
  BY <1>2, <1>4, ItemLawful DEF Emitted
<1>5. CASE op[c].kind = "completed"
  <2> DEFINE m == [Unidentified(c) EXCEPT !.fields = {"command", "exitCode"}]
             e == [Identified(c) EXCEPT !.fields = @ \ {"flags", "usage"}]
  <2>1. m \in Records /\ LawfulBody(m)
    <3>1. {"command", "exitCode"} \subseteq AnonymousFields /\ AnonymousFields \subseteq Fields
      BY DEF Fields, AnonymousFields
    <3>2. QED BY <1>2, <3>1, NarrowedLawful
  <2>2. e \in Records /\ LawfulBody(e)
    <3>1. Identified(c).fields \ {"flags", "usage"} \in SUBSET Fields
      BY <1>2 DEF Records
    <3>2. QED BY <1>2, <3>1, NarrowedLawful
  <2>3. item \in {Item(c, "command.span", Unidentified(c)), Item(c, "command.metrics", m),
                  Item(c, "command.completed", e)}
    BY <1>5 DEF Emitted
  <2> HIDE DEF m, e
  <2>4. QED BY <1>2, <2>1, <2>2, <2>3, ItemLawful
<1>6. CASE op[c].kind = "feature"
  BY <1>1, <1>2, <1>6, ItemLawful DEF Emitted, Gate
<1>7. CASE op[c].kind = "unknown"
  BY <1>2, <1>7, ItemLawful DEF Emitted
<1>8. CASE op[c].kind = "help"
  BY <1>2, <1>8, ItemLawful DEF Emitted
<1>9. CASE op[c].kind = "error"
  <2>1. \/ item = Item(c, "errors", Unidentified(c))
        \/ Allows(TierBasic) /\ item = Item(c, "error.raised", Identified(c))
    BY <1>9 DEF Emitted
  <2>2. QED BY <1>2, <2>1, ItemLawful
<1>10. CASE op[c].kind = "detail"
  <2>1. Allows(TierBasic)
    BY <1>1, <1>10 DEF Gate, Known, Control, Shape, Allows, Tiers, TierBasic, TierOptIn, TierAnonymous
  <2>2. QED BY <1>2, <1>10, <2>1, ItemLawful DEF Emitted
<1>11. QED BY <1>1, <1>3, <1>4, <1>5, <1>6, <1>7, <1>8, <1>9, <1>10

Wire == \A item \in wire : LawfulItem(item)

\* Everything on the wire is well-typed and allowed by the tier.
THEOREM WireCorrect == Spec => []Wire
<1>1. Init => Wire
  BY DEF Init, Wire
<1>2. Known /\ Wire /\ [Next]_vars => Wire'
  <2> SUFFICES ASSUME Known, Wire, [Next]_vars PROVE Wire'
    OBVIOUS
  <2>1. tier' = tier
    BY CallsGoOn DEF Known
  <2>2. \A item : LawfulItem(item) => LawfulItem(item)'
    BY <2>1 DEF LawfulItem, LawfulBody, Allows, FieldTier
  <2>3. ASSUME UNCHANGED wire PROVE Wire'
    BY <2>2, <2>3 DEF Wire
  <2>4. CASE RunJob
    <3>1. CASE running = Load
      BY <2>3, <2>4, <3>1 DEF RunJob
    <3>2. CASE running # Load
      <4>1. running \in Calls /\ Sendable(running) /\ wire' = wire \cup Emitted(running)
        BY <2>4, <3>2 DEF RunJob, Known, Channel
      <4>2. \A item \in wire' : LawfulItem(item)
        BY <4>1, EmittedLawful DEF Wire
      <4>3. QED BY <2>2, <4>2 DEF Wire
    <3>3. QED BY <3>1, <3>2
  <2>5. ASSUME NEW c \in Calls, EmitMetric(c) PROVE Wire'
    <3>1. wire' = wire \cup {Item(c, "metric", record[c])}
      BY <2>5 DEF EmitMetric
    <3>2. op[c].kind \in {"counter", "handle"}
      BY <2>5 DEF EmitMetric, Known, Control, Routed, Route
    <3>3. record[c] \in Records /\ LawfulBody(record[c])
      BY <3>2, UnidentifiedLawful
    <3>4. LawfulItem(Item(c, "metric", record[c]))
      BY <3>3, ItemLawful DEF Signals
    <3>5. QED BY <2>2, <3>1, <3>4 DEF Wire
  <2>6. ASSUME NEW c \in Calls, NEW o \in Operations, Begin(c, o) PROVE Wire'
    BY <2>3, <2>6 DEF Begin
  <2>7. ASSUME NEW c \in Calls, Step(c), ~EmitMetric(c) PROVE Wire'
    BY <2>3, <2>7 DEF Step, ClaimSession, ClaimFeature, StoreCommand, SetKnownCommands, KnownCommand,
         ReadCommand, LoadSession, GenerateSession, Dispatch, MetricInstall, DispatchLoad
  <2>8. CASE TakeJob \/ LoadInstallID \/ Close \/ Terminated \/ UNCHANGED vars
    BY <2>3, <2>8 DEF TakeJob, LoadInstallID, Close, Terminated, vars
  <2>9. QED BY <2>4, <2>5, <2>6, <2>7, <2>8 DEF Next, Worker
<1>3. QED BY <1>1, <1>2, ControlCorrect, ChannelCorrect, PermitsCorrect, SessionsCorrect, PTL DEF Spec, Known

\* TypeOK: every variable keeps its type and the queue its capacity.
THEOREM TypeCorrect == Spec => []TypeOK
<1>1. Control /\ Channel /\ Wire => TypeOK
  BY DEF Control, Shape, Channel, Wire, LawfulItem, TypeOK
<1>2. QED BY <1>1, ControlCorrect, ChannelCorrect, WireCorrect, PTL

\* NoFieldAboveTier: whatever the host passes and however the calls interleave,
\* nothing reaches the providers that the resolved tier does not allow.
THEOREM NothingAboveTier == Spec => []NoFieldAboveTier
<1>1. Wire => NoFieldAboveTier
  BY DEF Wire, LawfulItem, LawfulBody, NoFieldAboveTier
<1>2. QED BY <1>1, WireCorrect, PTL
=============================================================================
