------------------------------ MODULE Taxonomy ------------------------------
(***************************************************************************)
(* The Record methods of one live Client (taxonomy.go, counter.go,         *)
(* measure.go, value.go, dims.go): what the consent tier lets each of them *)
(* send, and the state they share without a lock - the session ID, the     *)
(* session-started flag, the reported features, the current command, the   *)
(* known commands and the install ID that the worker publishes.            *)
(*                                                                         *)
(* Every call runs on a goroutine of its own and is cut at each access to  *)
(* shared state.  A record is the set of its fields; of their values only  *)
(* the IDs, the command and the suggestion are kept.  Fields that the code *)
(* omits when it cannot measure them are always there: the most a record   *)
(* can carry.  ClientQueue has the channel, the panics and the shutdown in *)
(* full: here jobs are queued or dropped in one step, and Close only sets  *)
(* the flag that every method tests.                                       *)
(***************************************************************************)
EXTENDS Integers, Sequences, FiniteSets

CONSTANTS
    Calls,       \* calls of the methods
    Operations,  \* what they may call, out of AllOperations
    Commands,    \* command names
    Features,    \* feature names
    InstallIDs,  \* the IDs that reading or creating the file may give
    QueueSize,   \* the capacity of the channel jobs
    None,        \* nothing there: a nil pointer, no attribute
    NoID,        \* the empty string in place of an ID
    Load         \* the job that only loads the install ID

TierAnonymous == 0
TierBasic == 1
TierFull == 2
TierOptIn == 3
Tiers == TierAnonymous..TierOptIn

AllOperations ==
    [kind : {"sessionStart"}]
    \cup [kind : {"invoked", "completed"}, command : Commands, flags : BOOLEAN]
    \cup [kind : {"feature"}, feature : Features]
    \cup [kind : {"setKnown"}, commands : SUBSET Commands]
    \cup [kind : {"unknown"}, suggestion : Commands \cup {None}]
    \cup [kind : {"help"}, command : Commands]
    \cup [kind : {"error"}, command : Commands, reason : BOOLEAN]
    \cup [kind : {"detail"}, command : Commands, stack : BOOLEAN]
    \cup [kind : {"counter"}, label : {"none", "valid", "invalid"}]
    \cup [kind : {"handle"}, valid : BOOLEAN]

ASSUME OperationsAssumption == Operations \subseteq AllOperations

ASSUME QueueAssumption == QueueSize \in Nat \ {0}

ASSUME NamesAssumption ==
    /\ Load \notin Calls /\ None \notin Calls /\ NoID \notin Calls /\ Load # None
    /\ None \notin InstallIDs \cup Commands /\ NoID \notin InstallIDs
    /\ NoID # None

ASSUME FiniteCalls == IsFiniteSet(Calls)

(* The fields and their tiers, as the comments of the Attr constants give  *)
(* them (taxonomy.go:36): what the methods are checked against.            *)
BasicFields ==
    {"session", "install", "flags", "suggestion", "feature", "errorType", "errorReason",
     "usage", "binarySize", "startup", "environment", "vendor"}
OptInFields == {"message", "stack"}
AnonymousFields == {"command", "exitCode", "label", "installMethod"}
Fields == AnonymousFields \cup BasicFields \cup OptInFields

FieldTier(field) ==
    IF field \in OptInFields THEN TierOptIn
    ELSE IF field \in BasicFields THEN TierBasic ELSE TierAnonymous

VARIABLES
    tier,           \* Client.tier, fixed by New
    closed,         \* Client.shutdown
    sessionOn,      \* a RecordSessionStart has claimed the session
    sessionID,      \* Client.sessionID: None until the first use
    currentCommand, \* Client.currentCommand: None until an invocation
    activated,      \* the features already claimed
    knownCommands,  \* the set registered last: None before
    installLoading, \* a metric call has asked for the install ID
    installID,      \* installID and installIDReady: None until loaded
    jobs,           \* the channel: calls whose record is queued, or Load
    running,        \* the job the worker is executing, or None
    overflow,       \* counters.queueOverflow
    belowTier,      \* counters.belowTierCeil
    pc, op,         \* where each call is and what it calls
    record,         \* what each call has gathered for its record
    wire,           \* everything handed to the OpenTelemetry providers
    (* history *)
    loadDropped,    \* the job that loads the install ID found the channel full
    registered,     \* every command that has been registered
    commandBefore,  \* the calls that began after an invocation returned
    installBefore   \* the calls that began after the install ID was loaded

shared == <<sessionOn, sessionID, currentCommand, activated, knownCommands, registered>>
install == <<installLoading, installID>>
queue == <<jobs, running, overflow, loadDropped>>
began == <<op, belowTier, commandBefore, installBefore>>
vars == <<tier, closed, shared, install, queue, began, pc, record, wire>>

Ended == {"ignored", "belowTier", "repeated", "invalid", "registered", "dropped", "sent"}
Places ==
    {"idle", "claim", "store", "lookup", "command", "session", "generate", "dispatch",
     "install", "load", "emit", "queued"} \cup Ended

Records ==
    [fields : SUBSET Fields, command : Commands \cup {None}, suggestion : Commands \cup {None},
     session : Calls \cup {None, NoID}, install : InstallIDs \cup {None}]

Empty == [fields |-> {}, command |-> None, suggestion |-> None, session |-> None, install |-> None]

Signals ==
    {"session.started", "command.invoked", "command.span", "command.metrics",
     "command.completed", "feature.activated", "command.unknown", "help.viewed",
     "errors", "error.raised", "metric"}

Items == [call : Calls, signal : Signals, body : Records]

TypeOK ==
    /\ tier \in Tiers /\ closed \in BOOLEAN /\ sessionOn \in BOOLEAN
    /\ sessionID \in Calls \cup {None, NoID}
    /\ currentCommand \in Commands \cup {None}
    /\ activated \in SUBSET Features
    /\ knownCommands \in {None} \cup SUBSET Commands
    /\ installLoading \in BOOLEAN
    /\ installID \in InstallIDs \cup {None, NoID}
    /\ jobs \in Seq(Calls \cup {Load}) /\ Len(jobs) <= QueueSize
    /\ running \in Calls \cup {Load, None}
    /\ overflow \in Nat /\ belowTier \in Nat /\ loadDropped \in BOOLEAN
    /\ pc \in [Calls -> Places]
    /\ op \in [Calls -> AllOperations \cup {None}]
    /\ record \in [Calls -> Records]
    /\ \A item \in wire : item \in Items
    /\ registered \in SUBSET Commands
    /\ commandBefore \in SUBSET Calls /\ installBefore \in SUBSET Calls

Init ==
    /\ tier \in Tiers /\ closed = FALSE
    /\ sessionOn = FALSE /\ sessionID = None /\ currentCommand = None
    /\ activated = {} /\ knownCommands = None /\ registered = {}
    /\ installLoading = FALSE /\ installID = None
    /\ jobs = <<>> /\ running = None /\ overflow = 0 /\ loadDropped = FALSE
    /\ belowTier = 0
    /\ pc = [c \in Calls |-> "idle"] /\ op = [c \in Calls |-> None]
    /\ record = [c \in Calls |-> Empty]
    /\ wire = {}
    /\ commandBefore = {} /\ installBefore = {}

-----------------------------------------------------------------------------
Allows(required) == tier >= required

Goto(c, at) == pc' = [pc EXCEPT ![c] = at]

\* The fields that the tier lets through; a call adds the others never.
Permitted(required, fields) == IF Allows(required) THEN fields ELSE {}

\* The tier a method as a whole is gated at.
Gate(o) ==
    CASE o.kind = "feature" -> TierBasic
      [] o.kind = "detail" -> TierOptIn
      [] OTHER -> TierAnonymous

\* What the host passed that only TierBasic and above may send.
BasicPart(o) ==
    CASE o.kind = "sessionStart" -> {"binarySize", "startup", "environment", "vendor"}
      [] o.kind = "invoked" -> IF o.flags THEN {"flags"} ELSE {}
      [] o.kind = "completed" -> {"usage"} \cup (IF o.flags THEN {"flags"} ELSE {})
      [] o.kind = "feature" -> {"feature"}
      [] o.kind = "error" -> {"errorType"} \cup (IF o.reason THEN {"errorReason"} ELSE {})
      [] OTHER -> {}

AnonymousPart(o) ==
    CASE o.kind \in {"invoked", "help", "error"} -> {"command"}
      [] o.kind = "completed" -> {"command", "exitCode"}
      [] o.kind = "sessionStart" -> {"installMethod"}
      [] o.kind = "counter" -> IF o.label = "valid" THEN {"label"} ELSE {}
      [] o.kind = "handle" -> {"label"}
      [] OTHER -> {}

OptInPart(o) ==
    IF o.kind = "detail"
      THEN {"command", "message"} \cup (IF o.stack THEN {"stack"} ELSE {})
      ELSE {}

\* A plausible bug: the flag names of a completed command are not gated.
Mut_Gathered(o) ==
    [Empty EXCEPT !.fields = AnonymousPart(o) \cup OptInPart(o) \cup
                             (IF o.kind = "completed" THEN BasicPart(o)
                              ELSE Permitted(TierBasic, BasicPart(o))),
                  !.command = IF "command" \in DOMAIN o THEN o.command ELSE None]

\* What a call that is past its gate gathers from its arguments.
Gathered(o) ==
    [Empty EXCEPT !.fields = AnonymousPart(o) \cup OptInPart(o)
                             \cup Permitted(TierBasic, BasicPart(o)),
                  !.command = IF "command" \in DOMAIN o THEN o.command ELSE None]

\* A handle and the values of its dimensions are validated before anything else.
FirstOfHandle(o) == IF o.valid THEN "command" ELSE "invalid"

\* Where a call goes once it is past its gate.
First(o) ==
    CASE o.kind \in {"sessionStart", "feature"} -> "claim"
      [] o.kind \in {"invoked", "setKnown"} -> "store"
      [] o.kind \in {"completed", "error"} -> "session"
      [] o.kind = "unknown" -> IF Allows(TierBasic) THEN "lookup" ELSE "dispatch"
      [] o.kind \in {"help", "detail"} -> "dispatch"
      [] o.kind = "counter" -> "install"
      [] o.kind = "handle" -> FirstOfHandle(o)

\* The prologue of every method: enabled or gate, then what it gathers from
\* its arguments and the tier alone.
Begin(c, o) ==
    /\ pc[c] = "idle"
    /\ op' = [op EXCEPT ![c] = o]
    /\ \/ closed /\ Goto(c, "ignored") /\ UNCHANGED <<record, belowTier>>
       \/ /\ ~closed /\ ~Allows(Gate(o))
          /\ Goto(c, "belowTier")
          /\ belowTier' = belowTier + 1
          /\ UNCHANGED record
       \/ /\ ~closed /\ Allows(Gate(o))
          /\ Goto(c, First(o))
          /\ record' = [record EXCEPT ![c] = Gathered(o)]
          /\ UNCHANGED belowTier
    /\ commandBefore' =
          IF \E d \in Calls : op[d] # None /\ op[d].kind = "invoked" /\ pc[d] \in {"queued", "dropped", "sent"}
            THEN commandBefore \cup {c} ELSE commandBefore
    /\ installBefore' = IF installID # None THEN installBefore \cup {c} ELSE installBefore
    /\ UNCHANGED <<tier, closed, shared, install, queue, wire>>

-----------------------------------------------------------------------------
(* The shared state of the methods.                                        *)

\* A plausible bug: the flag is tested, and set only when the job runs.
Mut_ClaimSession(c) ==
    /\ pc[c] = "claim" /\ op[c].kind = "sessionStart"
    /\ IF sessionOn THEN Goto(c, "repeated") ELSE Goto(c, "session")
    /\ UNCHANGED <<tier, closed, shared, install, queue, began, record, wire>>

\* RecordSessionStart: only the first call gets past the compare-and-swap.
ClaimSession(c) ==
    /\ pc[c] = "claim" /\ op[c].kind = "sessionStart"
    /\ IF sessionOn THEN Goto(c, "repeated") ELSE Goto(c, "session")
    /\ sessionOn' = TRUE
    /\ UNCHANGED <<tier, closed, sessionID, currentCommand, activated, knownCommands, registered,
                   install, queue, began, record, wire>>

\* RecordFeatureActivated: LoadOrStore of the feature.
ClaimFeature(c) ==
    /\ pc[c] = "claim" /\ op[c].kind = "feature"
    /\ IF op[c].feature \in activated THEN Goto(c, "repeated") ELSE Goto(c, "command")
    /\ activated' = activated \cup {op[c].feature}
    /\ UNCHANGED <<tier, closed, sessionOn, sessionID, currentCommand, knownCommands, registered,
                   install, queue, began, record, wire>>

\* A plausible bug: the current command is set by the job, not by the call.
Mut_StoreCommand(c) ==
    /\ pc[c] = "store" /\ op[c].kind = "invoked"
    /\ Goto(c, "session")
    /\ UNCHANGED <<tier, closed, shared, install, queue, began, record, wire>>

StoreCommand(c) ==
    /\ pc[c] = "store" /\ op[c].kind = "invoked"
    /\ Goto(c, "session")
    /\ currentCommand' = op[c].command
    /\ UNCHANGED <<tier, closed, sessionOn, sessionID, activated, knownCommands, registered,
                   install, queue, began, record, wire>>

SetKnownCommands(c) ==
    /\ pc[c] = "store" /\ op[c].kind = "setKnown"
    /\ Goto(c, "registered")
    /\ knownCommands' = op[c].commands
    /\ registered' = registered \cup op[c].commands
    /\ UNCHANGED <<tier, closed, sessionOn, sessionID, currentCommand, activated,
                   install, queue, began, record, wire>>

\* A plausible bug: the suggestion is not looked up.
Mut_KnownCommand(c) ==
    /\ pc[c] = "lookup"
    /\ Goto(c, "dispatch")
    /\ record' = IF op[c].suggestion # None
                   THEN [record EXCEPT ![c].fields = {"suggestion"},
                                       ![c].suggestion = op[c].suggestion]
                   ELSE record
    /\ UNCHANGED <<tier, closed, shared, install, queue, began, wire>>

\* RecordUnknownCommand keeps a suggestion only if it is a registered command.
KnownCommand(c) ==
    /\ pc[c] = "lookup"
    /\ Goto(c, "dispatch")
    /\ record' = IF knownCommands # None /\ op[c].suggestion \in knownCommands
                   THEN [record EXCEPT ![c].fields = {"suggestion"},
                                       ![c].suggestion = op[c].suggestion]
                   ELSE record
    /\ UNCHANGED <<tier, closed, shared, install, queue, began, wire>>

\* Features and metrics are attributed to the command invoked last.
ReadCommand(c) ==
    /\ pc[c] = "command"
    /\ record' = IF currentCommand = None THEN record
                 ELSE [record EXCEPT ![c].fields = @ \cup {"command"},
                                     ![c].command = currentCommand]
    /\ Goto(c, CASE op[c].kind = "feature" -> "session"
                 [] op[c].kind = "counter" -> "emit"
                 [] op[c].kind = "handle" -> "install")
    /\ UNCHANGED <<tier, closed, shared, install, queue, began, wire>>

-----------------------------------------------------------------------------
(* ensureSessionID: load, else generate, compare-and-swap and load again.  *)
(* The ID that a call generates is written as the call; it is empty when   *)
(* the random source fails.                                                *)

LoadSession(c) ==
    /\ pc[c] = "session"
    /\ IF Allows(TierBasic) /\ sessionID = None
         THEN Goto(c, "generate") /\ UNCHANGED record
         ELSE /\ Goto(c, "dispatch")
              /\ record' = [record EXCEPT ![c].session =
                               IF Allows(TierBasic) THEN sessionID ELSE NoID]
    /\ UNCHANGED <<tier, closed, shared, install, queue, began, wire>>

\* A plausible bug: the ID is not loaded again after a lost compare-and-swap.
Mut_GenerateSession(c) ==
    /\ pc[c] = "generate"
    /\ sessionID' = IF sessionID = None THEN c ELSE sessionID
    /\ record' = [record EXCEPT ![c].session = c]
    /\ Goto(c, "dispatch")
    /\ UNCHANGED <<tier, closed, sessionOn, currentCommand, activated, knownCommands, registered,
                   install, queue, began, wire>>

GenerateSession(c) ==
    /\ pc[c] = "generate"
    /\ \E id \in {c, NoID} : sessionID' = IF sessionID = None THEN id ELSE sessionID
    /\ record' = [record EXCEPT ![c].session = sessionID']
    /\ Goto(c, "dispatch")
    /\ UNCHANGED <<tier, closed, sessionOn, currentCommand, activated, knownCommands, registered,
                   install, queue, began, wire>>

-----------------------------------------------------------------------------
(* dispatch, in one step, and the worker.                                  *)

\* A plausible bug: an off-by-one in the capacity.
Mut_HasRoom == Len(jobs) <= QueueSize

HasRoom == Len(jobs) < QueueSize

Enqueue(job) ==
    IF HasRoom THEN jobs' = Append(jobs, job) /\ UNCHANGED overflow
    ELSE overflow' = overflow + 1 /\ UNCHANGED jobs

\* A plausible bug: a job that does not fit is dropped without being counted.
Mut_Dispatch(c) ==
    /\ pc[c] = "dispatch"
    /\ IF closed THEN Goto(c, "ignored") /\ UNCHANGED queue
       ELSE /\ Goto(c, IF HasRoom THEN "queued" ELSE "dropped")
            /\ jobs' = IF HasRoom THEN Append(jobs, c) ELSE jobs
            /\ UNCHANGED <<overflow, running, loadDropped>>
    /\ UNCHANGED <<tier, closed, shared, install, began, record, wire>>

Dispatch(c) ==
    /\ pc[c] = "dispatch"
    /\ IF closed THEN Goto(c, "ignored") /\ UNCHANGED queue
       ELSE /\ Goto(c, IF HasRoom THEN "queued" ELSE "dropped")
            /\ Enqueue(c)
            /\ UNCHANGED <<running, loadDropped>>
    /\ UNCHANGED <<tier, closed, shared, install, began, record, wire>>

Identified(c) ==
    LET s == record[c].session IN
    [record[c] EXCEPT
        !.fields = @ \cup (IF s \notin {None, NoID} THEN {"session"} ELSE {})
                     \cup (IF installID \notin {None, NoID} /\ Allows(TierBasic)
                             THEN {"install"} ELSE {}),
        !.session = IF s = NoID THEN None ELSE s,
        !.install = IF installID # NoID /\ Allows(TierBasic) THEN installID ELSE None]

Item(c, signal, body) == [call |-> c, signal |-> signal, body |-> body]

\* A metric or a span carries no session.
Unidentified(c) == [record[c] EXCEPT !.session = None]

\* What the job of a call hands to the providers.
Emitted(c) ==
    CASE op[c].kind = "sessionStart" -> {Item(c, "session.started", Identified(c))}
      [] op[c].kind = "invoked" -> {Item(c, "command.invoked", Identified(c))}
      [] op[c].kind = "completed" ->
            {Item(c, "command.span", Unidentified(c)),
             Item(c, "command.metrics",
                  [Unidentified(c) EXCEPT !.fields = {"command", "exitCode"}]),
             Item(c, "command.completed",
                  [Identified(c) EXCEPT !.fields = @ \ {"flags", "usage"}])}
      [] op[c].kind = "feature" -> {Item(c, "feature.activated", Identified(c))}
      [] op[c].kind = "unknown" -> {Item(c, "command.unknown", record[c])}
      [] op[c].kind = "help" -> {Item(c, "help.viewed", record[c])}
      [] op[c].kind = "error" ->
            {Item(c, "errors", Unidentified(c))}
            \cup (IF Allows(TierBasic) THEN {Item(c, "error.raised", Identified(c))} ELSE {})
      [] op[c].kind = "detail" -> {Item(c, "error.raised", record[c])}

TakeJob ==
    /\ running = None /\ jobs # <<>>
    /\ running' = Head(jobs)
    /\ jobs' = Tail(jobs)
    /\ UNCHANGED <<tier, closed, shared, install, began, overflow, loadDropped, pc, record, wire>>

\* The jobs that call identityAttrs.
Identifies(job) == job \in Calls => op[job].kind \notin {"unknown", "help", "detail"}

NeedsInstallID ==
    /\ running # None /\ installID = None /\ Allows(TierBasic)
    /\ Identifies(running)

\* A plausible bug: no sync.Once, every job reads or creates the file again.
Mut_LoadInstallID ==
    /\ running # None /\ Allows(TierBasic) /\ Identifies(running)
    /\ \E id \in InstallIDs \cup {NoID} : installID' = id
    /\ UNCHANGED <<tier, closed, shared, installLoading, queue, began, pc, record, wire>>

\* loadInstallID: once per Client, always on the worker.
LoadInstallID ==
    /\ NeedsInstallID
    /\ \E id \in InstallIDs \cup {NoID} : installID' = id
    /\ UNCHANGED <<tier, closed, shared, installLoading, queue, began, pc, record, wire>>

RunJob ==
    /\ running # None /\ ~NeedsInstallID
    /\ running' = None
    /\ IF running = Load THEN UNCHANGED <<pc, wire>>
       ELSE Goto(running, "sent") /\ wire' = wire \cup Emitted(running)
    /\ UNCHANGED <<tier, closed, shared, install, began, jobs, overflow, loadDropped, record>>

-----------------------------------------------------------------------------
(* Metrics are recorded by the caller.                                     *)

\* RecordCounter and RecordDuration look at the install ID before they
\* validate the label; a handle has validated its values before.
AfterInstall(c) ==
    IF op[c].kind = "handle" THEN "emit"
    ELSE IF op[c].label = "invalid" THEN "invalid" ELSE "command"

\* A plausible bug: the ID is attached only by the call that asked for it.
Mut_MetricInstall(c) ==
    /\ pc[c] = "install"
    /\ IF Allows(TierBasic) /\ ~installLoading
         THEN Goto(c, "load") /\ installLoading' = TRUE
         ELSE Goto(c, AfterInstall(c)) /\ UNCHANGED installLoading
    /\ UNCHANGED <<tier, closed, shared, installID, queue, began, record, wire>>

\* metricInstallAttrs: attach the ID if it is loaded, else the first call asks
\* the worker to load it.
MetricInstall(c) ==
    /\ pc[c] = "install"
    /\ \/ /\ Allows(TierBasic) /\ installID = None /\ ~installLoading
          /\ Goto(c, "load")
          /\ installLoading' = TRUE
          /\ UNCHANGED record
       \/ /\ ~Allows(TierBasic) \/ installID # None \/ installLoading
          /\ Goto(c, AfterInstall(c))
          /\ record' = IF Allows(TierBasic) /\ installID \notin {None, NoID}
                         THEN [record EXCEPT ![c].fields = @ \cup {"install"},
                                             ![c].install = installID]
                         ELSE record
          /\ UNCHANGED installLoading
    /\ UNCHANGED <<tier, closed, shared, installID, queue, began, wire>>

DispatchLoad(c) ==
    /\ pc[c] = "load"
    /\ Goto(c, AfterInstall(c))
    /\ IF closed THEN UNCHANGED queue
       ELSE Enqueue(Load) /\ loadDropped' = ~HasRoom /\ UNCHANGED running
    /\ UNCHANGED <<tier, closed, shared, install, began, record, wire>>

EmitMetric(c) ==
    /\ pc[c] = "emit"
    /\ Goto(c, "sent")
    /\ wire' = wire \cup {Item(c, "metric", record[c])}
    /\ UNCHANGED <<tier, closed, shared, install, queue, began, record>>

-----------------------------------------------------------------------------
\* Shutdown sets its flag.
Close ==
    /\ ~closed
    /\ closed' = TRUE
    /\ UNCHANGED <<tier, shared, install, queue, began, pc, record, wire>>

Worker == TakeJob \/ LoadInstallID \/ RunJob

Step(c) ==
    \/ ClaimSession(c) \/ ClaimFeature(c) \/ StoreCommand(c) \/ SetKnownCommands(c)
    \/ KnownCommand(c) \/ ReadCommand(c) \/ LoadSession(c) \/ GenerateSession(c)
    \/ Dispatch(c) \/ MetricInstall(c) \/ DispatchLoad(c) \/ EmitMetric(c)

\* Every call has returned and the worker is idle: the program may stop here.
Terminated ==
    /\ \A c \in Calls : pc[c] \in Ended
    /\ running = None /\ jobs = <<>>
    /\ UNCHANGED vars

Next ==
    \/ \E c \in Calls : Step(c) \/ \E o \in Operations : Begin(c, o)
    \/ Worker
    \/ Close
    \/ Terminated

Spec == Init /\ [][Next]_vars

(* Goroutines are scheduled and a job returns; nothing is assumed of the   *)
(* host, which may never call, nor of Close.                               *)
FairSpec == Spec /\ WF_vars(Worker) /\ \A c \in Calls : WF_vars(Step(c))

-----------------------------------------------------------------------------
(* Safety.                                                                 *)

\* Nothing that is handed to the providers carries a field, an ID or an event
\* that the resolved tier does not allow, whatever the host passed.
NoFieldAboveTier ==
    \A item \in wire :
        /\ \A field \in item.body.fields : Allows(FieldTier(field))
        /\ item.body.session # None \/ item.body.install # None => Allows(TierBasic)
        /\ item.signal \in {"feature.activated", "error.raised"} => Allows(TierBasic)

\* All the records of a Client carry one session ID, or none of them does:
\* the calls that race to generate it agree on the winner's.
OneSession ==
    \A c, d \in Calls :
        record[c].session # None /\ record[d].session # None =>
            record[c].session = record[d].session

\* All the records of a Client that carry an install ID carry the same one,
\* whether the worker attached it or the goroutine of a metric.
OneInstall ==
    \A i, j \in wire :
        i.body.install # None /\ j.body.install # None => i.body.install = j.body.install

\* The session start is reported by one call at most, and so is each feature,
\* however many callers race.
ReportedOnce ==
    \A c, d \in Calls :
        /\ pc[c] \in {"session", "generate", "dispatch", "queued", "dropped", "sent"}
        /\ pc[d] \in {"session", "generate", "dispatch", "queued", "dropped", "sent"}
        /\ op[c] = op[d] /\ op[c].kind \in {"sessionStart", "feature"}
        => c = d

\* A feature or metric recorded after RecordCommandInvocation has returned is
\* attributed to a command, even if the queue dropped the invocation itself.
Attributed ==
    \A item \in wire :
        item.signal \in {"feature.activated", "metric"} /\ item.call \in commandBefore
            => item.body.command # None

\* A metric recorded after the worker has published the install ID carries it.
MetricsSeeInstallID ==
    \A item \in wire :
        item.signal = "metric" /\ item.call \in installBefore
            => item.body.install = (IF installID = NoID THEN None ELSE installID)

\* A suggestion on the wire is a command that the CLI has registered.
SuggestionRegistered ==
    \A item \in wire : item.body.suggestion # None => item.body.suggestion \in registered

\* Every call that was given up for its tier or for a full queue is counted in
\* Stats, a load of the install ID that did not fit included.
DropsCounted ==
    /\ belowTier = Cardinality({c \in Calls : pc[c] = "belowTier"})
    /\ overflow = Cardinality({c \in Calls : pc[c] = "dropped"})
                   + (IF loadDropped THEN 1 ELSE 0)

-----------------------------------------------------------------------------
(* What a comment says and the code does not do.                           *)

\* taxonomy.go:309 says "the first call asks the background worker to" load
\* the install ID, so that only the "data points recorded before it finishes"
\* go without it: the ID is loaded in the end, unless the client is closed.
InstallIDArrives == installLoading ~> (installID # None \/ closed)
=============================================================================
