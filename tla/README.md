# A specification of argvio-go

argvio-go is the telemetry SDK that a CLI written in Go embeds. The host calls
`Record...` methods from any goroutine; the SDK must send only what the user
consented to, must never block, crash or slow the host down, and must lose
nothing without saying so. These TLA+ modules model the parts of the SDK where
that is hard: the delivery queue, the state the methods share, the construction
of a client and its consent tier, the two files that several processes of one
CLI use at once, and the hooks that instrument a CLI built on cobra. TLC checks
small instances of them; TLAPS proves the safety properties that TLC checks, for
every value of the constants.

Names of variables and actions follow the source. `PROJECT.json` maps every
definition to the lines it models and lists the runs, the mutants that show
that each property can fail, the findings, the hazards and the theorems.

## The system

| Component | State | Operations | Source |
|---|---|---|---|
| Delivery queue | `jobs` (a buffered channel), `shutdown`, `stopCh`, `wg`, drop counters | `dispatch`, `worker`, `runJob`, `Flush`, `Shutdown`, `drain` | `client.go`, `safety.go` |
| Taxonomy | session ID, session flag, reported features, current command, known commands, published install ID | every `Record...` method, `SetKnownCommands`, the metric handles | `taxonomy.go`, `counter.go`, `measure.go`, `value.go`, `dims.go` |
| Install ID file | one file in the CLI's configuration directory, shared by processes | `loadOrCreateInstallID` | `install.go` |
| Consent | the consent file, the environment, the chain of providers | `New` (tier resolution), `Resolve` of each provider, `Store` | `client.go`, `consent*.go`, `tier.go` |
| Construction | options, collector, exporters, resource | `New` before and after the tier | `client.go`, `options.go`, `otlp.go`, `resource.go`, `ci.go` |
| Cobra integration | wrapped run functions, hook configuration, start time in the context | `InstrumentCobra` and its options, the pre-run, `recordPanic`, the help func, `Execute`, `RecordExit`, `RecordExitError`, suggestions | `cobrasdk/` |
| Environment, usage | nothing that changes after it is read | detection of container, terminal, package manager; `getrusage` | `environment.go`, `startup.go`, `usage*.go` |
| OpenTelemetry SDK | batch buffers, exporters | external | not in the repository |

How they interact. A `Record...` method runs on the caller's goroutine. It tests
the shutdown flag and the tier, gathers what it may send, reads or claims shared
state with atomics, and hands a closure to `dispatch`. The single worker runs
the closure, which adds the session and install IDs (and so may read or create
the install ID file) and calls the OpenTelemetry providers. Metrics skip the
queue: the caller records them, and only asks the worker, once, to load the
install ID. `Flush` and `Shutdown` push a sentinel through the same channel.
`New` fixes the tier of the process before any of this, and `Store`, called by
the consent prompt of this or another process, rewrites the file it reads. The
hooks of `cobrasdk` run inside the run functions of the host: they turn an
Execute, its result and its panics into `Record...` calls on the host's main
goroutine, and share the Contexts and the stack of the commands with the host.

What is hard:

- *interleaving*: the check of the shutdown flag and the send are two steps; the
  worker's `select` picks at random between a job and the stop signal; session
  and feature claims race; two processes create the install ID file together;
- *limits*: a full queue drops records, and also the one job that loads the
  install ID; a `Flush` on a full queue has to wait without a bound of its own;
- *failure*: jobs panic, exports fail, writes fail after the truncation, the
  process dies between the truncation and the write, providers panic or return
  a tier out of range;
- *time*: contexts that never end, or that end while the worker is stuck;
- *consent*: a dozen methods each gate each of their fields separately; the
  three exporters are built by six functions, and CI is recognised by two lists;
- *the host's control flow*: run functions call each other past cobra, panics
  cross several of them and are recovered half-way, the process ends in the
  middle, and the vendor's classifiers may panic while a panic is recorded;
- *what is left behind*: cobra keeps the Context and the flags of every command
  from one Execute to the next, and the hooks read both.

What makes each part correct:

- queue: FIFO execution, `drain` keeps its promise, at most one shutdown, no job
  on a provider that is shut down, every loss explained or counted, recording
  never blocks, bounded calls return;
- taxonomy: nothing above the tier is sent, one session ID and one install ID
  per client, once-only reports are sent once, attribution is not lost, only
  registered suggestions leave the process, drops are counted;
- install ID: only persisted IDs are reported, and an install keeps its ID;
- consent: no tier that nobody chose, CI is anonymous, a stored choice is used;
- construction: an opt-out asks nobody and builds nothing, and the exporters of a
  live client reach one collector, in the way that New and the environment say;
- cobra: each run of a command has one outcome, recorded with its own exit code,
  class and latency, mistyped commands and views of the help each count once, a
  recorded crash is flushed, and the host does not notice.

## The modules

| Module | Content |
|---|---|
| `Delivery` | What the pipeline promises: an ordered, at-most-once service with barriers (`Flush`, `Shutdown`). No channel, worker or sentinel. |
| `ClientQueue` | The pipeline of `client.go`. It instantiates `Delivery` under the refinement mapping at its end. |
| `ClientQueueProofs` | Types, control, order, race and loss invariants, and the refinement. |
| `InstallID`, `InstallIDProofs` | The install ID file and its processes. |
| `Taxonomy` | The `Record...` methods over the shared state of one client. |
| `TaxonomyProofs` | Its types and control, sessions and tiers. |
| `TaxonomySharedProofs` | Its once-only reports, suggestions, install IDs, attribution and counts. |
| `NewConfig` | What `New` derives from options and environment, as operators: opt-outs, CI, collector, exporters. |
| `Consent`, `ConsentProofs` | `New` in several runs: opt-out, tier resolution, exporters, while Stores rewrite the file. Extends `NewConfig`. |
| `Suggest` | The command tree, `editDistance` and `nearestCommand`, and a definition of the nearest command without a table. |
| `HostCLI` | What a CLI built on cobra does without hooks, and the only places where hooks may disturb it. |
| `CobraHooks` | `cobrasdk.go` over that host. Extends `Suggest` and instantiates `HostCLI`. |
| `SuggestProofs` | What `editDistance` and `nearestCommand` compute. |
| `CobraHooksProofs` | The stack, the Contexts, the outcomes in the log, and the refinement of `HostCLI`. |
| `CobraRecordsProofs` | What the other records say: the class of an error, an unknown command and its suggestion. Extends both. |
| `MC...` | What TLC needs: the sets of operations or setups of a run, and symmetry. |

### ClientQueue

A call of `dispatch` is a member of `Records`, a call of `Flush` or `Shutdown`
a member of `Flushes` or `Shutdowns`; the sentinel of such a call is the call
itself in the channel. `call` and `pc` are program counters.

- `DispatchCheck`, `Send` and `Overflow` are the two steps of `dispatch`.
- `WorkerTake` receives a job; as in Go, a receive from a full channel lets in
  one blocked sender in the same step. `WorkerStop` is the other branch of the
  `select`: with both ready either may happen.
- `JobReturn` and `JobPanic` are the end of a record's job, `RunSentinel` that
  of a sentinel.
- `FlushEnter` and `ShutdownEnter` are the checks at the top (a compare-and-swap
  for Shutdown). `DrainSend`, `DrainBlock`, `DrainGiveUp` and `DrainDone` are
  `drain`; `CloseStop`, `Join` and `Export` are what follows. `CtxExpire` ends
  a context, except those in `Unbounded`: the contexts without a deadline that
  the host may give to `Flush`. `Shutdown` always adds a deadline.

History variables (`ticket`, `sent`, `finished`, `before`, `racing`) only record
what happened; no guard reads them.

### InstallID

One action per system call and per outcome: a read that succeeds (`ReadValid`,
`ReadInvalid`) or fails (`ReadFails`), `Generate`, the two halves of
`os.WriteFile` (`OpenTruncate`, `Write`), `Fail` at any of them, and `Crash`,
which is the host process ending while its worker is there.

### Taxonomy

A call begins with its gate (`Begin`) and is cut at each access to state that
another goroutine may change. A record is the set of its fields: their values do
not matter to the tier, except for the IDs, the command and the suggestion,
which properties compare. `FieldTier` is written from the comments of the
`Attr...` constants, and the methods from their code, so that `NoFieldAboveTier`
compares two independent readings of the source. The syntax of names
(`commandName`, `validIdentifier`, `truncateUTF8`) is reduced to valid or
invalid. The queue is reduced to enqueue-or-drop and the shutdown to its flag:
`ClientQueue` has both in full.

### Consent

Each run of the CLI asks the providers of its setup in turn (`Ask`); a custom
provider may answer anything, an error, a panic or a tier out of range included.
`StoreTruncate` and `StoreWrite` are the halves of `os.WriteFile`; `size` is
there because two overlapping Stores of different tiers leave the tail of the
longer one behind the shorter one, and the file is then no JSON. The start of a
run (`StartOff`, `Start`) and `Build` are the rest of `New`: what it decides from
its options and the environment is in `NewConfig`. `New` reads the environment
twice, for the opt-out and for the resource; nothing changes it in between. In
`Build` the exporters come into being together or the client is disabled, as
`buildExporters` returns at the first error; the comment at `otlp.go:22` hopes
that a failure of one does not prevent the others, which the code does not
attempt.

The six functions of `otlp.go` are six operators, as nothing but care keeps them
alike. Each starts from what an exporter of OpenTelemetry is before any option
(`GRPC`, `HTTP`: external) and applies the options that the code passes. A URL
settles everything. For a bare host the code passes the host alone, and the
exporter takes the encryption and, over HTTP, the path from the
`OTEL_EXPORTER_OTLP_*` variables, as `options.go:84` says, whether or not New
itself may fall back on them. A launch therefore has an `ambient` for each
signal: what those variables, of that signal or of all, make of an exporter that
is told nothing.

### CobraHooks

One call of a run function is an entry of `runs`, with the run function, the
command it was given and its caller; `top` is the one that is running and `at`
says where the goroutine is in it. `Execute` resolves the command, gives it a
Context and runs the root's persistent pre-run (`PreRun`). Inside a run function
(`inner`) the host may `Finish`, `Panic`, `Call` another run function directly,
or end the process through `RecordExit` or `RecordExitError`. A wrapped run then
goes through `Record`, and through `recordPanic` when anything panicked, the
recording included. `Leave` and `Raise` return to the caller, who may recover a
panic.

`HelpFunc` and `RecordExecuteError` are the two observers of a mistyped command.
An Execute leads to the first when it shows help (`Help`), a run function when
it shows the help of another command, as cobra's own help command does
(`ShowHelp`). The history `asks` says what each time the user had typed and asked
for, and what earlier Executes had left in the flags; `Due` says from that alone
what is to be recorded. It does not look at the log, and the hooks do not look at
it.

A Context is the start time that the hook puts into it; each Execute has its own
time. It outlives the Execute: cobra sets the Context of a command that has
none to that of the root, and never sets it again (`Resolved`). The flags
outlive it as well: pflag never forgets a `--help`, and keeps the arguments
until it parses again. So a `--help` of an earlier Execute hides a mistyped
command from `mistypedSubcommand`, and the arguments of a mistyped command pass
for one when the help of that command is shown again without parsing. `Misled`
names these two cases, and `UnknownOnce` says that there are no others. Errors
and exit codes are kept as far as classification tells them apart: a classifier
is a name, and the class of an error is the name of the function that classified
it. `recordOutcome` may panic in two ways, a nil Context and a classifier of the
vendor, and `Outcomes` lists what it has recorded by then. The client is what
the hooks see of it: open or shut down, and a log.

`cobra` itself and the host are external and modelled from how `cobrasdk.go`
uses them. Limits: a run function does not call Execute, an error of a run
function is not taken for an unknown command (`RecordExecuteError` tells them
apart by the text), cobra's post-run hooks do not exist, and flag names are left
out. The host calls `Execute` and not `ExecuteContext`, whose Context has no
start time either. Only the arguments of commands that cannot run are kept, as
nobody reads the others. `mycli help` with an unknown topic shows a usage text
without the help func, and is not recorded. A help func of the vendor that shows
help for a command without a Context is not modelled.

### HostCLI and Delivery

Two abstract specifications say what the detailed ones promise. `HostCLI` is the
host without hooks: its calls, their results, its panics and the commands that
have a Context. `Disturb` lists the only panics that instrumentation adds, so
that `ImplementsHost` says that recording is invisible otherwise: every step of a
hook is a stutter, and a result or a panic passes through the wrapper unchanged.

## The runs

| Run | Instance | Distinct states | What it shows |
|---|---|---|---|
| `queue_safety` | 3 records, 1 Flush, 2 Shutdowns, queue of 2 | 1 053 579 | All safety properties of the queue, and that it implements `Delivery`. |
| `queue_liveness` | 2 records, 1 Flush, 1 Shutdown, queue of 1 | 224 711 | Nobody waits for ever, under the fairness below. |
| `flush_vs_shutdown` | 1 record, 1 Flush without a deadline, 1 Shutdown | violation | `FlushReturns` fails. |
| `shutdown_hung_job` | 2 records, 1 Flush, 1 Shutdown | violation | `ShutdownBounded` fails. |
| `install_id` | 4 processes | 10 436 | Only persisted IDs are reported; the ID changes only when a read failed or was overtaken. |
| `taxonomy_tiers` | 2 calls of any method, 2 commands, queue of 1 | 229 539 | Tier, suggestions and drop counts. |
| `taxonomy_races` | 3 calls of the racing methods, 2 install IDs, queue of 1 | 1 729 093 | One session ID, one install ID, once-only reports, attribution. |
| `install_id_load_dropped` | 2 calls, queue of 1 | violation | `InstallIDArrives` fails. |
| `consent` | 1 run, 2 Stores, 11 setups, 10 launches, 2 default tiers | 2 468 176 | No escalation, CI is anonymous, the stored tier is used, opt-outs are silent, one collector. |
| `cobra_hooks` | 6 commands, 5 lists of options, 2 Executes, 3 run functions and views, 5 words | 764 703 | Outcomes, classes, latencies, views, unknown commands and suggestions are right, and the host is undisturbed but for `Disturb`. |
| `cobra_stale_latency` | as `cobra_hooks` | violation | `LatencyFromPreRun` fails. |
| `cobra_crashes_host` | as `cobra_hooks`, with a root that cannot run and validates its arguments | violation | `HostUndisturbed` fails. |

Why the bounds are enough. The queue properties relate at most two records and
two drains: with a queue of two and three records it fills, drops, and is
entered while a sentinel is blocked, and with two Shutdowns the
compare-and-swap is lost by one. A client has one worker, so more calls only
lengthen the channel. Four processes give the install ID file a reader, a
writer, one that is overtaken and one that crashes. The races of the taxonomy
are between two callers and the worker; the third call fills the queue or
begins after the others. In `consent` two Stores are needed to overlap; runs do
not influence each other, so one is enough. The launches cover each opt-out,
both transports, a bare host and a URL with a path, the collector of the
environment, a bare host while the environment names a collector in the clear
and New may not use it, a variable that sends one signal in the clear and under
another path, and a CI system of each list.

The tree of `cobra_hooks` has a command of every kind: with a RunE (the root is
one), with a Run, with none, added after `InstrumentCobra`, with a validator of
its arguments, and with a pre-run of its own that shadows the root's. `MaxRuns`
bounds the calls of run functions and the asks together. Three are enough for a
panic that crosses a wrapped and an unwrapped run and is recovered by the first,
and two Executes for a command that runs again, after the root, after its help
was shown, or after a recovered panic. The option lists replace each kind of
classifier by another and switch off each hook. The words are empty, equal to a
`SuggestFor`, one edit away, two edits away from two commands, and too long.
Longer words are left to `SuggestProofs`. Case folding is not modelled: words
are compared as the code compares them, folded already.

The safety properties of the passing runs are all proved, so that their bounds
matter only to liveness; the runs show that their interesting cases happen.
Every run checks for deadlock except `flush_vs_shutdown`: its model can get
stuck, and that is what the run shows. Symmetry is used for safety only, and
among calls that no operator tells apart.

Every property of a passing run has a mutant: a plausible bug written next to
the definition it replaces (named `Mut...`), under which the same run reports
the property violated.

### What the violations show

1. `flush_vs_shutdown`: `WithShutdownTimeout` is said to bound Shutdown and Flush
   (`options.go:161`). Flush never applies it. A Flush that has passed its check
   when a Shutdown begins may find its sentinel behind the stop signal, and with
   a context that never ends it never returns.
2. `shutdown_hung_job`: Shutdown is said to be bounded by its context
   (`client.go:351`). `wg.Wait` is not: a job stuck in file I/O holds it.
3. `install_id_load_dropped`: the first metric call claims the load of the
   install ID and then dispatches it (`taxonomy.go:322`). If the queue is full
   the load is dropped and no later metric asks again.
4. `cobra_stale_latency`: a latency is said to be the time between the
   `PersistentPreRunE` and the end of the RunE (`docs/cobra-integration.md:80`). A
   command with a pre-run of its own never gets a start time, and usually has no
   latency. But once a runnable root has been executed in the same process, its
   Context holds the start time of that Execute, cobra hands it on to a command
   that has none, and `recordOutcome` measures from it (`cobrasdk.go:628`).
   `LatencyIsOwn` states what does hold.
5. `cobra_crashes_host`: a bug of the package "should never crash a CLI that
   embeds it" (`doc.go:17`). A run function that calls the RunE of a command that
   was not executed, with that command, as it could before `InstrumentCobra`, gets
   a nil pointer panic after that RunE has succeeded: `recordOutcome` reads the
   start time from a nil Context (`cobrasdk.go:628`). The Run of a wrapped command
   is cleared (`cobrasdk.go:517`), so calling that directly panics as well.

Three smaller disagreements are visible in the models without a run.
An error of a provider is said to mean `TierAnonymous` (`consent.go:12`,
`consent.go:17`) and to mean the tier of `WithDefaultTier` (`options.go:123`); the
code does the latter, and so does `Chosen` in `Consent`.
`BelowTierDropped` is said to count records and fields (`safety.go:30`), while
only whole records are counted. Two first runs of a CLI at once may report two
install IDs (`docs/consent.md:63` speaks of one for an install);
`StableUnlessDisturbed` states exactly when.

### Fairness

Safety runs use none. `ClientQueue` has three layers. `SDKFairness` says that
goroutines are scheduled, that a context with a deadline ends, and that an
export returns, because the exporters have a timeout. It assumes nothing of the
host and nothing of jobs, which do file I/O. `RecordNeverBlocks` and
`BoundedFlushReturns` hold under that alone, `ShutdownReturns` and
`QueuedRunsOrShutdown` only while no job hangs, which they state themselves.
`flush_vs_shutdown` fails even under `JobFairness`, where every job returns.
Weak fairness suffices: what a goroutine waits for here stays enabled once it is.
The blocked sender of a full channel is served by the worker's own step.
`Taxonomy` assumes that calls in progress and the worker go on. `CobraHooks` and
`Consent` state no fairness: the host may stop or be killed anywhere.

## What is proved

All theorems hold for any finite or infinite sets of calls, processes, runs and
names, and any queue size, under the assumptions that the modules name
(disjointness of the sets and of the special values, a queue of at least one
place, finitely many records where they are counted). What a specification does
is proved with inductive invariants; what an operator computes, by induction
over the numbers or prefixes that it runs through.

**ClientQueueProofs.** `TypeCorrect` is the base. `ControlCorrect` says who can be
where: at most one Shutdown is at work, the worker has left before the providers
go down, a drained call has been through its wait. From it follow
`JobsNeverMeetDeadProviders` and `ShutdownIsSingle`. `OrderCorrect` is the heart:
the records in the channel carry consecutive tickets, `finished + 1` first, with
the running one in front, and every ticket that a sentinel waits for is ahead of
it or already finished. `DrainCoversPrior` alone is not inductive, since it says
nothing of a sentinel that is still on its way. It gives `DrainKeepsItsWord` and
`ExecutedInOrder`. `RaceCorrect` says that after the compare-and-swap only those
who had passed the check before still send, and gives `LossesAreRacers`.
`NothingLostSilently` counts dropped records with the cardinality theorems.
`Refinement` maps every step to one of `Delivery` or to a stutter, from all four.

**InstallIDProofs.** One invariant holds types (`TypeCorrect`), persistence and
stability: while nobody excused has touched the file, an ID that has been
reported is the one in the file, and no process past its read can replace it
unless it is excused.

**TaxonomyProofs.** `ControlCorrect` types the state and keeps each call on the
route of its method (`Route`), which says at which tier and for which methods a
step can be reached. `SessionsCorrect`: a record that has a session has the
client's; this makes the loser of the compare-and-swap harmless and gives
`SessionIsOne`. `ChannelCorrect`: only calls that passed their gate are in the
channel. `PermitsCorrect` and `WireCorrect`: what is gathered, and then what is
sent, is allowed field by field. They give `NothingAboveTier`, the promise of
the consent documents.

**TaxonomySharedProofs.** On top of the control and the channel of the previous
module, one invariant for each piece of shared state. `Claims`: a call that got
past the compare-and-swap of a session start or a feature is the only one that
did, and only such a call sends the report, which gives `OneReport`.
`Suggestions` follows a suggestion from the set of known commands to the wire
(`SuggestionsAreCommands`). `Installs` and `Visible`: an install ID in a record,
held by the worker or sent is the published one (`InstallIsOne`), and a metric
that began after the publication reads it (`PublishedIsSeen`). `Attribution` is
the same for the current command (`CommandIsAttributed`). `Counts` adds to
`DropsCounted` that one call at most, the one that claimed it, is about to
dispatch the load of the install ID, and then no load has been dropped; the
cardinality theorems do the counting (`DropsAreCounted`).

**ConsentProofs.** `TypeCorrect`. `TierIsLawful`: what is in the file while a run
asks has been recorded as granted, so each answer is lawful, and a decision
keeps it. `DecidingCorrect`: the first provider decides the runs it can answer,
which gives `CIIsAnonymous` and `StoredIsUsed`. `Built`: a run has exporters
exactly when it is live, and those of its own launch, which gives
`OptOutAsksNothing`. For `CollectorIsOne`, `OverGRPC` and `OverHTTP` say what the
builders of either transport make of each signal, one function after the other,
`Bare` and `ConfiguredReaches` what is left to the environment, and
`PathsDiffer` that two signals under one URL do not share a path.

**CobraHooksProofs.** For every tree, call graph, list of options and number of
runs. `StackCorrect`: the callers of the running function are below it, still
running, and nobody else is. `ContextsCorrect`: the command of an Execute in
progress keeps the start of that Execute, if the pre-run of the root sees it;
any start time in a Context is that of an Execute which it saw (`Traced`), and
for a command that it does not see, of an earlier one (`Inherited`).
`BooksCorrect` is the heart: at each place of the goroutine it says what each
run has in the log: nothing before its recording, its outcome after it, one more
with the exit code of a panic if the classifier failed after the outcome was
recorded. The properties look only at runs whose recording is over and are not
inductive, as the recording of a panic takes two steps and may cross several
runs. It gives `OutcomesRecordedOnce`, `OutcomesNeverMissed`, `CrashesFlush` and
`LatenciesOwn`. `Refinement` maps every step to one of `HostCLI` or to a
stutter; it needs the stack alone.

**SuggestProofs.** `nearestCommand` and `editDistance` are folds, and a row of
the table is a recursive function. The induction theorems of the library take an
operator as their parameter and cannot be used, so `Induction` argues from a
least counterexample, which the minimal elements of a well-founded relation
provide. `FoldExists` and `FoldTable` turn a fold into the table of its
intermediate results, and with that `editDistance` into the table of distances
between prefixes. `EditDistanceIsLeast` compares it with words that are edited
one letter at a time. One edit changes a distance by one at most, so that fewer
edits are not enough; and each cell of the table comes from a neighbour that is
one edit away at most, so that as many are. `WithinEditsIsDistance` is the same
for the definition in `Suggest`, which the run uses. `NearestCommandIsNearest`
follows the search through the listing: it holds a nearest one of the commands
seen so far, or none of these is within the limit.

**CobraRecordsProofs.** Four invariants on top of the stack and the books of
`CobraHooksProofs`, and two theorems about options.

- `LastOptionsClassify`: after each prefix of a list of options, the
  configuration holds the function for both that came last, or those for the
  category and the reason that followed it (`Says`). `ExitOptionsFollow`: the
  options of `RecordExitError` over those of the tree are one list.
- `Values` types the state and says that a panic on its way has a value and that
  the configuration is the one that the options make (`TypeCorrect`).
- `Flagged` types what earlier Executes have left in the flags: only a command
  that cannot run keeps an argument.
- `Counted` divides the records of help and of unknown commands among the asks:
  each lies between one ask and the next, and each ask has the one that `Due`
  says, or none. `Records` is the step of an observer, and the lemmas about
  `HelpFunc` and `RecordExecuteError` show that it is what they do: that what the
  flags say is what the user typed now, unless `Misled` says otherwise, and that
  the suggestion is nearest to that word, by `NearestCommandIsNearest`. Every
  other step adds no such record (`Other`). It gives `UnknownsCountedOnce` and
  `SuggestionsNearest`.
- `Classed` holds the class that is due to each outcome in the log. The class
  after a panic depends on what the books know of its run, and only a process
  that ends has exit options, after which nothing runs. It gives
  `ErrorsCorrectlyClassified`, which is not inductive: without the books, a run
  that has recorded its error could still end in another way.

## What is only model-checked

The four liveness properties of `queue_liveness`: `RecordNeverBlocks`,
`BoundedFlushReturns`, `ShutdownReturns` and `QueuedRunsOrShutdown`. Temporal
proofs under fairness need `ENABLED`, which the prover does not support. Every
other property of a passing run is proved. The runs that show a violation are
counterexamples and have nothing to prove.

## What is not modelled

- The detection of container, terminal, package manager, binary size, startup
  time and resource usage (`environment.go`, `startup.go`, `usage*.go`): one
  sequential reading each, with no state that changes and nobody to race with.
  The fields that they fill are in `Taxonomy`.
- The callbacks of `session_state.go`: sequential, recovered, and their results
  cut to a vocabulary. In `Taxonomy` they are fields of a record.
- Timeouts, headers, the vendor's resource attributes, and the names, units and
  buckets of the instruments: data that no decision of `New` depends on.
- `internal/fakeotlp`: a collector for the tests.
- The batch processors and exporters of OpenTelemetry: third-party code. An
  export here returns, with or without an error.
- The methods of a nil or never-constructed `Client`, which return at once.
- Limits on lengths and the syntax of names.

## Plan

In this order:

1. `ExportPipeline`: the batch buffers as an external component behind the
   worker and the metric calls, composed with `ClientQueue`, to state what Flush
   promises up to the exporter and which drops Stats misses.
2. A composition of `InstallID` with `Taxonomy`: several processes, each with its
   worker, share the file, so that records rather than processes carry the IDs.
3. `Environment`: the precedence of the variables that `environment.go` reads, as
   operators in the style of `NewConfig`.
