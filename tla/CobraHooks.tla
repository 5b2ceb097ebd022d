----------------------------- MODULE CobraHooks -----------------------------
(***************************************************************************)
(* cobrasdk: a command tree instrumented by InstrumentCobra.  The root's   *)
(* persistent pre-run records the invocation, the run functions present    *)
(* at that time are wrapped to record their outcome and their panics, the  *)
(* help func records help and mistyped subcommands, and Execute records    *)
(* unknown commands of the root (cobrasdk.go).                             *)
(*                                                                         *)
(* Everything runs on the host's main goroutine, which may execute several *)
(* commands, recover their panics, and call run functions directly.  What  *)
(* cobra and the host do on their own is HostCLI.  The client is what the  *)
(* hooks see of it: it takes records until it is shut down.                *)
(***************************************************************************)
EXTENDS Suggest

CONSTANTS
    Kind,         \* "runE", "run" or "none": the run function of each command
    Calls,        \* the run functions that each run function may call directly
    Shows,        \* the commands whose help each run function may show
    Late,         \* the commands added after InstrumentCobra
    Shadowed,     \* those whose nearest persistent pre-run is not the root's
    Validating,   \* those with a validator of their own for their arguments
    OptionLists,  \* the options that InstrumentCobra may be given
    ExitOptions,  \* the options that RecordExitError may be given
    ExitCodes,    \* the codes with which a run function may end the process
    MaxExecutes,  \* bounds: the Executes, and the calls of run functions and
    MaxRuns,      \* what is given to the observers of help, taken together
    None

Panics == {"host", "nilContext", "nilRun", "classifier"}

Runnable == {c \in Commands : Kind[c] # "none"}

ASSUME HooksAssumption ==
    /\ Kind \in [Commands -> {"runE", "run", "none"}]
    /\ Calls \in [Commands -> SUBSET Runnable]
    /\ Shows \in [Commands -> SUBSET Commands]
    /\ Late \subseteq Commands \ {Root} /\ Shadowed \subseteq Commands \ {Root}
    /\ Validating \subseteq Commands
    /\ ExitCodes \subseteq Nat
    /\ MaxExecutes \in Nat /\ MaxRuns \in Nat
    /\ None \notin Panics /\ None \notin {"help", "unknown"} /\ None \notin Typed

\* A Context is its start time: that of an Execute, or one of these two.
NoContext == -1
NoStart == 0

\* Flags before their first parse: no argument, and no --help.
NotParsed == [typed |-> None, help |-> FALSE]

panicExitCode == 2
panicReason == "panic"

VARIABLES
    options,  \* what InstrumentCobra is given
    config,   \* the hookConfig of the tree
    runs,     \* every call of a run function: what and for which command
    top,      \* the one that is running, 0 when there is none
    at,       \* where the goroutine is
    value,    \* what the last call ends in: ok, err, or the value of a panic
    ctx,      \* the Context of each command
    flags,    \* what the last parse left in the flags of each command: pflag
              \* forgets no --help; the arguments of one that can run are left out
    closed,   \* the client is shut down
    log,      \* the records that the client has taken
    known,    \* the command paths given to SetKnownCommands
    executes, \* the number of Executes
    (* history *)
    asks      \* what the user and the run functions gave an observer to see

host == <<runs, top, at, value, ctx, flags, executes>>
client == <<closed, log, known>>
given == <<options, config>>
vars == <<given, host, client, asks>>

-----------------------------------------------------------------------------
(* hookConfig.                                                             *)

DefaultConfig ==
    [category |-> None, reason |-> None, both |-> None,
     help |-> TRUE, run |-> TRUE, unknown |-> TRUE, panics |-> TRUE]

\* hookConfig{}
NoConfig ==
    [category |-> None, reason |-> None, both |-> None,
     help |-> FALSE, run |-> FALSE, unknown |-> FALSE, panics |-> FALSE]

\* What recordPanic classifies with: not a function of the vendor.
PanicConfig == [NoConfig EXCEPT !.both = panicReason]

Without == {"help", "run", "unknown", "panics"}

\* A function of the vendor is a name; nil is None.
HookOptions == [sets : Without \cup {"category", "reason", "both"}, fn : STRING \cup {None}]

ASSUME OptionsAssumption ==
    /\ OptionLists \subseteq Seq(HookOptions)
    /\ ExitOptions \subseteq Seq(HookOptions)
    /\ None \notin STRING \cup {panicReason} /\ None \notin ExitOptions

\* A plausible bug: a classifier does not clear the one that it replaces.
Mut_Apply(cfg, option) ==
    IF option.sets \in Without THEN [cfg EXCEPT ![option.sets] = FALSE]
    ELSE IF option.fn = None THEN cfg
    ELSE [cfg EXCEPT ![option.sets] = option.fn]

\* An option clears what it supersedes; a nil function is ignored.
Apply(cfg, option) ==
    IF option.sets \in Without THEN [cfg EXCEPT ![option.sets] = FALSE]
    ELSE IF option.fn = None THEN cfg
    ELSE IF option.sets = "both"
         THEN [cfg EXCEPT !.both = option.fn, !.category = None, !.reason = None]
         ELSE [cfg EXCEPT ![option.sets] = option.fn, !.both = None]

ApplyAll(cfg, opts) == FoldLeft(Apply, cfg, opts)

\* The category and the reason of an error, named by the function they are
\* from; None is the unknown category, and no reason.
classify(cfg) ==
    IF cfg.both # None THEN [category |-> cfg.both, reason |-> cfg.both]
    ELSE [category |-> cfg.category, reason |-> cfg.reason]

\* The functions of the vendor that classify calls: each of them may panic.
Called(cfg) == {classify(cfg).category, classify(cfg).reason} \ {None, panicReason}

Wrapped(fn) == config.run /\ Kind[fn] # "none" /\ fn \notin Late

-----------------------------------------------------------------------------
(* The client.                                                             *)

Accepted(records) == IF closed THEN <<>> ELSE records

Session == [call |-> "session"]
SessionStart == IF \E i \in DOMAIN log : log[i].call = "session" THEN <<>> ELSE <<Session>>

Completed(i, code) ==
    [call |-> "completed", run |-> i, cmd |-> runs[i].cmd, code |-> code,
     start |-> ctx[runs[i].cmd]]
Raised(i, cfg) == [call |-> "error", run |-> i, class |-> classify(cfg)]

\* The ways recordOutcome may go: what it records, and the panic it ends in.
\* It reads the start time of a nil Context, and the classifier of an error
\* is called once the command is recorded.
Outcomes(i, cfg, failed, code) ==
    IF ctx[runs[i].cmd] = NoContext THEN {[records |-> <<>>, panic |-> "nilContext"]}
    ELSE IF ~failed THEN {[records |-> <<Completed(i, code)>>, panic |-> None]}
    ELSE {[records |-> <<Completed(i, code), Raised(i, cfg)>>, panic |-> None]}
         \cup {[records |-> <<Completed(i, code)>>, panic |-> "classifier"] : fn \in Called(cfg)}

commandPaths == {Root} \cup DOMAIN Parent

\* recordUnknown: the client sends the suggestion if it is a known command.
recordUnknown(parent, typed) ==
    /\ known' = IF closed THEN known ELSE commandPaths
    /\ LET near == nearestCommand(parent, typed)
           suggestion == IF near \in known' THEN near ELSE NoCommand
       IN  log' = log \o Accepted(SessionStart \o
                    <<[call |-> "unknown", cmd |-> parent, suggestion |-> suggestion]>>)
    /\ UNCHANGED closed

-----------------------------------------------------------------------------
(* The run of a command.                                                   *)

Init ==
    /\ options \in OptionLists /\ config = ApplyAll(DefaultConfig, options)
    /\ runs = <<>> /\ top = 0 /\ at = "idle" /\ value = None
    /\ ctx = [c \in Commands |-> NoContext] /\ executes = 0
    /\ flags = [c \in Commands |-> NotParsed]
    /\ closed = FALSE /\ log = <<>> /\ known = {}
    /\ asks = <<>>

Enter(fn, cmd, execute) ==
    /\ runs' = Append(runs, [fn |-> fn, cmd |-> cmd, caller |-> top, execute |-> execute,
                             end |-> "running", code |-> 0, open |-> FALSE, seen |-> FALSE,
                             exit |-> None])
    /\ top' = Len(runs) + 1

\* cobra gives the root a Context, and the command it resolves, if that has none,
\* the Context of the root, with the start time that an earlier run left there.
Resolved(c) ==
    LET global == IF ctx[Root] = NoContext THEN NoStart ELSE ctx[Root]
    IN  [d \in Commands |-> IF d \in {Root, c} /\ ctx[d] = NoContext THEN global ELSE ctx[d]]

Room == Len(runs) + Len(asks) < MaxRuns

Again == at = "idle" /\ executes < MaxExecutes /\ executes' = executes + 1

\* A plausible bug: the start time is not set when there is one already.
Mut_PreRun(c) ==
    IF c \in Shadowed THEN ctx' = Resolved(c) /\ UNCHANGED log
    ELSE /\ ctx' = [Resolved(c) EXCEPT ![c] = IF ctx[c] > 0 THEN ctx[c] ELSE executes']
         /\ log' = log \o Accepted(SessionStart \o <<[call |-> "invoked", cmd |-> c]>>)

\* The root's persistent pre-run, unless another one is nearer to c.
PreRun(c) ==
    IF c \in Shadowed THEN ctx' = Resolved(c) /\ UNCHANGED log
    ELSE /\ ctx' = [Resolved(c) EXCEPT ![c] = executes']
         /\ log' = log \o Accepted(SessionStart \o <<[call |-> "invoked", cmd |-> c]>>)

\* A command whose --help was once given shows its help for ever.
Execute(c) ==
    /\ Again /\ c \in Runnable /\ ~flags[c].help /\ Room
    /\ Enter(c, c, executes')
    /\ PreRun(c)
    /\ at' = "hook" /\ value' = None
    /\ UNCHANGED <<given, flags, closed, known, asks>>

\* The pre-run of the vendor itself: the command runs unless it fails.
Hook ==
    /\ at = "hook"
    /\ \/ at' = "inner" /\ value' = None /\ UNCHANGED runs
       \/ /\ at' = "return" /\ value' = "err"
          /\ runs' = [runs EXCEPT ![top].end = "skipped"]
       \/ /\ at' = "raise" /\ value' = "host"
          /\ runs' = [runs EXCEPT ![top].end = "skipped"]
    /\ UNCHANGED <<given, top, ctx, flags, executes, client, asks>>

\* How run i ended, and what the client and the Context were at that time.
Ended(i, how, code) ==
    [runs EXCEPT ![i].end = how, ![i].code = code, ![i].open = ~closed,
                 ![i].seen = ctx[runs[i].cmd] # NoContext]

Finish ==
    /\ at = "inner"
    /\ \/ value' = "ok" /\ runs' = Ended(top, "ok", 0)
       \/ value' = "err" /\ Kind[runs[top].fn] = "runE" /\ runs' = Ended(top, "failed", 1)
    /\ at' = IF Wrapped(runs[top].fn) THEN "record" ELSE "return"
    /\ UNCHANGED <<given, top, ctx, flags, executes, client, asks>>

\* The running function panics: its deferred recordPanic runs, if it has one.
PanicIn(i, v) ==
    /\ runs' = Ended(i, "panicked", panicExitCode)
    /\ at' = IF Wrapped(runs[i].fn) THEN "unwind" ELSE "raise"
    /\ value' = v

Panic ==
    /\ at = "inner"
    /\ PanicIn(top, "host")
    /\ UNCHANGED <<given, top, ctx, flags, executes, client, asks>>

\* The vendor calls d.RunE or d.Run, passing d or its own command.  The
\* wrapper of a Run is a RunE, and its Run is nil.
Call(d, cmd) ==
    /\ at = "inner" /\ d \in Calls[runs[top].fn] /\ cmd \in {d, runs[top].cmd}
    /\ Room
    /\ IF Wrapped(d) /\ Kind[d] = "run"
         THEN PanicIn(top, "nilRun") /\ UNCHANGED top
         ELSE Enter(d, cmd, 0) /\ UNCHANGED <<at, value>>
    /\ UNCHANGED <<given, ctx, flags, executes, client, asks>>

\* A plausible bug: an error that is returned is taken for a panic, too.
Mut_Record ==
    /\ at = "record"
    /\ \E o \in Outcomes(top, config, value = "err", IF value = "err" THEN 1 ELSE 0) :
          /\ log' = log \o Accepted(o.records)
          /\ IF o.panic = None
               THEN IF value = "err" THEN at' = "unwind" /\ value' = "host"
                    ELSE at' = "return" /\ UNCHANGED value
               ELSE at' = "unwind" /\ value' = o.panic
    /\ UNCHANGED <<given, runs, top, ctx, flags, executes, closed, known, asks>>

\* The wrapper records what the function it wraps has returned.
Record ==
    /\ at = "record"
    /\ \E o \in Outcomes(top, config, value = "err", IF value = "err" THEN 1 ELSE 0) :
          /\ log' = log \o Accepted(o.records)
          /\ IF o.panic = None
               THEN at' = "return" /\ UNCHANGED value
               ELSE at' = "unwind" /\ value' = o.panic
    /\ UNCHANGED <<given, runs, top, ctx, flags, executes, closed, known, asks>>

\* A plausible bug: nothing guards the recording of a panic.
Mut_recordPanic ==
    /\ at = "unwind"
    /\ at' = "raise"
    /\ IF ~config.panics THEN UNCHANGED <<value, closed, log>>
       ELSE \E o \in Outcomes(top, PanicConfig, TRUE, panicExitCode) :
               /\ log' = log \o Accepted(o.records)
               /\ closed' = (closed \/ o.panic = None)
               /\ value' = IF o.panic = None THEN value ELSE o.panic
    /\ UNCHANGED <<given, runs, top, ctx, flags, executes, known, asks>>

\* A plausible bug: the client is shut down before the panic is recorded.
MutEarly_recordPanic ==
    /\ at = "unwind"
    /\ at' = "raise"
    /\ closed' = (closed \/ config.panics)
    /\ UNCHANGED <<given, runs, top, value, ctx, flags, executes, log, known, asks>>

\* A plausible bug: the client is not flushed before the panic goes on.
MutKeep_recordPanic ==
    /\ at = "unwind"
    /\ at' = "raise"
    /\ IF ~config.panics THEN UNCHANGED log
       ELSE \E o \in Outcomes(top, PanicConfig, TRUE, panicExitCode) :
               log' = log \o Accepted(o.records)
    /\ UNCHANGED <<given, runs, top, value, ctx, flags, executes, closed, known, asks>>

\* The panic is recorded, the client shut down, and the same panic raised
\* again; a panic of the recording itself is recovered, and skips the rest.
recordPanic ==
    /\ at = "unwind"
    /\ at' = "raise"
    /\ IF ~config.panics THEN UNCHANGED <<closed, log>>
       ELSE \E o \in Outcomes(top, PanicConfig, TRUE, panicExitCode) :
               /\ log' = log \o Accepted(o.records)
               /\ closed' = (closed \/ o.panic = None)
    /\ UNCHANGED <<given, runs, top, value, ctx, flags, executes, known, asks>>

\* RecordExit or RecordExitError, then Shutdown and os.Exit as documented.
ExitWith(code, failed, cfg, by) ==
    \E o \in Outcomes(top, cfg, failed, code) :
       /\ log' = log \o Accepted(o.records)
       /\ IF o.panic = None
            THEN /\ runs' = [Ended(top, "exited", code) EXCEPT ![top].exit = by]
                 /\ closed' = TRUE /\ at' = "exited" /\ UNCHANGED value
            ELSE PanicIn(top, o.panic) /\ UNCHANGED closed

RecordExit(code) ==
    /\ at = "inner"
    /\ ExitWith(code, code # 0, NoConfig, None)
    /\ UNCHANGED <<given, top, ctx, flags, executes, known, asks>>

\* The options given here are applied over a copy of the tree's.
RecordExitError(code, failed, opts) ==
    /\ at = "inner" /\ (code # 0 => failed)
    /\ ExitWith(code, failed, ApplyAll(config, opts), opts)
    /\ UNCHANGED <<given, top, ctx, flags, executes, known, asks>>

\* The call returns to its caller: a run function, or Execute.
Leave ==
    /\ at = "return"
    /\ top' = runs[top].caller
    /\ at' = IF top' = 0 THEN "idle" ELSE "inner"
    /\ value' = None
    /\ UNCHANGED <<given, runs, ctx, flags, executes, client, asks>>

\* A plausible bug: the panic goes on with another value.
Mut_Raise ==
    /\ at = "raise"
    /\ top' = runs[top].caller
    /\ \/ /\ at' = (IF top' = 0 THEN "idle" ELSE "inner") /\ value' = None
          /\ UNCHANGED runs
       \/ top' = 0 /\ at' = "crashed" /\ UNCHANGED <<runs, value>>
       \/ top' # 0 /\ PanicIn(top', None)
    /\ UNCHANGED <<given, ctx, flags, executes, client, asks>>

\* The panic reaches the caller, which recovers it or panics in turn; the
\* process crashes if nobody recovers it.
Raise ==
    /\ at = "raise"
    /\ top' = runs[top].caller
    /\ \/ /\ at' = (IF top' = 0 THEN "idle" ELSE "inner") /\ value' = None
          /\ UNCHANGED runs
       \/ top' = 0 /\ at' = "crashed" /\ UNCHANGED <<runs, value>>
       \/ top' # 0 /\ PanicIn(top', value)
    /\ UNCHANGED <<given, ctx, flags, executes, client, asks>>

-----------------------------------------------------------------------------
(* Help and unknown commands.                                              *)

\* What somebody gave an observer to see: a command, and of its arguments the
\* first one that is no flag, and --help.
Ask(by, c, typed, asked) ==
    asks' = Append(asks, [by |-> by, cmd |-> c, typed |-> typed, asked |-> asked,
                          left |-> flags[c], open |-> ~closed, at |-> Len(log)])

\* cobra shows the help of a parent that cannot run in place of an error; the
\* flags tell that from help that was asked for.
mistypedSubcommand(c) ==
    /\ Kind[c] = "none" /\ HasSubCommands(c)
    /\ ~flags'[c].help /\ flags'[c].typed # None

\* A plausible bug: an unknown command counts as a view of the help, too.
Mut_HelpFunc(c) ==
    \/ ~config.help /\ ~config.unknown /\ UNCHANGED client
    \/ /\ config.help \/ config.unknown
       /\ log' = log \o Accepted(SessionStart \o
                    (IF mistypedSubcommand(c) /\ config.unknown
                       THEN <<[call |-> "unknown", cmd |-> c, suggestion |-> NoCommand]>>
                       ELSE <<>>) \o
                    (IF config.help THEN <<[call |-> "help", cmd |-> c]>> ELSE <<>>))
       /\ UNCHANGED <<closed, known>>

\* The help func that InstrumentCobra installs, unless it is told to capture
\* neither help nor unknown commands.
HelpFunc(c) ==
    \/ ~config.help /\ ~config.unknown /\ UNCHANGED client
    \/ mistypedSubcommand(c) /\ config.unknown /\ recordUnknown(c, flags'[c].typed)
    \/ /\ config.help \/ config.unknown
       /\ ~(mistypedSubcommand(c) /\ config.unknown)
       /\ log' = log \o Accepted(SessionStart \o
                    (IF config.help THEN <<[call |-> "help", cmd |-> c]>> ELSE <<>>))
       /\ UNCHANGED <<closed, known>>

\* Execute shows the help of c: it was asked for now or before, or c cannot
\* run.  The arguments of a command that can run are of no account here; those
\* of the root get this far only if it validates them itself.
Help(c, typed, asked) ==
    /\ Again
    /\ asked \/ flags[c].help \/ Kind[c] = "none"
    /\ typed # None => Kind[c] = "none" /\ (c = Root => Root \in Validating)
    /\ Ask("help", c, typed, asked)
    /\ ctx' = Resolved(c)
    /\ flags' = [flags EXCEPT ![c] = [typed |-> typed, help |-> asked \/ @.help]]
    /\ HelpFunc(c)
    /\ UNCHANGED <<given, runs, top, at, value>>

\* A run function shows the help of c without an Execute of it: cobra's own
\* help command, which hands its Context on.  Nothing is parsed.
ShowHelp(c) ==
    /\ at = "inner" /\ c \in Shows[runs[top].fn] /\ Room
    /\ Ask("run", c, None, TRUE)
    /\ ctx' = [ctx EXCEPT ![c] = IF @ = NoContext THEN ctx[runs[top].cmd] ELSE @]
    /\ UNCHANGED flags
    /\ HelpFunc(c)
    /\ UNCHANGED <<given, runs, top, at, value, executes>>

\* Execute fails with "unknown command": no such subcommand of the root, or
\* an argument that the validator of c refuses.
RecordExecuteError(c, typed) ==
    /\ Again
    /\ \/ c = Root /\ Root \notin Validating
       \/ c \in Runnable \cap Validating /\ ~flags[c].help
    /\ Ask("error", c, typed, FALSE)
    /\ ctx' = Resolved(c)
    /\ IF HasSubCommands(c) THEN recordUnknown(c, typed) ELSE UNCHANGED client
    /\ UNCHANGED <<given, runs, top, at, value, flags>>

-----------------------------------------------------------------------------
Instrumentation == Record \/ recordPanic

Stopped ==
    /\ at \in {"exited", "crashed"} \/ (at = "idle" /\ executes = MaxExecutes)
    /\ UNCHANGED vars

Next ==
    \/ \E c \in Commands :
          \/ Execute(c)
          \/ \E typed \in Typed \cup {None}, asked \in BOOLEAN : Help(c, typed, asked)
          \/ ShowHelp(c)
          \/ \E typed \in Typed : RecordExecuteError(c, typed)
          \/ \E cmd \in Commands : Call(c, cmd)
    \/ \E code \in ExitCodes :
          \/ RecordExit(code)
          \/ \E failed \in BOOLEAN, opts \in ExitOptions : RecordExitError(code, failed, opts)
    \/ Hook \/ Finish \/ Panic \/ Leave \/ Raise \/ Instrumentation
    \/ Stopped

Spec == Init /\ [][Next]_vars

-----------------------------------------------------------------------------
Configs ==
    [category : STRING \cup {None}, reason : STRING \cup {None}, both : STRING \cup {None},
     help : BOOLEAN, run : BOOLEAN, unknown : BOOLEAN, panics : BOOLEAN]

CallRecords ==
    [fn : Runnable, cmd : Commands, caller : Nat, execute : 0..MaxExecutes,
     end : {"running", "skipped", "ok", "failed", "panicked", "exited"},
     code : Nat, open : BOOLEAN, seen : BOOLEAN, exit : ExitOptions \cup {None}]

TypeOK ==
    /\ options \in OptionLists /\ config \in Configs
    /\ runs \in Seq(CallRecords) /\ Len(runs) <= MaxRuns
    /\ top \in 0..Len(runs)
    /\ at \in {"idle", "hook", "inner", "record", "unwind", "return", "raise", "exited", "crashed"}
    /\ top = 0 <=> at \in {"idle", "crashed"}
    /\ value \in {None, "ok", "err"} \cup Panics
    /\ at \in {"unwind", "raise", "crashed"} => value \in Panics
    /\ ctx \in [Commands -> NoContext..MaxExecutes]
    /\ flags \in [Commands -> [typed : Typed \cup {None}, help : BOOLEAN]]
    /\ executes \in 0..MaxExecutes
    /\ closed \in BOOLEAN /\ known \subseteq Commands

CompletedOf(i) == {j \in DOMAIN log : log[j].call = "completed" /\ log[j].run = i}
ErrorsOf(i) == {j \in DOMAIN log : log[j].call = "error" /\ log[j].run = i}

\* The recording of run i is over.
Done(i) == runs[i].end # "running" /\ (i = top => at \in {"return", "raise", "exited"})

\* The outcomes of run i that failed and whose error was never recorded.
Unclassified(i) == {j \in CompletedOf(i) : runs[i].end # "ok" /\ j + 1 \notin ErrorsOf(i)}

\* A run is recorded at most once, with the exit code it ended with, unless a
\* classifier of the vendor panicked: then the panic is recorded over the
\* outcome, whose error was never classified (cobrasdk.go:633).
RecordedOnce ==
    \A i \in DOMAIN runs : \A k \in CompletedOf(i) :
        \/ /\ log[k].code = runs[i].code \/ k \in Unclassified(i)
           /\ \A j \in CompletedOf(i) : k <= j
        \/ /\ log[k].code = panicExitCode
           /\ \E j \in Unclassified(i) : j < k /\ CompletedOf(i) = {j, k}

\* While the client is open, no wrapped run ends unrecorded, however it ends:
\* before its caller goes on, by a panic that crosses several runs, or by an
\* exit of the process (cobrasdk.go:5-20).
NothingMissed ==
    \A i \in DOMAIN runs :
        /\ Done(i) /\ runs[i].open /\ runs[i].seen
        /\ \/ runs[i].end = "exited"
           \/ Wrapped(runs[i].fn) /\ runs[i].end \in {"ok", "failed"}
           \/ Wrapped(runs[i].fn) /\ runs[i].end = "panicked" /\ config.panics
        => \E j \in CompletedOf(i) : log[j].code = runs[i].code

\* When a panic that was recorded crashes the process, the client has been
\* shut down, and with it everything recorded so far has been flushed.
CrashLosesNothing ==
    /\ at = "crashed" /\ config.panics
    /\ \E i \in DOMAIN runs :
          Wrapped(runs[i].fn) /\ runs[i].end = "panicked" /\ runs[i].seen
    => closed

\* What a list of options says of errors: a function for both counts until
\* one for the category or the reason follows.
Classification(opts) ==
    LET last(sets, from) ==
          Max({from} \cup {k \in DOMAIN opts :
                             k > from /\ opts[k].sets = sets /\ opts[k].fn # None})
        both == last("both", 0)
        By(sets) == IF last(sets, both) > both THEN opts[last(sets, both)].fn ELSE None
    IN  IF By("category") = None /\ By("reason") = None /\ both > 0
        THEN [category |-> opts[both].fn, reason |-> opts[both].fn]
        ELSE [category |-> By("category"), reason |-> By("reason")]

\* An error is recorded right after the command that failed, under the
\* category and reason that the last options say: those of the exit over
\* those of the tree, "panic" for a panic, and none for a plain RecordExit.
ErrorsClassified ==
    \A i \in DOMAIN runs : \A j \in ErrorsOf(i) :
        /\ j - 1 \in CompletedOf(i)
        /\ log[j].class =
              CASE log[j - 1].code = panicExitCode /\ runs[i].end # "exited" ->
                      [category |-> panicReason, reason |-> panicReason]
                [] log[j - 1].code # panicExitCode /\ runs[i].end = "failed" ->
                      Classification(options)
                [] runs[i].exit # None -> Classification(options \o runs[i].exit)
                [] OTHER -> [category |-> None, reason |-> None]

\* The latency of a command that the root's pre-run has seen is measured from
\* the Execute that ran it, however often it ran before.  A command without
\* that pre-run has none, or one that an earlier Execute with it has left.
LatencyIsOwn ==
    \A i \in DOMAIN runs : \A j \in CompletedOf(i) :
        runs[i].execute > 0 =>
            IF runs[i].cmd \notin Shadowed THEN log[j].start = runs[i].execute
            ELSE \/ log[j].start = NoStart
                 \/ \E h \in 1..(i - 1) :
                       /\ runs[h].execute = log[j].start
                       /\ runs[h].execute \in 1..(runs[i].execute - 1)
                       /\ runs[h].cmd \notin Shadowed

\* docs/cobra-integration.md:80 says that the latency is the "wall-clock time
\* between PersistentPreRunE and the command's RunE returning": of one Execute.
LatencyFromPreRun ==
    \A i \in DOMAIN runs : \A j \in CompletedOf(i) :
        runs[i].execute > 0 => log[j].start \in {NoStart, runs[i].execute}

\* The user typed something that is no subcommand of c, and did not ask for help.
Mistyped(a) == a.typed # None /\ ~a.asked /\ HasSubCommands(a.cmd)

\* The flags that an earlier Execute left behind make a mistyped command look
\* like a request for help, or the other way round (cobrasdk.go:340).
Misled(a) ==
    /\ HasSubCommands(a.cmd)
    /\ \/ a.by = "help" /\ Mistyped(a) /\ a.left.help
       \/ a.by = "run" /\ a.left.typed # None /\ ~a.left.help

CountsAsUnknown(a) == Mistyped(a) # Misled(a)

\* What is to be recorded of an ask, if anything is.
Due(a) ==
    IF ~a.open THEN None
    ELSE IF CountsAsUnknown(a) /\ (config.unknown \/ a.by = "error") THEN "unknown"
    ELSE IF config.help /\ a.by # "error" THEN "help" ELSE None

Views == {j \in DOMAIN log : log[j].call \in {"help", "unknown"}}

\* The views recorded after ask n and before the next one.
Own(n) ==
    {j \in Views : asks[n].at < j /\ \A m \in DOMAIN asks : n < m => j <= asks[m].at}

\* A mistyped command counts once, whichever observer sees it, and never as a
\* view of the help, help that was asked for never as a mistyped command, and
\* nothing else as either (cobrasdk.go:22-30).
UnknownOnce ==
    /\ \A j \in Views : \E n \in DOMAIN asks : j \in Own(n)
    /\ \A n \in DOMAIN asks :
          IF Due(asks[n]) = None THEN Own(n) = {}
          ELSE \E j \in Views : /\ Own(n) = {j}
                               /\ log[j].call = Due(asks[n]) /\ log[j].cmd = asks[n].cmd

\* The suggestion is the nearest command within the limit, if there is one,
\* even when it was added after InstrumentCobra.
SuggestionNearest ==
    \A n \in DOMAIN asks : \A j \in Own(n) :
        log[j].call = "unknown" =>
            IsNearest(asks[n].cmd, IF Misled(asks[n]) THEN asks[n].left.typed ELSE asks[n].typed,
                      log[j].suggestion)

-----------------------------------------------------------------------------
(* Instrumentation implements the host: recording is invisible to it.      *)

Host == INSTANCE HostCLI WITH
    Plain <- {c \in Commands : Kind[c] = "run"},
    classified <- \/ Called(config) # {}
                  \/ \E opts \in ExitOptions : Called(ApplyAll(config, opts)) # {},
    runs <- [i \in DOMAIN runs |->
                [fn |-> runs[i].fn, cmd |-> runs[i].cmd, caller |-> runs[i].caller]],
    at <- CASE at = "record" -> "return" [] at = "unwind" -> "raise" [] OTHER -> at,
    met <- {c \in Commands : ctx[c] # NoContext}

\* The host keeps its calls, their results and the values of its panics; the
\* instrumentation disturbs it only where Disturb of HostCLI says.
ImplementsHost == Host!Spec

\* doc.go:17 says that "a bug in this package should never crash a CLI that
\* embeds it": the only panics are those of the host and its classifiers.
HostUndisturbed == value \notin {"nilContext", "nilRun"}
=============================================================================
