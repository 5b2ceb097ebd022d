-------------------------- MODULE CobraHooksProofs --------------------------
(***************************************************************************)
(* Theorems about CobraHooks, for every tree of commands, every call graph *)
(* of their run functions and every option, and any number of Executes.    *)
(*                                                                         *)
(* What a list of options makes of a configuration, and what the nearest   *)
(* command is, does not matter to them; CobraRecordsProofs is about these. *)
(***************************************************************************)
EXTENDS CobraHooks, SequenceTheorems, TLAPS

-----------------------------------------------------------------------------
(* The stack of run functions.                                             *)

\* A run that has not returned to its caller.
Live(k) == runs[k].end = "running" \/ k = top

Shape ==
    /\ runs \in Seq(CallRecords) /\ top \in 0..Len(runs)
    /\ ctx \in [Commands -> NoContext..MaxExecutes]
    /\ executes \in 0..MaxExecutes
    /\ closed \in BOOLEAN
    /\ at \in {"idle", "hook", "inner", "record", "unwind", "return", "raise", "exited", "crashed"}
    /\ top = 0 <=> at \in {"idle", "crashed"}
    /\ \A i \in DOMAIN runs : runs[i].caller < i

\* The callers of a live run are live and running, and what was called between
\* them has ended.
Stack ==
    /\ at \in {"hook", "inner"} => runs[top].end = "running"
    /\ at \in {"record", "unwind", "return", "raise", "exited"} => runs[top].end # "running"
    /\ \A i \in DOMAIN runs :
          /\ i > top => runs[i].end # "running"
          /\ Live(i) => /\ runs[i].caller > 0 => runs[runs[i].caller].end = "running"
                        /\ \A j \in DOMAIN runs :
                              runs[i].caller < j /\ j < i => runs[j].end # "running"

\* The start time s is none, or that of an earlier Execute than that of run i,
\* of a command that the root's pre-run has seen.
Inherited(i, s) ==
    \/ s = NoStart
    \/ \E h \in 1..(i - 1) :
          /\ runs[h].execute = s
          /\ runs[h].execute \in 1..(runs[i].execute - 1)
          /\ runs[h].cmd \notin Shadowed

\* The Context of a command that an Execute is running is its own, or what
\* cobra has given it when the root's pre-run does not see it.
OwnContext(i) ==
    /\ runs[i].execute > 0 => runs[i].caller = 0
    /\ runs[i].execute <= executes
    /\ Live(i) /\ runs[i].execute > 0 =>
          /\ runs[i].execute = executes
          /\ IF runs[i].cmd \in Shadowed THEN Inherited(i, ctx[runs[i].cmd])
                                        ELSE ctx[runs[i].cmd] = executes

\* Whatever start time a command has, the root's pre-run has set it.
Traced(c) ==
    ctx[c] > 0 =>
        \E h \in DOMAIN runs : runs[h].execute = ctx[c] /\ runs[h].cmd \notin Shadowed

Contexts ==
    /\ \A c \in Commands : Traced(c)
    /\ \A i \in DOMAIN runs : OwnContext(i)

\* The runs that there were are still of the same commands and Executes.
SameRuns ==
    \A k \in DOMAIN runs :
        /\ k \in DOMAIN runs'
        /\ runs'[k].cmd = runs[k].cmd /\ runs'[k].execute = runs[k].execute

-----------------------------------------------------------------------------
(* What a step does to the runs.                                           *)

\* Run i ends: it stays the same call, and no other run changes.
Closes(i, how) ==
    /\ DOMAIN runs' = DOMAIN runs /\ runs' \in Seq(CallRecords)
    /\ \A k \in DOMAIN runs : k # i => runs'[k] = runs[k]
    /\ runs'[i].fn = runs[i].fn /\ runs'[i].cmd = runs[i].cmd
    /\ runs'[i].caller = runs[i].caller /\ runs'[i].execute = runs[i].execute
    /\ runs'[i].end = how

\* It ends now, while the client and its Context are as they are.
Observes(i, code) ==
    /\ runs'[i].code = code /\ runs'[i].open = ~closed
    /\ runs'[i].seen = (ctx[runs[i].cmd] # NoContext)

\* One more run begins.
Enters(fn, cmd, execute) ==
    /\ runs' \in Seq(CallRecords)
    /\ DOMAIN runs' = DOMAIN runs \cup {Len(runs) + 1}
    /\ \A k \in DOMAIN runs : runs'[k] = runs[k]
    /\ top' = Len(runs) + 1 /\ top' \in DOMAIN runs'
    /\ runs'[top'].fn = fn /\ runs'[top'].cmd = cmd
    /\ runs'[top'].caller = top /\ runs'[top'].execute = execute
    /\ runs'[top'].end = "running" /\ runs'[top'].seen = FALSE

LEMMA TopIsRun == ASSUME Shape, top # 0 PROVE top \in DOMAIN runs /\ runs[top] \in CallRecords
BY DEF Shape

LEMMA EndedCloses ==
    ASSUME Shape, NEW i \in DOMAIN runs,
           NEW how \in {"ok", "failed", "panicked", "exited"}, NEW code \in Nat,
           runs' = Ended(i, how, code)
    PROVE  Closes(i, how) /\ Observes(i, code)
<1> DEFINE rec == [runs[i] EXCEPT !.end = how, !.code = code, !.open = ~closed,
                                  !.seen = ctx[runs[i].cmd] # NoContext]
<1>1. runs \in Seq(CallRecords) /\ runs[i] \in CallRecords
  BY DEF Shape
<1>2. runs' = [runs EXCEPT ![i] = rec]
  BY <1>1 DEF Ended
<1>3. rec \in CallRecords
  <2>1. (~closed) \in BOOLEAN /\ (ctx[runs[i].cmd] # NoContext) \in BOOLEAN
    OBVIOUS
  <2>2. QED BY <1>1, <2>1 DEF CallRecords
<1>4. /\ rec.fn = runs[i].fn /\ rec.cmd = runs[i].cmd
      /\ rec.caller = runs[i].caller /\ rec.execute = runs[i].execute
      /\ rec.end = how /\ rec.code = code /\ rec.open = ~closed
      /\ rec.seen = (ctx[runs[i].cmd] # NoContext)
  BY <1>1 DEF CallRecords
<1> HIDE DEF rec
<1>5. runs' \in Seq(CallRecords) /\ DOMAIN runs' = DOMAIN runs
  BY <1>1, <1>2, <1>3
<1>6. runs'[i] = rec /\ \A k \in DOMAIN runs : k # i => runs'[k] = runs[k]
  BY <1>1, <1>2
<1>7. QED BY <1>4, <1>5, <1>6 DEF Closes, Observes

LEMMA EnterEnters ==
    ASSUME Shape, NEW fn \in Runnable, NEW cmd \in Commands, NEW execute \in 0..MaxExecutes,
           Enter(fn, cmd, execute)
    PROVE  Enters(fn, cmd, execute)
<1> DEFINE rec == [fn |-> fn, cmd |-> cmd, caller |-> top, execute |-> execute,
                   end |-> "running", code |-> 0, open |-> FALSE, seen |-> FALSE, exit |-> None]
<1>1. runs \in Seq(CallRecords) /\ top \in Nat
  BY DEF Shape
<1>2. rec \in CallRecords
  BY <1>1 DEF CallRecords
<1>3. runs' = Append(runs, rec) /\ top' = Len(runs) + 1
  BY DEF Enter
<1>4. /\ rec.fn = fn /\ rec.cmd = cmd /\ rec.caller = top /\ rec.execute = execute
      /\ rec.end = "running" /\ rec.seen = FALSE
  OBVIOUS
<1> HIDE DEF rec
<1>5. runs' \in Seq(CallRecords) /\ Len(runs') = Len(runs) + 1 /\ runs'[Len(runs) + 1] = rec
      /\ \A k \in 1..Len(runs) : runs'[k] = runs[k]
  BY <1>1, <1>2, <1>3, AppendProperties
<1>6. DOMAIN runs' = DOMAIN runs \cup {Len(runs) + 1} /\ Len(runs) + 1 \in DOMAIN runs'
  BY <1>1, <1>5
<1>7. QED BY <1>1, <1>3, <1>4, <1>5, <1>6 DEF Enters

-----------------------------------------------------------------------------
(* The moves between run functions.                                        *)

Entering ==
    /\ at \in {"idle", "inner"} /\ at' \in {"hook", "inner"} /\ (at = "idle" <=> at' = "hook")
    /\ \E fn \in Runnable, cmd \in Commands, execute \in 0..MaxExecutes :
          Enters(fn, cmd, execute) /\ (at = "inner" => execute = 0)

Closing ==
    /\ top # 0 /\ top' = top
    /\ \/ at = "hook" /\ at' \in {"return", "raise"} /\ Closes(top, "skipped")
       \/ /\ at = "inner" /\ at' \in {"record", "unwind", "return", "raise", "exited"}
          /\ \E how \in {"ok", "failed", "panicked", "exited"}, code \in Nat :
                Closes(top, how) /\ Observes(top, code)

Leaving ==
    /\ at \in {"return", "raise"}
    /\ top' = runs[top].caller /\ UNCHANGED runs
    /\ at' \in IF top' = 0 THEN {"idle", "crashed"} ELSE {"inner"}

Repanicking ==
    /\ at = "raise" /\ at' \in {"unwind", "raise"}
    /\ top' = runs[top].caller /\ top' # 0
    /\ Closes(top', "panicked") /\ Observes(top', panicExitCode)

Staying ==
    /\ UNCHANGED <<runs, top>>
    /\ \/ at' = at
       \/ at = "hook" /\ at' = "inner"
       \/ at = "record" /\ at' \in {"return", "unwind"}
       \/ at = "unwind" /\ at' = "raise"

LEMMA ExecuteFacts ==
    ASSUME Shape, NEW c \in Commands, Execute(c)
    PROVE  /\ at = "idle" /\ at' = "hook" /\ top = 0 /\ c \in Runnable
           /\ executes' = executes + 1 /\ executes' \in 0..MaxExecutes
           /\ Enters(c, c, executes')
           /\ PreRun(c) /\ UNCHANGED <<given, closed>>
<1>1. /\ at = "idle" /\ at' = "hook" /\ c \in Runnable
      /\ executes' = executes + 1 /\ executes < MaxExecutes
      /\ Enter(c, c, executes') /\ PreRun(c) /\ UNCHANGED <<given, closed>>
  BY DEF Execute, Again
<1>2. top = 0
  BY <1>1 DEF Shape
<1>3. executes' \in 0..MaxExecutes
  BY <1>1, HooksAssumption DEF Shape
<1>4. Enters(c, c, executes')
  BY <1>1, <1>3, EnterEnters
<1>5. QED BY <1>1, <1>2, <1>3, <1>4

LEMMA PanicInFacts ==
    ASSUME Shape, NEW i \in DOMAIN runs, NEW v, PanicIn(i, v)
    PROVE  /\ Closes(i, "panicked") /\ Observes(i, panicExitCode)
           /\ at' = (IF Wrapped(runs[i].fn) THEN "unwind" ELSE "raise")
BY EndedCloses DEF PanicIn, panicExitCode

LEMMA CallFacts ==
    ASSUME Shape, NEW d \in Commands, NEW cmd \in Commands, Call(d, cmd)
    PROVE  /\ at = "inner" /\ top # 0
           /\ UNCHANGED <<given, ctx, executes, client>>
           /\ \/ at' = "inner" /\ Enters(d, cmd, 0) /\ d \in Runnable
              \/ top' = top /\ PanicIn(top, "nilRun")
<1>1. at = "inner" /\ top # 0
  BY DEF Call, Shape
<1>2. top \in DOMAIN runs /\ runs[top] \in CallRecords
  BY <1>1, TopIsRun
<1>3. d \in Runnable
  BY <1>2, HooksAssumption DEF Call, CallRecords, Runnable
<1>4. CASE Wrapped(d) /\ Kind[d] = "run"
  BY <1>1, <1>4 DEF Call
<1>5. CASE ~(Wrapped(d) /\ Kind[d] = "run")
  <2>1. Enter(d, cmd, 0) /\ at' = at /\ UNCHANGED <<given, ctx, executes, client>>
    BY <1>5 DEF Call
  <2>2. 0 \in 0..MaxExecutes
    BY HooksAssumption
  <2>3. Enters(d, cmd, 0)
    BY <1>3, <2>1, <2>2, EnterEnters
  <2>4. QED BY <1>1, <1>3, <2>1, <2>3
<1>6. QED BY <1>4, <1>5

\* The two ways of an exit: the process ends, or its recording panics.
LEMMA ExitFacts ==
    ASSUME Shape, at = "inner", NEW code \in Nat, NEW failed \in BOOLEAN, NEW cfg,
           NEW by \in ExitOptions \cup {None}, ExitWith(code, failed, cfg, by)
    PROVE  \E o \in Outcomes(top, cfg, failed, code) :
              /\ log' = log \o Accepted(o.records)
              /\ \/ /\ o.panic = None /\ at' = "exited" /\ closed' = TRUE
                    /\ Closes(top, "exited") /\ Observes(top, code)
                 \/ o.panic # None /\ PanicIn(top, o.panic) /\ UNCHANGED closed
<1>1. top \in DOMAIN runs /\ runs[top] \in CallRecords /\ runs \in Seq(CallRecords)
  BY TopIsRun DEF Shape
<1>2. PICK o \in Outcomes(top, cfg, failed, code) :
         /\ log' = log \o Accepted(o.records)
         /\ IF o.panic = None
              THEN /\ runs' = [Ended(top, "exited", code) EXCEPT ![top].exit = by]
                   /\ closed' = TRUE /\ at' = "exited" /\ UNCHANGED value
              ELSE PanicIn(top, o.panic) /\ UNCHANGED closed
  BY DEF ExitWith
<1>3. CASE o.panic # None
  BY <1>2, <1>3
<1>4. CASE o.panic = None
  <2> DEFINE rec == [runs[top] EXCEPT !.end = "exited", !.code = code, !.open = ~closed,
                                      !.seen = ctx[runs[top].cmd] # NoContext, !.exit = by]
  <2>1. runs' = [runs EXCEPT ![top] = rec]
    BY <1>1, <1>2, <1>4 DEF Ended
  <2>2. rec \in CallRecords
    <3>1. (~closed) \in BOOLEAN /\ (ctx[runs[top].cmd] # NoContext) \in BOOLEAN
      OBVIOUS
    <3>2. QED BY <1>1, <3>1 DEF CallRecords
  <2>3. /\ rec.fn = runs[top].fn /\ rec.cmd = runs[top].cmd
        /\ rec.caller = runs[top].caller /\ rec.execute = runs[top].execute
        /\ rec.end = "exited" /\ rec.code = code /\ rec.open = ~closed
        /\ rec.seen = (ctx[runs[top].cmd] # NoContext)
    BY <1>1 DEF CallRecords
  <2> HIDE DEF rec
  <2>4. runs' \in Seq(CallRecords) /\ DOMAIN runs' = DOMAIN runs
    BY <1>1, <2>1, <2>2
  <2>5. runs'[top] = rec /\ \A k \in DOMAIN runs : k # top => runs'[k] = runs[k]
    BY <1>1, <2>1
  <2>6. Closes(top, "exited") /\ Observes(top, code)
    BY <2>3, <2>4, <2>5 DEF Closes, Observes
  <2>7. QED BY <1>2, <1>4, <2>6
<1>5. QED BY <1>3, <1>4

\* Hook and Finish: the vendor's functions return.
LEMMA HookFacts ==
    ASSUME Shape, Hook
    PROVE  /\ at = "hook" /\ top # 0 /\ UNCHANGED <<given, top, ctx, executes, client>>
           /\ \/ at' = "inner" /\ UNCHANGED runs
              \/ at' \in {"return", "raise"} /\ Closes(top, "skipped")
<1>1. at = "hook" /\ top # 0 /\ UNCHANGED <<given, top, ctx, executes, client>>
  BY DEF Hook, Shape
<1>2. top \in DOMAIN runs /\ runs[top] \in CallRecords /\ runs \in Seq(CallRecords)
  BY <1>1, TopIsRun DEF Shape
<1>3. CASE at' = "inner" /\ UNCHANGED runs
  BY <1>1, <1>3
<1>4. CASE at' \in {"return", "raise"} /\ runs' = [runs EXCEPT ![top].end = "skipped"]
  <2> DEFINE rec == [runs[top] EXCEPT !.end = "skipped"]
  <2>1. runs' = [runs EXCEPT ![top] = rec]
    BY <1>2, <1>4
  <2>2. /\ rec \in CallRecords /\ rec.end = "skipped"
        /\ rec.fn = runs[top].fn /\ rec.cmd = runs[top].cmd
        /\ rec.caller = runs[top].caller /\ rec.execute = runs[top].execute
    BY <1>2 DEF CallRecords
  <2> HIDE DEF rec
  <2>3. runs' \in Seq(CallRecords) /\ DOMAIN runs' = DOMAIN runs
    BY <1>2, <2>1, <2>2
  <2>4. runs'[top] = rec /\ \A k \in DOMAIN runs : k # top => runs'[k] = runs[k]
    BY <1>2, <2>1
  <2>5. QED BY <1>1, <1>4, <2>2, <2>3, <2>4 DEF Closes
<1>5. QED BY <1>3, <1>4 DEF Hook

LEMMA FinishFacts ==
    ASSUME Shape, Finish
    PROVE  /\ at = "inner" /\ top # 0 /\ UNCHANGED <<given, top, ctx, executes, client>>
           /\ at' = (IF Wrapped(runs[top].fn) THEN "record" ELSE "return")
           /\ \/ value' = "ok" /\ Closes(top, "ok") /\ Observes(top, 0)
              \/ value' = "err" /\ Closes(top, "failed") /\ Observes(top, 1)
<1>1. at = "inner" /\ top # 0 /\ UNCHANGED <<given, top, ctx, executes, client>>
      /\ at' = (IF Wrapped(runs[top].fn) THEN "record" ELSE "return")
  BY DEF Finish, Shape
<1>2. top \in DOMAIN runs
  BY <1>1, TopIsRun
<1>3. CASE value' = "ok" /\ runs' = Ended(top, "ok", 0)
  BY <1>1, <1>2, <1>3, EndedCloses
<1>4. CASE value' = "err" /\ runs' = Ended(top, "failed", 1)
  BY <1>1, <1>2, <1>4, EndedCloses
<1>5. QED BY <1>3, <1>4 DEF Finish

\* Both exits, as the one action that they are here.
ExitsWith(code, failed, cfg) ==
    /\ at = "inner" /\ code \in Nat /\ failed \in BOOLEAN /\ (code # 0 => failed)
    /\ \E by \in ExitOptions \cup {None} : ExitWith(code, failed, cfg, by)
    /\ UNCHANGED <<given, top, ctx, executes>>

LEMMA RecordExitExits ==
    ASSUME NEW code \in ExitCodes, RecordExit(code)
    PROVE  ExitsWith(code, code # 0, NoConfig)
<1>1. code \in Nat /\ (code # 0) \in BOOLEAN
  BY HooksAssumption
<1>2. QED BY <1>1 DEF RecordExit, ExitsWith

LEMMA RecordExitErrorExits ==
    ASSUME NEW code \in ExitCodes, NEW failed \in BOOLEAN, NEW opts \in ExitOptions,
           RecordExitError(code, failed, opts)
    PROVE  ExitsWith(code, failed, ApplyAll(config, opts))
<1>1. code \in Nat
  BY HooksAssumption
<1> DEFINE cfg == ApplyAll(config, opts)
<1>2. at = "inner" /\ (code # 0 => failed) /\ ExitWith(code, failed, cfg, opts)
      /\ UNCHANGED <<given, top, ctx, executes>>
  BY DEF RecordExitError
<1> HIDE DEF cfg
<1>3. ExitsWith(code, failed, cfg)
  BY <1>1, <1>2 DEF ExitsWith
<1>4. QED BY <1>3 DEF cfg

\* A step is an action or a stutter.
LEMMA Steps ==
    ASSUME [Next]_vars
    PROVE  \/ \E c \in Commands : Execute(c)
           \/ \E c \in Commands, typed \in Typed \cup {None}, asked \in BOOLEAN :
                 Help(c, typed, asked)
           \/ \E c \in Commands : ShowHelp(c)
           \/ \E c \in Commands, typed \in Typed : RecordExecuteError(c, typed)
           \/ \E c, cmd \in Commands : Call(c, cmd)
           \/ \E code \in Nat, failed \in BOOLEAN, cfg \in {NoConfig} \cup
                 {ApplyAll(config, opts) : opts \in ExitOptions} : ExitsWith(code, failed, cfg)
           \/ Hook \/ Finish \/ Panic \/ Leave \/ Raise \/ Record \/ recordPanic
           \/ UNCHANGED vars
<1>1. ASSUME NEW code \in ExitCodes, RecordExit(code)
      PROVE  ExitsWith(code, code # 0, NoConfig) /\ code \in Nat /\ (code # 0) \in BOOLEAN
  BY <1>1, RecordExitExits, HooksAssumption
<1>2. ASSUME NEW code \in ExitCodes, NEW failed \in BOOLEAN, NEW opts \in ExitOptions,
             RecordExitError(code, failed, opts)
      PROVE  ExitsWith(code, failed, ApplyAll(config, opts)) /\ code \in Nat
  BY <1>2, RecordExitErrorExits, HooksAssumption
<1>3. Stopped => UNCHANGED vars
  BY DEF Stopped
<1> HIDE DEF vars
<1>4. QED BY <1>1, <1>2, <1>3, Zenon DEF Next, Instrumentation

-----------------------------------------------------------------------------
LEMMA Moves ==
    ASSUME Shape, [Next]_vars
    PROVE  Entering \/ Closing \/ Leaving \/ Repanicking \/ Staying
<1>1. ASSUME NEW c \in Commands, Execute(c) PROVE Entering
  BY <1>1, ExecuteFacts DEF Entering
<1>2. ASSUME NEW c \in Commands, NEW typed, NEW asked, Help(c, typed, asked) PROVE Staying
  BY <1>2 DEF Help, Staying
<1>3. ASSUME NEW c \in Commands, NEW typed, RecordExecuteError(c, typed) PROVE Staying
  BY <1>3 DEF RecordExecuteError, Staying
<1>4. ASSUME NEW d \in Commands, NEW cmd \in Commands, Call(d, cmd) PROVE Entering \/ Closing
  <2>1. CASE at' = "inner" /\ Enters(d, cmd, 0) /\ d \in Runnable
    <3>1. 0 \in 0..MaxExecutes
      BY HooksAssumption
    <3>2. QED BY <1>4, <2>1, <3>1, CallFacts DEF Entering
  <2>2. CASE top' = top /\ PanicIn(top, "nilRun")
    <3>1. at = "inner" /\ top # 0 /\ top \in DOMAIN runs
      BY <1>4, CallFacts, TopIsRun
    <3>2. Closes(top, "panicked") /\ Observes(top, panicExitCode) /\ at' \in {"unwind", "raise"}
      BY <2>2, <3>1, PanicInFacts
    <3>3. QED BY <2>2, <3>1, <3>2 DEF Closing, panicExitCode
  <2>3. QED BY <1>4, <2>1, <2>2, CallFacts
<1>5. ASSUME NEW code, NEW failed, NEW cfg, ExitsWith(code, failed, cfg) PROVE Closing
  <2>1. at = "inner" /\ top # 0 /\ top \in DOMAIN runs /\ top' = top
        /\ code \in Nat /\ failed \in BOOLEAN
    BY <1>5, TopIsRun DEF ExitsWith, Shape
  <2>2. \/ at' = "exited" /\ Closes(top, "exited") /\ Observes(top, code)
        \/ \E v : PanicIn(top, v)
    <3>1. PICK by \in ExitOptions \cup {None} : ExitWith(code, failed, cfg, by)
      BY <1>5 DEF ExitsWith
    <3>2. QED BY <2>1, <3>1, ExitFacts
  <2>3. ASSUME NEW v, PanicIn(top, v)
        PROVE  Closes(top, "panicked") /\ Observes(top, panicExitCode) /\ at' \in {"unwind", "raise"}
    BY <2>1, <2>3, PanicInFacts
  <2>4. QED BY <2>1, <2>2, <2>3 DEF Closing, panicExitCode
<1>6. ASSUME Hook PROVE Closing \/ Staying
  BY <1>6, HookFacts DEF Closing, Staying
<1>7. ASSUME Finish PROVE Closing
  BY <1>7, FinishFacts DEF Closing
<1>8. ASSUME Panic PROVE Closing
  <2>1. at = "inner" /\ top # 0 /\ top' = top /\ PanicIn(top, "host")
    BY <1>8 DEF Panic, Shape
  <2>2. Closes(top, "panicked") /\ Observes(top, panicExitCode) /\ at' \in {"unwind", "raise"}
    BY <2>1, PanicInFacts, TopIsRun
  <2>3. QED BY <2>1, <2>2 DEF Closing, panicExitCode
<1>9. ASSUME Leave PROVE Leaving
  BY <1>9 DEF Leave, Leaving
<1>10. ASSUME Raise PROVE Leaving \/ Repanicking
  <2>1. at = "raise" /\ top # 0 /\ top' = runs[top].caller
    BY <1>10 DEF Raise, Shape
  <2>2. CASE top' # 0 /\ PanicIn(top', value)
    <3>1. top' \in DOMAIN runs
      <4>1. top \in DOMAIN runs /\ runs[top] \in CallRecords /\ runs[top].caller < top
        BY <2>1, TopIsRun DEF Shape
      <4>2. QED BY <2>1, <2>2, <4>1 DEF CallRecords, Shape
    <3>2. Closes(top', "panicked") /\ Observes(top', panicExitCode) /\ at' \in {"unwind", "raise"}
      BY <2>2, <3>1, PanicInFacts
    <3>3. QED BY <2>1, <2>2, <3>2 DEF Repanicking
  <2>3. CASE at' = (IF top' = 0 THEN "idle" ELSE "inner") /\ UNCHANGED runs
    BY <2>1, <2>3 DEF Leaving
  <2>4. CASE top' = 0 /\ at' = "crashed" /\ UNCHANGED runs
    BY <2>1, <2>4 DEF Leaving
  <2>5. QED BY <1>10, <2>2, <2>3, <2>4 DEF Raise
<1>11. ASSUME Record PROVE Staying
  BY <1>11 DEF Record, Staying
<1>12. ASSUME recordPanic PROVE Staying
  BY <1>12 DEF recordPanic, Staying
<1>13. UNCHANGED vars => Staying
  BY DEF Staying, vars, host
<1>14. ASSUME NEW c \in Commands, ShowHelp(c) PROVE Staying
  BY <1>14 DEF ShowHelp, Staying
<1>15. QED
  BY Steps, <1>1, <1>2, <1>3, <1>4, <1>5, <1>6, <1>7, <1>8, <1>9, <1>10, <1>11, <1>12, <1>13, <1>14

\* A run function hands the Context of its command on to c.
HandsOn(c) == ctx' = [ctx EXCEPT ![c] = IF @ = NoContext THEN ctx[runs[top].cmd] ELSE @]

\* Only an Execute gives Contexts, to what it resolves, or a help command.
LEMMA ContextMoves ==
    ASSUME Shape, [Next]_vars
    PROVE  /\ UNCHANGED given
           /\ \/ UNCHANGED <<ctx, executes>>
              \/ /\ at = "inner" /\ UNCHANGED <<executes, runs>>
                 /\ \E c \in Commands : HandsOn(c)
              \/ /\ at = "idle" /\ executes' = executes + 1 /\ executes' \in 0..MaxExecutes
                 /\ \E c \in Commands :
                       \/ ctx' = Resolved(c) /\ UNCHANGED runs
                       \/ ctx' = Resolved(c) /\ c \in Shadowed /\ Enters(c, c, executes')
                       \/ /\ ctx' = [Resolved(c) EXCEPT ![c] = executes'] /\ c \notin Shadowed
                          /\ Enters(c, c, executes')
<1>1. ASSUME NEW c \in Commands, Execute(c)
      PROVE  /\ at = "idle" /\ executes' = executes + 1 /\ executes' \in 0..MaxExecutes
             /\ \/ ctx' = Resolved(c) /\ c \in Shadowed /\ Enters(c, c, executes')
                \/ /\ ctx' = [Resolved(c) EXCEPT ![c] = executes'] /\ c \notin Shadowed
                   /\ Enters(c, c, executes')
             /\ UNCHANGED given
  BY <1>1, ExecuteFacts DEF PreRun
<1>2. ASSUME Again PROVE at = "idle" /\ executes' = executes + 1 /\ executes' \in 0..MaxExecutes
  BY <1>2, HooksAssumption DEF Again, Shape
<1>3. ASSUME NEW c \in Commands, NEW typed, NEW asked, Help(c, typed, asked)
      PROVE  Again /\ ctx' = Resolved(c) /\ UNCHANGED runs /\ UNCHANGED given
  BY <1>3 DEF Help
<1>4. ASSUME NEW c \in Commands, NEW typed, RecordExecuteError(c, typed)
      PROVE  Again /\ ctx' = Resolved(c) /\ UNCHANGED runs /\ UNCHANGED given
  BY <1>4 DEF RecordExecuteError
<1>5. ASSUME NEW d, NEW cmd, Call(d, cmd) PROVE UNCHANGED <<given, ctx, executes>>
  BY <1>5 DEF Call
<1>6. ASSUME NEW code, NEW failed, NEW cfg, ExitsWith(code, failed, cfg)
      PROVE  UNCHANGED <<given, ctx, executes>>
  BY <1>6 DEF ExitsWith
<1>7. Hook \/ Finish \/ Panic \/ Leave \/ Raise \/ Record \/ recordPanic
      => UNCHANGED <<given, ctx, executes>>
  BY DEF Hook, Finish, Panic, Leave, Raise, Record, recordPanic
<1>8. UNCHANGED vars => UNCHANGED <<given, ctx, executes>>
  BY DEF vars, host
<1>9. ASSUME NEW c \in Commands, ShowHelp(c)
      PROVE  at = "inner" /\ UNCHANGED <<given, executes, runs>> /\ HandsOn(c)
  BY <1>9 DEF ShowHelp, HandsOn
<1>10. QED
  BY Steps, <1>1, <1>2, <1>3, <1>4, <1>5, <1>6, <1>7, <1>8, <1>9

LEMMA ResolvedContext ==
    ASSUME Shape, NEW c \in Commands
    PROVE  /\ Resolved(c) \in [Commands -> NoContext..MaxExecutes]
           /\ \A d \in Commands :
                 /\ ctx[d] # NoContext => Resolved(c)[d] = ctx[d]
                 /\ d \notin {Root, c} => Resolved(c)[d] = ctx[d]
                 /\ d \in {Root, c} => Resolved(c)[d] # NoContext
                 /\ Resolved(c)[d] \in {ctx[d], ctx[Root], NoStart}
<1>1. NoStart \in NoContext..MaxExecutes /\ NoStart # NoContext /\ Root \in Commands
  BY HooksAssumption, TreeAssumption DEF NoStart, NoContext
<1> DEFINE global == IF ctx[Root] = NoContext THEN NoStart ELSE ctx[Root]
<1>2. global \in NoContext..MaxExecutes /\ global # NoContext /\ global \in {ctx[Root], NoStart}
  BY <1>1 DEF Shape
<1>3. Resolved(c) = [d \in Commands |-> IF d \in {Root, c} /\ ctx[d] = NoContext
                                          THEN global ELSE ctx[d]]
  BY DEF Resolved
<1> HIDE DEF global
<1>4. QED BY <1>2, <1>3 DEF Shape

LEMMA HandedContext ==
    ASSUME Shape, NEW c \in Commands, at = "inner", HandsOn(c)
    PROVE  /\ runs[top].cmd \in Commands
           /\ ctx' \in [Commands -> NoContext..MaxExecutes]
           /\ \A d \in Commands : /\ ctx[d] # NoContext \/ d # c => ctx'[d] = ctx[d]
                                 /\ ctx'[d] \in {ctx[d], ctx[runs[top].cmd]}
           /\ ctx'[c] # NoContext <=> ctx[c] # NoContext \/ ctx[runs[top].cmd] # NoContext
<1>1. runs[top].cmd \in Commands
  BY TopIsRun DEF Shape, CallRecords
<1>2. QED BY <1>1 DEF HandsOn, Shape

-----------------------------------------------------------------------------
(* The stack is one.                                                       *)

LEMMA RunsFacts ==
    ASSUME Shape
    PROVE  /\ runs \in Seq(CallRecords) /\ top \in 0..Len(runs)
           /\ DOMAIN runs = 1..Len(runs) /\ Len(runs) \in Nat
           /\ \A i \in DOMAIN runs : runs[i] \in CallRecords /\ runs[i].caller < i /\ runs[i].caller \in Nat
<1>1. /\ runs \in Seq(CallRecords) /\ top \in 0..Len(runs)
      /\ \A i \in DOMAIN runs : runs[i].caller < i
  BY DEF Shape
<1>2. DOMAIN runs = 1..Len(runs) /\ Len(runs) \in Nat /\ \A i \in DOMAIN runs : runs[i] \in CallRecords
  BY <1>1
<1>3. \A i \in DOMAIN runs : runs[i].caller \in Nat
  BY <1>2 DEF CallRecords
<1>4. QED BY <1>1, <1>2, <1>3

LEMMA ShapeInit == ASSUME Init PROVE Shape /\ Stack
<1>1. runs = <<>> /\ top = 0 /\ at = "idle" /\ executes = 0 /\ closed = FALSE
      /\ ctx = [c \in Commands |-> NoContext]
  BY DEF Init
<1>2. runs \in Seq(CallRecords) /\ Len(runs) = 0 /\ DOMAIN runs = {}
  BY <1>1
<1>3. NoContext \in NoContext..MaxExecutes /\ 0 \in 0..MaxExecutes
  BY HooksAssumption DEF NoContext
<1>4. runs \in Seq(CallRecords) /\ top \in 0..Len(runs) /\ \A i \in DOMAIN runs : runs[i].caller < i
  BY <1>1, <1>2
<1>5. ctx \in [Commands -> NoContext..MaxExecutes] /\ executes \in 0..MaxExecutes
  BY <1>1, <1>3
<1>6. Shape
  BY <1>1, <1>4, <1>5 DEF Shape
<1>7. QED BY <1>1, <1>2, <1>6 DEF Stack

LEMMA ShapeStep == ASSUME Shape, [Next]_vars PROVE Shape'
<1>1. /\ runs \in Seq(CallRecords) /\ top \in 0..Len(runs)
      /\ DOMAIN runs = 1..Len(runs) /\ Len(runs) \in Nat
      /\ \A i \in DOMAIN runs : runs[i] \in CallRecords /\ runs[i].caller < i /\ runs[i].caller \in Nat
  BY RunsFacts
<1>2. closed' \in BOOLEAN
  <2>1. ASSUME NEW code, NEW failed, NEW cfg, ExitsWith(code, failed, cfg) PROVE closed' \in BOOLEAN
    BY <2>1 DEF ExitsWith, ExitWith, Shape
  <2>2. ASSUME NEW c, NEW cmd, Call(c, cmd) PROVE closed' \in BOOLEAN
    BY <2>2 DEF Call, Shape, client
  <2>3. ASSUME NEW c, NEW typed, NEW asked,
               Help(c, typed, asked) \/ ShowHelp(c) \/ RecordExecuteError(c, typed)
        PROVE  closed' \in BOOLEAN
    <3>1. HelpFunc(c) => closed' \in BOOLEAN
      BY DEF HelpFunc, recordUnknown, Shape, client
    <3>2. RecordExecuteError(c, typed) => closed' \in BOOLEAN
      BY DEF RecordExecuteError, recordUnknown, Shape, client
    <3>3. QED BY <2>3, <3>1, <3>2 DEF Help, ShowHelp
  <2>4. recordPanic => closed' \in BOOLEAN
    BY DEF recordPanic, Shape
  <2>5. Hook \/ Finish \/ Panic \/ Leave \/ Raise \/ Record => closed' \in BOOLEAN
    BY DEF Hook, Finish, Panic, Leave, Raise, Record, Shape, client
  <2>6. UNCHANGED vars => closed' \in BOOLEAN
    BY DEF vars, client, Shape
  <2>7. ASSUME NEW c, Execute(c) PROVE closed' \in BOOLEAN
    BY <2>7 DEF Execute, Shape
  <2>8. QED BY Steps, <2>1, <2>2, <2>3, <2>4, <2>5, <2>6, <2>7
<1>3. executes' \in 0..MaxExecutes
  BY ContextMoves DEF Shape
<1>4. ctx' \in [Commands -> NoContext..MaxExecutes]
  <2>1. CASE UNCHANGED ctx
    BY <2>1 DEF Shape
  <2>2. ASSUME NEW c \in Commands, ctx' = Resolved(c) PROVE ctx' \in [Commands -> NoContext..MaxExecutes]
    BY <2>2, ResolvedContext
  <2>3. ASSUME NEW c \in Commands, ctx' = [Resolved(c) EXCEPT ![c] = executes']
        PROVE  ctx' \in [Commands -> NoContext..MaxExecutes]
    <3>1. executes' \in NoContext..MaxExecutes
      BY <1>3 DEF NoContext
    <3>2. QED BY <2>3, <3>1, ResolvedContext
  <2>4. ASSUME NEW c \in Commands, HandsOn(c), at = "inner" PROVE ctx' \in [Commands -> NoContext..MaxExecutes]
    BY <2>4, HandedContext
  <2>5. QED BY <2>1, <2>2, <2>3, <2>4, ContextMoves
<1> DEFINE Rest ==
      /\ runs' \in Seq(CallRecords) /\ top' \in 0..Len(runs')
      /\ at' \in {"idle", "hook", "inner", "record", "unwind", "return", "raise", "exited", "crashed"}
      /\ top' = 0 <=> at' \in {"idle", "crashed"}
      /\ \A i \in DOMAIN runs' : runs'[i].caller < i
<1>5. ASSUME Entering PROVE Rest
  <2>1. PICK fn \in Runnable, cmd \in Commands, execute \in 0..MaxExecutes : Enters(fn, cmd, execute)
    BY <1>5 DEF Entering
  <2>2. runs' \in Seq(CallRecords) /\ Len(runs') \in Nat /\ DOMAIN runs' = 1..Len(runs')
        /\ top' \in DOMAIN runs' /\ at' \in {"hook", "inner"}
    BY <1>1, <1>5, <2>1 DEF Enters, Entering
  <2>3. \A i \in DOMAIN runs' : runs'[i].caller < i
    <3>1. runs'[top'].caller = top /\ top' = Len(runs) + 1
      BY <2>1 DEF Enters
    <3>2. DOMAIN runs' = DOMAIN runs \cup {top'} /\ \A k \in DOMAIN runs : runs'[k] = runs[k]
      BY <2>1 DEF Enters
    <3>3. QED BY <1>1, <3>1, <3>2
  <2>4. top' \in 0..Len(runs') /\ top' # 0
    BY <2>2
  <2>5. QED BY <2>2, <2>3, <2>4
<1>6. ASSUME NEW i \in DOMAIN runs, NEW how, Closes(i, how), top' \in 1..Len(runs),
             at' \in {"record", "unwind", "return", "raise", "exited"}
      PROVE  Rest
  <2>1. runs' \in Seq(CallRecords) /\ DOMAIN runs' = DOMAIN runs
    BY <1>1, <1>6 DEF Closes
  <2>2. \A k \in DOMAIN runs : runs'[k].caller = runs[k].caller
    BY <1>6 DEF Closes
  <2>3. Len(runs') = Len(runs)
    BY <1>1, <2>1
  <2>4. top' \in 0..Len(runs') /\ top' # 0
    BY <1>1, <1>6, <2>3
  <2>5. \A k \in DOMAIN runs' : runs'[k].caller < k
    BY <1>1, <2>1, <2>2
  <2>6. QED BY <1>6, <2>1, <2>4, <2>5
<1>7. ASSUME Closing PROVE Rest
  <2>1. PICK how : Closes(top, how)
    BY <1>7 DEF Closing
  <2>2. top \in DOMAIN runs /\ top' \in 1..Len(runs)
    BY <1>1, <1>7 DEF Closing
  <2>3. at' \in {"record", "unwind", "return", "raise", "exited"}
    BY <1>7 DEF Closing
  <2>4. QED BY <1>6, <2>1, <2>2, <2>3
<1>8. ASSUME Repanicking PROVE Rest
  <2>1. top # 0 /\ top \in DOMAIN runs
    BY <1>1, <1>8 DEF Repanicking, Shape
  <2>2. top' \in DOMAIN runs /\ top' \in 1..Len(runs)
    BY <1>1, <1>8, <2>1 DEF Repanicking
  <2>3. QED BY <1>6, <1>8, <2>2 DEF Repanicking
<1>9. ASSUME Leaving PROVE Rest
  <2>1. top # 0 /\ top \in DOMAIN runs
    BY <1>1, <1>9 DEF Leaving, Shape
  <2>2. top' \in 0..Len(runs) /\ UNCHANGED runs
    BY <1>1, <1>9, <2>1 DEF Leaving
  <2>3. /\ at' \in {"idle", "inner", "crashed"}
        /\ top' = 0 <=> at' \in {"idle", "crashed"}
    BY <1>9 DEF Leaving
  <2>4. QED BY <1>1, <2>2, <2>3
<1>10. ASSUME Staying PROVE Rest
  BY <1>1, <1>10 DEF Staying, Shape
<1> HIDE DEF Rest
<1>11. Rest
  BY Moves, <1>5, <1>7, <1>8, <1>9, <1>10
<1>12. QED BY <1>2, <1>3, <1>4, <1>11 DEF Shape, Rest

LEMMA StackStep == ASSUME Shape, Stack, [Next]_vars PROVE Stack'
<1>1. /\ runs \in Seq(CallRecords) /\ top \in 0..Len(runs) /\ DOMAIN runs = 1..Len(runs)
      /\ \A i \in DOMAIN runs : runs[i].caller < i /\ runs[i].caller \in Nat
  BY RunsFacts
<1> DEFINE Callers ==
      \A i \in DOMAIN runs' :
          /\ i > top' => runs'[i].end # "running"
          /\ runs'[i].end = "running" \/ i = top' =>
                /\ runs'[i].caller > 0 => runs'[runs'[i].caller].end = "running"
                /\ \A j \in DOMAIN runs' :
                      runs'[i].caller < j /\ j < i => runs'[j].end # "running"
<1>2. CASE Entering
  <2>1. PICK fn \in Runnable, cmd \in Commands, execute \in 0..MaxExecutes : Enters(fn, cmd, execute)
    BY <1>2 DEF Entering
  <2>2. /\ top' = Len(runs) + 1 /\ DOMAIN runs' = DOMAIN runs \cup {top'}
        /\ \A k \in DOMAIN runs : runs'[k] = runs[k]
        /\ runs'[top'].caller = top /\ runs'[top'].end = "running"
    BY <2>1 DEF Enters
  <2>3. top > 0 => runs[top].end = "running"
    BY <1>1, <1>2 DEF Entering, Stack, Shape
  <2>4. \A k \in DOMAIN runs : k > top => runs[k].end # "running"
    BY DEF Stack
  <2>5. Callers
    <3>1. TAKE i \in DOMAIN runs'
    <3>2. CASE i = top'
      BY <1>1, <2>2, <2>3, <2>4, <3>2
    <3>3. CASE i \in DOMAIN runs
      BY <1>1, <2>2, <3>3 DEF Stack, Live
    <3>4. QED BY <2>2, <3>2, <3>3
  <2>6. QED BY <1>2, <2>2, <2>5 DEF Stack, Live, Entering
<1>3. ASSUME NEW i \in DOMAIN runs, NEW how, how # "running", Closes(i, how), top' = i, Live(i),
             i = top \/ i = runs[top].caller, top \in DOMAIN runs, runs[top].end # "running" \/ i = top,
             at' \in {"record", "unwind", "return", "raise", "exited"}
      PROVE  Stack'
  <2>1. /\ DOMAIN runs' = DOMAIN runs /\ \A k \in DOMAIN runs : k # i => runs'[k] = runs[k]
        /\ runs'[i].caller = runs[i].caller /\ runs'[i].end = how
    BY <1>3 DEF Closes
  <2>2. \A k \in DOMAIN runs : k > i => runs[k].end # "running"
    BY <1>1, <1>3 DEF Stack, Live
  <2>3. Callers
    <3>1. TAKE k \in DOMAIN runs'
    <3>2. CASE k = i
      <4>1. runs[i].caller > 0 => runs'[runs[i].caller].end = "running"
        BY <1>1, <1>3, <2>1 DEF Stack
      <4>2. \A j \in DOMAIN runs : runs[i].caller < j /\ j < i => runs'[j].end # "running"
        BY <1>1, <1>3, <2>1 DEF Stack
      <4>3. QED BY <1>1, <1>3, <2>1, <3>2, <4>1, <4>2
    <3>3. CASE k # i
      <4>1. runs'[k] = runs[k] /\ (k > i => runs'[k].end # "running")
        BY <2>1, <2>2, <3>1, <3>3
      <4>2. CASE runs[k].end = "running"
        <5>1. k < i
          BY <1>1, <2>1, <2>2, <3>1, <3>3, <4>2
        <5>2. runs[k].caller > 0 => runs[runs[k].caller].end = "running" /\ runs[k].caller < k
          BY <1>1, <2>1, <3>1, <4>2 DEF Stack, Live
        <5>3. \A j \in DOMAIN runs : runs[k].caller < j /\ j < k => runs[j].end # "running"
          BY <2>1, <3>1, <4>2 DEF Stack, Live
        <5>4. \A j \in DOMAIN runs : j < k => runs'[j] = runs[j]
          BY <1>1, <2>1, <3>1, <5>1
        <5>5. QED BY <1>1, <1>3, <2>1, <3>1, <4>1, <5>1, <5>2, <5>3, <5>4
      <4>3. CASE runs[k].end # "running"
        BY <1>3, <3>3, <4>1, <4>3
      <4>4. QED BY <4>2, <4>3
    <3>4. QED BY <3>2, <3>3
  <2>4. QED BY <1>3, <2>1, <2>3 DEF Stack, Live
<1>4. CASE Closing
  <2>1. PICK how : how # "running" /\ Closes(top, how)
    BY <1>4 DEF Closing
  <2>2. top \in DOMAIN runs /\ top' = top /\ Live(top)
        /\ at' \in {"record", "unwind", "return", "raise", "exited"}
    BY <1>1, <1>4 DEF Closing, Live
  <2>3. QED BY <1>3, <2>1, <2>2
<1>5. CASE Repanicking
  <2>1. top \in DOMAIN runs /\ runs[top].end # "running" /\ Live(top)
    BY <1>1, <1>5 DEF Repanicking, Shape, Stack, Live
  <2>2. top' \in DOMAIN runs /\ runs[top'].end = "running" /\ Live(top')
    BY <1>1, <1>5, <2>1 DEF Repanicking, Stack, Live
  <2>3. Closes(top', "panicked") /\ top' = runs[top].caller /\ at' \in {"unwind", "raise"}
    BY <1>5 DEF Repanicking
  <2> DEFINE i == top'
  <2> HIDE DEF i
  <2>4. i = top'
    BY DEF i
  <2>5. QED BY <1>3, <2>1, <2>2, <2>3, <2>4
<1>6. CASE Leaving
  <2>1. top \in DOMAIN runs /\ runs[top].end # "running" /\ Live(top) /\ top' = runs[top].caller
    BY <1>1, <1>6 DEF Leaving, Shape, Stack, Live
  <2>2. UNCHANGED runs /\ top' \in 0..Len(runs) /\ top' < top
    BY <1>1, <1>6, <2>1 DEF Leaving
  <2>3. top' > 0 => runs[top'].end = "running" /\ Live(top')
    BY <1>1, <2>1, <2>2 DEF Stack, Live
  <2>4. \A k \in DOMAIN runs : k > top' => runs[k].end # "running"
    BY <1>1, <2>1, <2>2 DEF Stack
  <2>5. Callers
    <3>1. TAKE k \in DOMAIN runs'
    <3>2. CASE Live(k)
      BY <2>2, <2>4, <3>1, <3>2 DEF Stack
    <3>3. CASE ~Live(k)
      BY <1>1, <2>2, <2>3, <3>1, <3>3 DEF Live
    <3>4. QED BY <3>2, <3>3
  <2>6. QED BY <1>6, <2>2, <2>3, <2>5 DEF Stack, Live, Leaving
<1>7. CASE Staying
  BY <1>7 DEF Staying, Stack, Live
<1>8. QED BY Moves, <1>2, <1>4, <1>5, <1>6, <1>7

-----------------------------------------------------------------------------
(* The Context of a command that an Execute is running is its own.         *)

\* A run stays what it is, and once it has returned it has for good.
LEMMA RunsLast ==
    ASSUME Shape, Stack, [Next]_vars, NEW i \in DOMAIN runs
    PROVE  /\ i \in DOMAIN runs' /\ (Live(i)' => Live(i))
           /\ runs'[i].fn = runs[i].fn /\ runs'[i].cmd = runs[i].cmd
           /\ runs'[i].caller = runs[i].caller /\ runs'[i].execute = runs[i].execute
<1>1. DOMAIN runs = 1..Len(runs) /\ Len(runs) \in Nat
      /\ \A k \in DOMAIN runs : runs[k].caller < k /\ runs[k].caller \in Nat
  BY RunsFacts
<1> DEFINE Kept == /\ i \in DOMAIN runs'
                   /\ runs'[i].fn = runs[i].fn /\ runs'[i].cmd = runs[i].cmd
                   /\ runs'[i].caller = runs[i].caller /\ runs'[i].execute = runs[i].execute
                   /\ runs'[i].end = "running" \/ i = top' => runs[i].end = "running" \/ i = top
<1>2. ASSUME Entering PROVE Kept
  <2>1. PICK fn, cmd, execute : Enters(fn, cmd, execute)
    BY <1>2 DEF Entering
  <2>2. top' = Len(runs) + 1 /\ DOMAIN runs' = DOMAIN runs \cup {top'} /\ runs'[i] = runs[i]
    BY <2>1 DEF Enters
  <2>3. QED BY <1>1, <2>2
<1>3. ASSUME Closing PROVE Kept
  <2>1. PICK how : how # "running" /\ Closes(top, how)
    BY <1>3 DEF Closing
  <2>2. top' = top
    BY <1>3 DEF Closing
  <2>3. CASE i = top
    BY <2>1, <2>2, <2>3 DEF Closes
  <2>4. CASE i # top
    BY <2>1, <2>2, <2>4 DEF Closes
  <2>5. QED BY <2>3, <2>4
<1>4. ASSUME at \in {"return", "raise"}, top' = runs[top].caller, i = top'
      PROVE  runs[i].end = "running"
  <2>1. top \in DOMAIN runs /\ Live(top) /\ i > 0
    BY <1>1, <1>4 DEF Shape, Live
  <2>2. QED BY <1>4, <2>1 DEF Stack
<1>5. ASSUME Leaving PROVE Kept
  BY <1>4, <1>5 DEF Leaving
<1>6. ASSUME Repanicking PROVE Kept
  <2>1. Closes(top', "panicked") /\ at = "raise" /\ top' = runs[top].caller
    BY <1>6 DEF Repanicking
  <2>2. CASE i = top'
    BY <1>4, <2>1, <2>2 DEF Closes
  <2>3. CASE i # top'
    BY <2>1, <2>3 DEF Closes
  <2>4. QED BY <2>2, <2>3
<1>7. ASSUME Staying PROVE Kept
  BY <1>7 DEF Staying
<1> HIDE DEF Kept
<1>8. Kept
  BY Moves, <1>2, <1>3, <1>5, <1>6, <1>7
<1>9. QED BY <1>8 DEF Kept, Live

LEMMA ContextsInit == ASSUME Init PROVE Contexts
<1>1. runs = <<>> /\ ctx = [c \in Commands |-> NoContext]
  BY DEF Init
<1>2. DOMAIN runs = {} /\ ~(NoContext > 0)
  BY <1>1 DEF NoContext
<1>3. QED BY <1>1, <1>2 DEF Contexts, Traced

LEMMA RunsSame == ASSUME Shape, Stack, [Next]_vars PROVE SameRuns
BY RunsLast DEF SameRuns

LEMMA ClosesSame == ASSUME NEW i, NEW how, Closes(i, how) PROVE SameRuns
BY DEF Closes, SameRuns

LEMMA InheritedKept ==
    ASSUME Shape, SameRuns, NEW i \in DOMAIN runs
    PROVE  \A s : Inherited(i, s) => Inherited(i, s)'
<1>1. DOMAIN runs = 1..Len(runs) /\ Len(runs) \in Nat
  BY RunsFacts
<1>2. \A h \in 1..(i - 1) : h \in DOMAIN runs
  BY <1>1
<1>3. QED BY <1>2 DEF Inherited, SameRuns

\* The run that begins with a step, and nothing else, is new.
LEMMA NewRun ==
    ASSUME Shape, [Next]_vars, NEW i \in DOMAIN runs', i \notin DOMAIN runs
    PROVE  /\ at \in {"idle", "inner"} /\ i = top' /\ i = Len(runs) + 1
           /\ runs'[i].end = "running" /\ runs'[i].seen = FALSE
           /\ at = "inner" => runs'[i].execute = 0
<1>1. ASSUME NEW k, NEW how, Closes(k, how) PROVE FALSE
  BY <1>1 DEF Closes
<1>2. ~Closing /\ ~Leaving /\ ~Repanicking /\ ~Staying
  BY <1>1 DEF Closing, Leaving, Repanicking, Staying
<1>3. Entering
  BY <1>2, Moves
<1>4. PICK fn, cmd, execute : Enters(fn, cmd, execute) /\ (at = "inner" => execute = 0)
  BY <1>3 DEF Entering
<1>5. QED BY <1>3, <1>4 DEF Enters, Entering

\* A run that begins while none is running is a new Execute.
LEMMA NewInIdle ==
    ASSUME Shape, [Next]_vars, NEW i \in DOMAIN runs', i \notin DOMAIN runs, at = "idle"
    PROVE  executes' # executes
<1>1. /\ ~Leaving /\ ~Closing /\ ~Repanicking /\ ~Staying
      /\ UNCHANGED runs => FALSE
  BY NewRun DEF Leaving, Closing, Repanicking, Staying, Closes
<1>2. \E c \in Commands : Execute(c)
  <2>1. ASSUME NEW c, NEW cmd, Call(c, cmd) PROVE FALSE
    BY <2>1 DEF Call
  <2>2. ASSUME NEW c, NEW typed, NEW asked,
               Help(c, typed, asked) \/ ShowHelp(c) \/ RecordExecuteError(c, typed)
        PROVE  FALSE
    BY <1>1, <2>2 DEF Help, ShowHelp, RecordExecuteError
  <2>3. ASSUME NEW code, NEW failed, NEW cfg, ExitsWith(code, failed, cfg) PROVE FALSE
    BY <2>3 DEF ExitsWith
  <2>4. ~(Hook \/ Finish \/ Panic \/ Leave \/ Raise \/ Record \/ recordPanic)
    BY DEF Hook, Finish, Panic, Leave, Raise, Record, recordPanic
  <2>5. UNCHANGED vars => FALSE
    BY <1>1 DEF vars, host
  <2>6. QED BY Steps, <2>1, <2>2, <2>3, <2>4, <2>5
<1>3. executes' = executes + 1 /\ executes \in Nat
  BY <1>2, ExecuteFacts DEF Shape
<1>4. QED BY <1>3

LEMMA ContextsStep == ASSUME Shape, Stack, Contexts, [Next]_vars PROVE Contexts'
<1>1. DOMAIN runs = 1..Len(runs) /\ Len(runs) \in Nat
      /\ \A k \in DOMAIN runs : runs[k] \in CallRecords /\ runs[k].execute \in Nat /\ runs[k].cmd \in Commands
  BY RunsFacts DEF CallRecords
<1>2. executes \in Nat /\ Root \in Commands /\ ctx \in [Commands -> NoContext..MaxExecutes]
  BY TreeAssumption DEF Shape
<1>3. SameRuns
  BY RunsSame
\* The Context of a live run stays what it is.
<1>4. ASSUME UNCHANGED executes,
             \A i \in DOMAIN runs : Live(i) /\ runs[i].execute > 0 => ctx'[runs[i].cmd] = ctx[runs[i].cmd]
      PROVE  \A i \in DOMAIN runs' : OwnContext(i)'
  <2>1. TAKE i \in DOMAIN runs'
  <2>2. CASE i \in DOMAIN runs
    <3>1. OwnContext(i)
      BY <2>2 DEF Contexts
    <3>2. /\ Live(i)' => Live(i)
          /\ runs'[i].cmd = runs[i].cmd /\ runs'[i].caller = runs[i].caller
          /\ runs'[i].execute = runs[i].execute
      BY <2>2, RunsLast
    <3>3. \A s : Inherited(i, s) => Inherited(i, s)'
      BY <1>3, <2>2, InheritedKept
    <3>4. ASSUME Live(i)', runs'[i].execute > 0
          PROVE  IF runs'[i].cmd \in Shadowed THEN Inherited(i, ctx[runs[i].cmd])'
                                             ELSE ctx'[runs'[i].cmd] = executes'
      <4>1. Live(i) /\ runs[i].execute > 0 /\ ctx'[runs[i].cmd] = ctx[runs[i].cmd]
        BY <1>4, <2>2, <3>2, <3>4
      <4>2. CASE runs[i].cmd \in Shadowed
        <5>1. Inherited(i, ctx[runs[i].cmd])
          BY <3>1, <4>1, <4>2 DEF OwnContext
        <5>2. \A h \in 1..(i - 1) : h \in DOMAIN runs
          BY <1>1, <2>2
        <5>3. QED BY <1>3, <3>2, <4>1, <4>2, <5>1, <5>2 DEF Inherited, SameRuns
      <4>3. CASE runs[i].cmd \notin Shadowed
        BY <1>4, <3>1, <3>2, <4>1, <4>3 DEF OwnContext
      <4>4. QED BY <4>2, <4>3
    <3>5. QED BY <1>4, <3>1, <3>2, <3>4 DEF OwnContext
  <2>3. CASE i \notin DOMAIN runs
    <3>1. at # "idle"
      BY <1>4, <2>3, NewInIdle
    <3>2. runs'[i].execute = 0
      BY <2>3, <3>1, NewRun
    <3>3. QED BY <1>2, <1>4, <3>2 DEF OwnContext
  <2>4. QED BY <2>2, <2>3
<1>5. CASE UNCHANGED <<ctx, executes>>
  <2>1. \A c \in Commands : Traced(c)'
    BY <1>3, <1>5 DEF Contexts, Traced, SameRuns
  <2>2. QED BY <1>4, <1>5, <2>1 DEF Contexts
<1>6. ASSUME at = "inner", UNCHANGED <<executes, runs>>, NEW c \in Commands, HandsOn(c)
      PROVE  Contexts'
  <2>1. /\ runs[top].cmd \in Commands
        /\ \A d \in Commands : /\ ctx[d] # NoContext => ctx'[d] = ctx[d]
                              /\ ctx'[d] \in {ctx[d], ctx[runs[top].cmd]}
    BY <1>6, HandedContext
  <2>2. \A d \in Commands : Traced(d)'
    BY <1>6, <2>1 DEF Contexts, Traced
  <2>3. ASSUME NEW i \in DOMAIN runs, Live(i), runs[i].execute > 0
        PROVE  ctx'[runs[i].cmd] = ctx[runs[i].cmd]
    <3>1. OwnContext(i) /\ runs[i].cmd \in Commands
      BY <1>1 DEF Contexts
    <3>2. ctx[runs[i].cmd] # NoContext
      BY <1>1, <1>2, <2>3, <3>1 DEF OwnContext, Inherited, NoContext, NoStart
    <3>3. QED BY <2>1, <3>1, <3>2
  <2>4. QED BY <1>4, <1>6, <2>2, <2>3 DEF Contexts
<1>7. ASSUME at = "idle", executes' = executes + 1, NEW c \in Commands,
             \/ ctx' = Resolved(c) /\ UNCHANGED runs
             \/ ctx' = Resolved(c) /\ c \in Shadowed /\ Enters(c, c, executes')
             \/ /\ ctx' = [Resolved(c) EXCEPT ![c] = executes'] /\ c \notin Shadowed
                /\ Enters(c, c, executes')
      PROVE  Contexts'
  <2>1. \A d \in Commands : Resolved(c)[d] \in {ctx[d], ctx[Root], NoStart}
    BY ResolvedContext
  <2>2. Resolved(c) \in [Commands -> NoContext..MaxExecutes] /\ Resolved(c)[c] # NoContext
    BY ResolvedContext
  <2>3. ASSUME NEW d \in Commands PROVE Traced(d)'
    <3>1. CASE ctx'[d] = Resolved(c)[d]
      <4>1. Traced(d) /\ Traced(Root)
        BY <1>2 DEF Contexts
      <4>2. ctx'[d] \in {ctx[d], ctx[Root], NoStart}
        BY <2>1, <3>1
      <4>3. QED BY <1>3, <4>1, <4>2 DEF Traced, SameRuns, NoStart
    <3>2. CASE ctx'[d] # Resolved(c)[d]
      <4>1. d = c /\ ctx'[c] = executes' /\ c \notin Shadowed /\ Enters(c, c, executes')
        BY <1>7, <2>2, <3>2
      <4>2. QED BY <4>1 DEF Enters, Traced
    <3>3. QED BY <3>1, <3>2
  <2>4. \A i \in DOMAIN runs : ~Live(i)
    <3>1. top = 0
      BY <1>7 DEF Shape
    <3>2. QED BY <1>1, <3>1 DEF Stack, Live
  <2>5. ASSUME NEW i \in DOMAIN runs' PROVE OwnContext(i)'
    <3>1. CASE i \in DOMAIN runs
      <4>1. OwnContext(i) /\ ~Live(i)
        BY <2>4, <3>1 DEF Contexts
      <4>2. ~Live(i)' /\ runs'[i].execute = runs[i].execute /\ runs'[i].caller = runs[i].caller
        BY <3>1, <4>1, RunsLast
      <4>3. QED BY <1>1, <1>2, <1>7, <3>1, <4>1, <4>2 DEF OwnContext
    <3>2. CASE i \notin DOMAIN runs
      <4>1. Enters(c, c, executes')
        BY <1>7, <3>2
      <4>2. i = top' /\ runs'[i].execute = executes' /\ runs'[i].cmd = c /\ runs'[i].caller = 0
            /\ i = Len(runs) + 1
        BY <1>7, <3>2, <4>1, NewRun DEF Enters, Shape
      <4>3. c \notin Shadowed => ctx'[c] = executes'
        BY <1>7, <2>2, <3>2
      <4>4. c \in Shadowed => Inherited(i, ctx[c])'
        <5>1. SUFFICES ASSUME c \in Shadowed, ctx'[c] # NoStart
              PROVE  \E h \in 1..(i - 1) : /\ runs'[h].execute = ctx'[c]
                                           /\ runs'[h].execute \in 1..(executes' - 1)
                                           /\ runs'[h].cmd \notin Shadowed
          BY <4>2 DEF Inherited
        <5>2. ctx'[c] = Resolved(c)[c]
          BY <1>7, <3>2, <5>1
        <5>3. ctx'[c] \in {ctx[c], ctx[Root]} /\ ctx'[c] > 0
          BY <2>1, <2>2, <5>1, <5>2 DEF NoContext, NoStart
        <5>4. PICK h \in DOMAIN runs : runs[h].execute = ctx'[c] /\ runs[h].cmd \notin Shadowed
          BY <1>2, <5>3 DEF Contexts, Traced
        <5>5. OwnContext(h)
          BY DEF Contexts
        <5>6. runs[h].execute \in 1..(executes' - 1)
          BY <1>1, <1>2, <1>7, <5>3, <5>4, <5>5 DEF OwnContext
        <5>7. h \in 1..(i - 1) /\ runs'[h].execute = runs[h].execute /\ runs'[h].cmd = runs[h].cmd
          BY <1>1, <1>3, <4>2 DEF SameRuns
        <5>8. QED BY <5>4, <5>6, <5>7
      <4>5. QED BY <1>2, <1>7, <4>2, <4>3, <4>4 DEF OwnContext
    <3>3. QED BY <3>1, <3>2
  <2>6. QED BY <2>3, <2>5 DEF Contexts
<1>8. QED BY <1>5, <1>6, <1>7, ContextMoves

-----------------------------------------------------------------------------
(* The log grows.                                                          *)

IsSeq(s) == s \in Seq({s[i] : i \in DOMAIN s})

LEMMA Joined ==
    ASSUME NEW l, NEW m, IsSeq(l), IsSeq(m)
    PROVE  /\ IsSeq(l \o m) /\ DOMAIN l = 1..Len(l) /\ DOMAIN m = 1..Len(m)
           /\ Len(l) \in Nat /\ Len(m) \in Nat
           /\ DOMAIN (l \o m) = 1..(Len(l) + Len(m))
           /\ \A j \in DOMAIN l : (l \o m)[j] = l[j]
           /\ \A j \in DOMAIN m : (l \o m)[Len(l) + j] = m[j]
<1> DEFINE S == {l[i] : i \in DOMAIN l} \cup {m[i] : i \in DOMAIN m}
<1>1. l \in Seq(S) /\ m \in Seq(S)
  BY SeqMonotonic DEF IsSeq
<1> HIDE DEF S
<1>2. /\ l \o m \in Seq(S) /\ Len(l \o m) = Len(l) + Len(m)
      /\ \A i \in 1 .. Len(l) + Len(m) : (l \o m)[i] = IF i <= Len(l) THEN l[i] ELSE m[i - Len(l)]
  BY <1>1, ConcatProperties
<1>3. /\ DOMAIN l = 1..Len(l) /\ DOMAIN m = 1..Len(m) /\ Len(l) \in Nat /\ Len(m) \in Nat
      /\ DOMAIN (l \o m) = 1..(Len(l) + Len(m))
  BY <1>1, <1>2
<1>4. \A j \in DOMAIN l : (l \o m)[j] = l[j]
  BY <1>2, <1>3
<1>5. \A j \in DOMAIN m : (l \o m)[Len(l) + j] = m[j]
  <2>1. TAKE j \in DOMAIN m
  <2>2. Len(l) + j \in 1..Len(l) + Len(m) /\ ~(Len(l) + j <= Len(l)) /\ Len(l) + j - Len(l) = j
    BY <1>3
  <2>3. QED BY <1>2, <2>2
<1>6. IsSeq(l \o m)
  <2> DEFINE s == l \o m
  <2>1. s \in Seq(S)
    BY <1>2
  <2> HIDE DEF s
  <2>2. s \in Seq({s[i] : i \in DOMAIN s})
    <3>1. DOMAIN s = 1..Len(s) /\ Len(s) \in Nat
      BY <2>1
    <3>2. s \in [1..Len(s) -> {s[i] : i \in DOMAIN s}]
      BY <2>1, <3>1
    <3>3. QED BY <3>1, <3>2, SeqDef
  <2>3. QED BY <2>2 DEF IsSeq, s
<1>7. QED BY <1>3, <1>4, <1>5, <1>6

LEMMA ShortSeqs ==
    /\ IsSeq(<<>>)
    /\ \A x : IsSeq(<<x>>) /\ DOMAIN <<x>> = {1} /\ Len(<<x>>) = 1 /\ <<x>>[1] = x
    /\ \A x, y : /\ IsSeq(<<x, y>>) /\ DOMAIN <<x, y>> = {1, 2} /\ Len(<<x, y>>) = 2
                 /\ <<x, y>>[1] = x /\ <<x, y>>[2] = y
<1>1. IsSeq(<<>>)
  BY DEF IsSeq
<1>2. ASSUME NEW x PROVE IsSeq(<<x>>) /\ DOMAIN <<x>> = {1} /\ Len(<<x>>) = 1 /\ <<x>>[1] = x
  BY DEF IsSeq
<1>3. ASSUME NEW x, NEW y
      PROVE  /\ IsSeq(<<x, y>>) /\ DOMAIN <<x, y>> = {1, 2} /\ Len(<<x, y>>) = 2
             /\ <<x, y>>[1] = x /\ <<x, y>>[2] = y
  BY DEF IsSeq
<1>4. QED BY <1>1, <1>2, <1>3

\* Records that are about the outcome of no run.
Unrelated(s) == \A j \in DOMAIN s : s[j].call \notin {"completed", "error"}

\* What is in the log stays where it is.
Grows ==
    /\ IsSeq(log') /\ DOMAIN log = 1..Len(log) /\ Len(log) \in Nat
    /\ DOMAIN log \subseteq DOMAIN log' /\ \A j \in DOMAIN log : log'[j] = log[j]

\* Nothing is added about the outcome of a run.
Quietly ==
    Grows /\ \A j \in DOMAIN log' : j \notin DOMAIN log => log'[j].call \notin {"completed", "error"}

\* The outcome of run i is added: once, and then its error, too.
Counts(i, code) ==
    /\ log'[Len(log) + 1].call = "completed" /\ log'[Len(log) + 1].run = i
    /\ log'[Len(log) + 1].code = code /\ log'[Len(log) + 1].start = ctx[runs[i].cmd]

AddsOutcome(i, code) == Grows /\ DOMAIN log' = DOMAIN log \cup {Len(log) + 1} /\ Counts(i, code)

AddsFailure(i, code) ==
    /\ Grows /\ DOMAIN log' = DOMAIN log \cup {Len(log) + 1, Len(log) + 2} /\ Counts(i, code)
    /\ log'[Len(log) + 2].call = "error" /\ log'[Len(log) + 2].run = i

LEMMA LogFacts == ASSUME IsSeq(log) PROVE DOMAIN log = 1..Len(log) /\ Len(log) \in Nat
BY DEF IsSeq

LEMMA QuietWhenSame == ASSUME IsSeq(log), log' = log PROVE Quietly
BY LogFacts DEF Quietly, Grows

LEMMA QuietWhenAdded ==
    ASSUME IsSeq(log), NEW m, IsSeq(m), Unrelated(m),
           log' = log \o Accepted(m)
    PROVE  Quietly
<1>1. CASE closed
  <2>1. log' = log \o <<>>
    BY <1>1 DEF Accepted
  <2>2. log' = log
    BY <2>1, ConcatEmptySeq DEF IsSeq
  <2>3. QED BY <2>2, QuietWhenSame
<1>2. CASE ~closed
  <2>1. log' = log \o m
    BY <1>2 DEF Accepted
  <2>2. Grows /\ DOMAIN log' = 1..(Len(log) + Len(m)) /\ DOMAIN m = 1..Len(m) /\ Len(m) \in Nat
        /\ \A j \in DOMAIN m : log'[Len(log) + j] = m[j]
    BY <2>1, Joined DEF Grows
  <2>3. ASSUME NEW j \in DOMAIN log', j \notin DOMAIN log
        PROVE  log'[j].call \notin {"completed", "error"}
    <3>1. j - Len(log) \in DOMAIN m /\ j = Len(log) + (j - Len(log))
      BY <2>2, <2>3 DEF Grows
    <3>2. QED BY <2>2, <3>1 DEF Unrelated
  <2>4. QED BY <2>2, <2>3 DEF Quietly
<1>3. QED BY <1>1, <1>2

\* The ways recordOutcome may go, with what the client is and with its panic.
LEMMA OutcomeFacts ==
    ASSUME IsSeq(log), NEW i, NEW cfg, NEW failed \in BOOLEAN, NEW code,
           NEW o \in Outcomes(i, cfg, failed, code), log' = log \o Accepted(o.records)
    PROVE  \/ ctx[runs[i].cmd] = NoContext /\ o.panic = "nilContext" /\ log' = log
           \/ /\ ctx[runs[i].cmd] # NoContext
              /\ \/ o.panic = None
                 \/ o.panic = "classifier" /\ failed /\ Called(cfg) # {}
              /\ \/ closed /\ log' = log
                 \/ ~closed /\ ~failed /\ o.panic = None /\ AddsOutcome(i, code)
                 \/ ~closed /\ failed /\ o.panic = None /\ AddsFailure(i, code)
                 \/ ~closed /\ o.panic = "classifier" /\ AddsOutcome(i, code)
<1> DEFINE one == Completed(i, code)
           two == Raised(i, cfg)
<1>1. \/ ctx[runs[i].cmd] = NoContext /\ o = [records |-> <<>>, panic |-> "nilContext"]
      \/ ctx[runs[i].cmd] # NoContext /\ ~failed /\ o = [records |-> <<one>>, panic |-> None]
      \/ ctx[runs[i].cmd] # NoContext /\ failed /\ o = [records |-> <<one, two>>, panic |-> None]
      \/ /\ ctx[runs[i].cmd] # NoContext /\ failed /\ Called(cfg) # {}
         /\ o = [records |-> <<one>>, panic |-> "classifier"]
  BY DEF Outcomes
<1>2. /\ one.call = "completed" /\ one.run = i /\ one.code = code /\ one.start = ctx[runs[i].cmd]
      /\ two.call = "error" /\ two.run = i
  BY DEF Completed, Raised
<1> HIDE DEF one, two
<1>3. ASSUME Accepted(o.records) = <<>> PROVE log' = log
  BY <1>3, ConcatEmptySeq DEF IsSeq
<1>4. ASSUME ~closed, o.records = <<one>> PROVE AddsOutcome(i, code)
  <2>1. log' = log \o <<one>>
    BY <1>4 DEF Accepted
  <2>2. Grows /\ DOMAIN log' = 1..(Len(log) + 1) /\ log'[Len(log) + 1] = one
    BY <2>1, Joined, ShortSeqs DEF Grows
  <2>3. DOMAIN log' = DOMAIN log \cup {Len(log) + 1}
    BY <2>2 DEF Grows
  <2>4. QED BY <1>2, <2>2, <2>3 DEF AddsOutcome, Counts
<1>5. ASSUME ~closed, o.records = <<one, two>> PROVE AddsFailure(i, code)
  <2>1. log' = log \o <<one, two>>
    BY <1>5 DEF Accepted
  <2>2. Grows /\ DOMAIN log' = 1..(Len(log) + 2) /\ log'[Len(log) + 1] = one /\ log'[Len(log) + 2] = two
    BY <2>1, Joined, ShortSeqs DEF Grows
  <2>3. DOMAIN log' = DOMAIN log \cup {Len(log) + 1, Len(log) + 2}
    BY <2>2 DEF Grows
  <2>4. QED BY <1>2, <2>2, <2>3 DEF AddsFailure, Counts
<1>6. closed => Accepted(o.records) = <<>>
  BY DEF Accepted
<1>7. CASE ctx[runs[i].cmd] = NoContext
  <2>1. o.records = <<>> /\ o.panic = "nilContext"
    BY <1>1, <1>7
  <2>2. Accepted(o.records) = <<>>
    BY <2>1 DEF Accepted
  <2>3. QED BY <1>3, <1>7, <2>1, <2>2
<1>8. CASE ctx[runs[i].cmd] # NoContext
  <2>1. \/ ~failed /\ o.records = <<one>> /\ o.panic = None
        \/ failed /\ o.records = <<one, two>> /\ o.panic = None
        \/ failed /\ Called(cfg) # {} /\ o.records = <<one>> /\ o.panic = "classifier"
    BY <1>1, <1>8
  <2>2. CASE closed
    BY <1>3, <1>6, <1>8, <2>1, <2>2
  <2>3. CASE ~closed
    BY <1>4, <1>5, <1>8, <2>1, <2>3
  <2>4. QED BY <2>2, <2>3
<1>9. QED BY <1>7, <1>8

\* What the growth of the log is for the records of each run.
LEMMA QuietRecords ==
    ASSUME IsSeq(log), Quietly, NEW k
    PROVE  CompletedOf(k)' = CompletedOf(k) /\ ErrorsOf(k)' = ErrorsOf(k)
BY DEF Quietly, Grows, CompletedOf, ErrorsOf

LEMMA OtherRecords ==
    ASSUME IsSeq(log), NEW i, NEW code, AddsOutcome(i, code) \/ AddsFailure(i, code), NEW k, k # i
    PROVE  CompletedOf(k)' = CompletedOf(k) /\ ErrorsOf(k)' = ErrorsOf(k)
<1>1. ASSUME NEW j \in DOMAIN log', j \notin DOMAIN log PROVE log'[j].run # k
  BY <1>1 DEF AddsOutcome, AddsFailure, Counts
<1>2. DOMAIN log \subseteq DOMAIN log' /\ \A j \in DOMAIN log : log'[j] = log[j]
  BY DEF AddsOutcome, AddsFailure, Grows
<1>3. QED BY <1>1, <1>2 DEF CompletedOf, ErrorsOf

LEMMA OwnRecords ==
    ASSUME IsSeq(log), NEW i, NEW code, AddsOutcome(i, code) \/ AddsFailure(i, code)
    PROVE  /\ CompletedOf(i)' = CompletedOf(i) \cup {Len(log) + 1}
           /\ AddsOutcome(i, code) => ErrorsOf(i)' = ErrorsOf(i)
           /\ AddsFailure(i, code) => ErrorsOf(i)' = ErrorsOf(i) \cup {Len(log) + 2}
           /\ Grows /\ Counts(i, code)
<1>1. Grows /\ Counts(i, code)
  BY DEF AddsOutcome, AddsFailure
<1>2. CASE AddsOutcome(i, code)
  <2>1. DOMAIN log' = DOMAIN log \cup {Len(log) + 1}
    BY <1>2 DEF AddsOutcome
  <2>2. CompletedOf(i)' = CompletedOf(i) \cup {Len(log) + 1}
    BY <1>1, <2>1 DEF CompletedOf, Grows, Counts
  <2>3. ErrorsOf(i)' = ErrorsOf(i)
    BY <1>1, <2>1 DEF ErrorsOf, Grows, Counts
  <2>4. ~AddsFailure(i, code)
    BY <1>1, <2>1 DEF AddsFailure, Grows
  <2>5. QED BY <1>1, <2>2, <2>3, <2>4
<1>3. CASE AddsFailure(i, code)
  <2>1. DOMAIN log' = DOMAIN log \cup {Len(log) + 1, Len(log) + 2}
        /\ log'[Len(log) + 2].call = "error" /\ log'[Len(log) + 2].run = i
    BY <1>3 DEF AddsFailure
  <2>2. CompletedOf(i)' = CompletedOf(i) \cup {Len(log) + 1}
    BY <1>1, <2>1 DEF CompletedOf, Grows, Counts
  <2>3. ErrorsOf(i)' = ErrorsOf(i) \cup {Len(log) + 2}
    BY <1>1, <2>1 DEF ErrorsOf, Grows, Counts
  <2>4. ~AddsOutcome(i, code)
    BY <1>1, <2>1 DEF AddsOutcome, Grows
  <2>5. QED BY <1>1, <2>2, <2>3, <2>4
<1>4. QED BY <1>2, <1>3

-----------------------------------------------------------------------------
(* The books: what is recorded of each run, wherever the goroutine is.     *)

CurrentEnd(i) == runs[i].open = ~closed /\ runs[i].seen = (ctx[runs[i].cmd] # NoContext)

\* The bodies of RecordedOnce, NothingMissed, CrashLosesNothing, LatencyIsOwn.
Once(i) ==
    \A k \in CompletedOf(i) :
        \/ /\ log[k].code = runs[i].code \/ k \in Unclassified(i)
           /\ \A j \in CompletedOf(i) : k <= j
        \/ /\ log[k].code = panicExitCode
           /\ \E j \in Unclassified(i) : j < k /\ CompletedOf(i) = {j, k}

Owed(i) ==
    /\ runs[i].open /\ runs[i].seen
    /\ \/ runs[i].end = "exited"
       \/ Wrapped(runs[i].fn) /\ runs[i].end \in {"ok", "failed"}
       \/ Wrapped(runs[i].fn) /\ runs[i].end = "panicked" /\ config.panics

Paid(i) == \E j \in CompletedOf(i) : log[j].code = runs[i].code

Fatal(i) == Wrapped(runs[i].fn) /\ runs[i].end = "panicked" /\ runs[i].seen /\ config.panics

Latency(i) ==
    \A j \in CompletedOf(i) :
        runs[i].execute > 0 =>
            IF runs[i].cmd \notin Shadowed THEN log[j].start = runs[i].execute
                                           ELSE Inherited(i, log[j].start)

\* Before the wrapper has recorded what the function returned.
Recording(i) ==
    /\ CompletedOf(i) = {} /\ CurrentEnd(i)
    /\ \/ value = "err" /\ runs[i].end = "failed" /\ runs[i].code = 1
       \/ value = "ok" /\ runs[i].end = "ok" /\ runs[i].code = 0

\* Before recordPanic: the panic is the function's, or it is that of the
\* recording, which has recorded the outcome without its error, or nothing:
\* then it cannot record anything now.
Unwinding(i) ==
    /\ \/ /\ CompletedOf(i) = {}
          /\ runs[i].end = "panicked" \/ closed \/ ctx[runs[i].cmd] = NoContext
       \/ \E j \in Unclassified(i) : CompletedOf(i) = {j}
    /\ runs[i].end = "panicked" => runs[i].code = panicExitCode /\ CurrentEnd(i)

BooksOf(i) ==
    /\ runs[i].end = "running" => CompletedOf(i) = {}
    /\ i = top /\ at = "record" => Recording(i)
    /\ i = top /\ at = "unwind" => Unwinding(i)
    /\ Once(i)
    /\ Owed(i) => \/ Paid(i)
                  \/ i = top /\ at = "record"
                  \/ i = top /\ at = "unwind" /\ runs[i].end = "panicked"
    /\ Fatal(i) => closed \/ (i = top /\ at = "unwind")
    /\ Latency(i)

Books ==
    /\ IsSeq(log)
    /\ \A j \in DOMAIN log : log[j].call = "completed" => log[j].run \in DOMAIN runs
    /\ \A i \in DOMAIN runs : BooksOf(i)

LEMMA BooksInit == ASSUME Init PROVE Books
<1>1. log = <<>> /\ runs = <<>>
  BY DEF Init
<1>2. IsSeq(log) /\ DOMAIN log = {} /\ DOMAIN runs = {}
  BY <1>1, ShortSeqs
<1>3. QED BY <1>2 DEF Books

\* A step that leaves a run and its records alone keeps its books, unless it
\* begins or ends a recording.
LEMMA BooksKept ==
    ASSUME Shape, IsSeq(log), Grows, NEW i \in DOMAIN runs, BooksOf(i),
           runs'[i] = runs[i], SameRuns, UNCHANGED config, closed => closed',
           CompletedOf(i)' = CompletedOf(i), ErrorsOf(i)' = ErrorsOf(i),
           i = top => at \notin {"record", "unwind"}, i = top' => at' \notin {"record", "unwind"}
    PROVE  BooksOf(i)'
<1>1. \A j \in CompletedOf(i) : log'[j] = log[j]
  BY DEF CompletedOf, Grows
<1>2. Unclassified(i)' = Unclassified(i)
  BY DEF Unclassified
<1>3. Once(i)'
  <2>1. Once(i)
    BY DEF BooksOf
  <2>2. ASSUME NEW k \in CompletedOf(i)
        PROVE  \/ /\ log'[k].code = runs'[i].code \/ k \in Unclassified(i)'
                  /\ \A j \in CompletedOf(i)' : k <= j
               \/ /\ log'[k].code = panicExitCode
                  /\ \E j \in Unclassified(i)' : j < k /\ CompletedOf(i)' = {j, k}
    BY <1>1, <1>2, <2>1 DEF Once
  <2>3. QED BY <2>2 DEF Once
<1>4. Wrapped(runs[i].fn)' = Wrapped(runs[i].fn)
  BY DEF Wrapped
<1>5. Owed(i)' => Owed(i)
  BY <1>4 DEF Owed
<1>6. Paid(i) => Paid(i)'
  BY <1>1 DEF Paid
<1>7. Fatal(i)' => Fatal(i)
  BY <1>4 DEF Fatal
<1>8. Latency(i)'
  <2>1. Latency(i)
    BY DEF BooksOf
  <2>2. \A s : Inherited(i, s) => Inherited(i, s)'
    BY InheritedKept
  <2>3. QED BY <1>1, <2>1, <2>2 DEF Latency, Inherited
<1>9. QED BY <1>3, <1>5, <1>6, <1>7, <1>8 DEF BooksOf

\* A running function ends, and its recording is still to come, if any.
LEMMA BooksOfEnd ==
    ASSUME Shape, IsSeq(log), log' = log, UNCHANGED <<config, closed, ctx>>,
           NEW i \in DOMAIN runs, BooksOf(i), runs[i].end = "running",
           NEW how \in {"ok", "failed", "panicked"}, NEW code, Closes(i, how), Observes(i, code),
           \/ at' = "record" /\ value' = "ok" /\ how = "ok" /\ code = 0
           \/ at' = "record" /\ value' = "err" /\ how = "failed" /\ code = 1
           \/ at' = "unwind" /\ how = "panicked" /\ code = panicExitCode
           \/ at' \in {"return", "raise"} /\ ~Wrapped(runs[i].fn),
           top' = i
    PROVE  BooksOf(i)'
<1>1. CompletedOf(i)' = {}
  <2>1. CompletedOf(i) = {}
    BY DEF BooksOf
  <2>2. QED BY <2>1 DEF CompletedOf
<1>2. runs'[i].end = how /\ runs'[i].code = code /\ runs'[i].fn = runs[i].fn /\ runs'[i].cmd = runs[i].cmd
  BY DEF Closes, Observes
<1>3. CurrentEnd(i)'
  BY <1>2 DEF CurrentEnd, Observes
<1>4. Wrapped(runs[i].fn)' = Wrapped(runs[i].fn)
  BY <1>2 DEF Wrapped
<1>5. Once(i)' /\ Latency(i)'
  BY <1>1 DEF Once, Latency
<1>6. at' = "record" => Recording(i)'
  BY <1>1, <1>2, <1>3 DEF Recording
<1>7. at' = "unwind" => Unwinding(i)' /\ runs'[i].end = "panicked"
  BY <1>1, <1>2, <1>3 DEF Unwinding
<1>8. at' \in {"return", "raise"} => ~Owed(i)' /\ ~Fatal(i)'
  BY <1>2, <1>4 DEF Owed, Fatal
<1>9. at' = "record" => ~Fatal(i)'
  BY <1>2 DEF Fatal
<1>10. QED
  BY <1>2, <1>5, <1>6, <1>7, <1>8, <1>9 DEF BooksOf

\* Nothing is recorded of any run, and none that was there ends.
LEMMA BooksWhenQuiet ==
    ASSUME Shape, Books, [Next]_vars, Quietly, UNCHANGED config, closed => closed',
           \A i \in DOMAIN runs : i \in DOMAIN runs' /\ runs'[i] = runs[i],
           at \notin {"record", "unwind"}, at' \notin {"record", "unwind"}
    PROVE  Books'
<1>1. IsSeq(log) /\ Grows
  BY DEF Books, Quietly
<1>2. ASSUME NEW j \in DOMAIN log', log'[j].call = "completed" PROVE log'[j].run \in DOMAIN runs
  BY <1>2 DEF Books, Quietly, Grows
<1>3. ASSUME NEW i \in DOMAIN runs PROVE BooksOf(i)'
  <2>1. SameRuns
    BY DEF SameRuns
  <2>2. QED BY <1>1, <1>3, <2>1, QuietRecords, BooksKept DEF Books
<1>4. ASSUME NEW i \in DOMAIN runs', i \notin DOMAIN runs PROVE BooksOf(i)'
  <2>1. runs'[i].end = "running" /\ runs'[i].seen = FALSE
    BY <1>4, NewRun
  <2>2. CompletedOf(i) = {}
    BY <1>4 DEF Books, CompletedOf
  <2>3. CompletedOf(i)' = {}
    BY <1>1, <2>2, QuietRecords
  <2>4. Once(i)' /\ Latency(i)'
    BY <2>3 DEF Once, Latency
  <2>5. ~Owed(i)' /\ ~Fatal(i)'
    BY <2>1 DEF Owed, Fatal
  <2>6. QED BY <2>3, <2>4, <2>5 DEF BooksOf
<1>5. IsSeq(log)'
  BY <1>1 DEF Grows, IsSeq
<1>6. QED BY <1>2, <1>3, <1>4, <1>5 DEF Books

\* A step that is about one run keeps the books if it keeps those of that run.
LEMMA BooksWhenOne ==
    ASSUME Shape, Books, NEW t \in DOMAIN runs, BooksOf(t)', top' = t,
           UNCHANGED config, closed => closed', DOMAIN runs' = DOMAIN runs, SameRuns,
           \A i \in DOMAIN runs : i # t => runs'[i] = runs[i],
           top = t \/ at \notin {"record", "unwind"},
           NEW code, Quietly \/ AddsOutcome(t, code) \/ AddsFailure(t, code)
    PROVE  Books'
<1>1. IsSeq(log) /\ Grows
  BY DEF Books, Quietly, AddsOutcome, AddsFailure
<1>2. ASSUME NEW j \in DOMAIN log', log'[j].call = "completed" PROVE log'[j].run \in DOMAIN runs
  <2>1. CASE j \in DOMAIN log
    BY <1>1, <1>2, <2>1 DEF Books, Grows
  <2>2. CASE j \notin DOMAIN log
    BY <1>2, <2>2 DEF Quietly, AddsOutcome, AddsFailure, Counts
  <2>3. QED BY <2>1, <2>2
<1>3. ASSUME NEW i \in DOMAIN runs, i # t PROVE BooksOf(i)'
  <2>1. CompletedOf(i)' = CompletedOf(i) /\ ErrorsOf(i)' = ErrorsOf(i)
    BY <1>1, <1>3, QuietRecords, OtherRecords
  <2>2. BooksOf(i) /\ runs'[i] = runs[i]
    BY <1>3 DEF Books
  <2>3. QED BY <1>1, <1>3, <2>1, <2>2, BooksKept
<1>4. IsSeq(log)'
  BY <1>1 DEF Grows, IsSeq
<1>5. QED BY <1>2, <1>3, <1>4 DEF Books

LEMMA UnrelatedJoin ==
    ASSUME NEW s, NEW m, IsSeq(s), IsSeq(m), Unrelated(s), Unrelated(m)
    PROVE  IsSeq(s \o m) /\ Unrelated(s \o m)
<1>1. /\ IsSeq(s \o m) /\ DOMAIN s = 1..Len(s) /\ DOMAIN m = 1..Len(m)
      /\ Len(s) \in Nat /\ Len(m) \in Nat
      /\ DOMAIN (s \o m) = 1..(Len(s) + Len(m))
      /\ \A j \in DOMAIN s : (s \o m)[j] = s[j]
      /\ \A j \in DOMAIN m : (s \o m)[Len(s) + j] = m[j]
  BY Joined
<1>2. ASSUME NEW j \in DOMAIN (s \o m) PROVE (s \o m)[j].call \notin {"completed", "error"}
  <2>1. CASE j \in DOMAIN s
    BY <1>1, <2>1 DEF Unrelated
  <2>2. CASE j \notin DOMAIN s
    <3>1. j - Len(s) \in DOMAIN m /\ j = Len(s) + (j - Len(s))
      BY <1>1, <2>2
    <3>2. QED BY <1>1, <3>1 DEF Unrelated
  <2>3. QED BY <2>1, <2>2
<1>3. QED BY <1>1, <1>2 DEF Unrelated

LEMMA ShortRecords ==
    ASSUME NEW m, NEW x, x.call \notin {"completed", "error"}, m \in {<<>>, <<x>>}
    PROVE  IsSeq(SessionStart \o m) /\ Unrelated(SessionStart \o m)
<1>1. SessionStart \in {<<>>, <<Session>>} /\ Session.call \notin {"completed", "error"}
  BY DEF SessionStart, Session
<1>2. IsSeq(SessionStart) /\ IsSeq(m) /\ Unrelated(SessionStart) /\ Unrelated(m)
  BY <1>1, ShortSeqs DEF Unrelated
<1>3. QED BY <1>2, UnrelatedJoin

LEMMA UnknownIsQuiet ==
    ASSUME IsSeq(log), NEW parent, NEW typed, recordUnknown(parent, typed)
    PROVE  Quietly /\ UNCHANGED closed
<1>1. PICK suggestion : log' = log \o Accepted(SessionStart \o
                    <<[call |-> "unknown", cmd |-> parent, suggestion |-> suggestion]>>)
  BY DEF recordUnknown
<1> DEFINE e == [call |-> "unknown", cmd |-> parent, suggestion |-> suggestion]
<1>2. e.call \notin {"completed", "error"}
  OBVIOUS
<1> HIDE DEF e
<1>3. QED BY <1>1, <1>2, ShortRecords, QuietWhenAdded DEF recordUnknown, e

LEMMA QuietSteps ==
    ASSUME IsSeq(log), NEW c, NEW typed, NEW asked,
           \/ Execute(c) \/ Help(c, typed, asked) \/ ShowHelp(c)
           \/ RecordExecuteError(c, typed)
    PROVE  Quietly /\ UNCHANGED closed /\ UNCHANGED config
<1>1. ASSUME Execute(c) PROVE Quietly /\ UNCHANGED closed
  <2> DEFINE e == [call |-> "invoked", cmd |-> c]
  <2>1. e.call \notin {"completed", "error"}
    OBVIOUS
  <2>2. UNCHANGED closed /\ (log' = log \/ log' = log \o Accepted(SessionStart \o <<e>>))
    BY <1>1 DEF Execute, PreRun
  <2> HIDE DEF e
  <2>3. QED BY <2>1, <2>2, ShortRecords, QuietWhenAdded, QuietWhenSame
<1>2. ASSUME HelpFunc(c) PROVE Quietly /\ UNCHANGED closed
  <2> DEFINE e == [call |-> "help", cmd |-> c]
  <2>1. e.call \notin {"completed", "error"}
    OBVIOUS
  <2>2. \/ UNCHANGED client
        \/ recordUnknown(c, flags'[c].typed)
        \/ UNCHANGED closed /\ log' = log \o Accepted(SessionStart \o
                       (IF config.help THEN <<e>> ELSE <<>>))
    BY <1>2 DEF HelpFunc
  <2> HIDE DEF e
  <2>3. \/ UNCHANGED client
        \/ \E t : recordUnknown(c, t)
        \/ /\ UNCHANGED closed
           /\ \E m \in {<<>>, <<e>>} : log' = log \o Accepted(SessionStart \o m)
    BY <2>2
  <2>4. QED BY <2>1, <2>3, ShortRecords, QuietWhenAdded, QuietWhenSame, UnknownIsQuiet DEF client
<1>3. ASSUME RecordExecuteError(c, typed) PROVE Quietly /\ UNCHANGED closed
  BY <1>3, UnknownIsQuiet, QuietWhenSame DEF RecordExecuteError, client
<1>4. UNCHANGED config
  BY DEF Execute, Help, ShowHelp, RecordExecuteError, given
<1>5. QED BY <1>1, <1>2, <1>3, <1>4 DEF Help, ShowHelp

-----------------------------------------------------------------------------
LEMMA AddsGrow ==
    ASSUME IsSeq(log), NEW i, NEW code, AddsOutcome(i, code) \/ AddsFailure(i, code)
    PROVE  log' # log
<1>1. Len(log) + 1 \in DOMAIN log'
  BY DEF AddsOutcome, AddsFailure
<1>2. Len(log) + 1 \notin DOMAIN log
  BY LogFacts
<1>3. QED BY <1>1, <1>2

\* The only record of a run has the code that the run ended with.
LEMMA OnlyRecord ==
    ASSUME NEW i, NEW n \in Nat, CompletedOf(i)' = {n},
           log'[n].code = runs'[i].code \/ n \in Unclassified(i)'
    PROVE  Once(i)' /\ (log'[n].code = runs'[i].code => Paid(i)')
<1>1. \A j \in CompletedOf(i)' : n <= j
  OBVIOUS
<1>2. Once(i)'
  BY <1>1 DEF Once
<1>3. log'[n].code = runs'[i].code => Paid(i)'
  BY DEF Paid
<1>4. QED BY <1>2, <1>3

LEMMA LatencyOfTop ==
    ASSUME Shape, SameRuns, NEW t \in DOMAIN runs, NEW code, OwnContext(t), Live(t), Latency(t),
           Grows, Counts(t, code), CompletedOf(t)' = CompletedOf(t) \cup {Len(log) + 1}
    PROVE  Latency(t)'
<1>1. runs'[t].execute = runs[t].execute /\ runs'[t].cmd = runs[t].cmd
  BY DEF SameRuns
<1>2. \A s : Inherited(t, s) => Inherited(t, s)'
  BY InheritedKept
<1>3. ASSUME NEW j \in CompletedOf(t)', runs'[t].execute > 0
      PROVE  IF runs[t].cmd \notin Shadowed THEN log'[j].start = runs[t].execute
                                            ELSE Inherited(t, log'[j].start)
  <2>1. CASE j \in CompletedOf(t)
    <3>1. log'[j] = log[j]
      BY <2>1 DEF CompletedOf, Grows
    <3>2. QED BY <1>1, <1>3, <2>1, <3>1 DEF Latency
  <2>2. CASE j = Len(log) + 1
    BY <1>1, <1>3, <2>2 DEF Counts, OwnContext
  <2>3. QED BY <1>3, <2>1, <2>2
<1>4. QED BY <1>1, <1>2, <1>3 DEF Latency, Inherited

\* The function of run i panics, and nothing is recorded.
LEMMA BooksOfPanic ==
    ASSUME Shape, Books, NEW i \in DOMAIN runs, runs[i].end = "running", NEW v, PanicIn(i, v),
           top' = i, top = i \/ at \notin {"record", "unwind"},
           UNCHANGED <<log, config, closed, ctx>>
    PROVE  Books'
<1>1. /\ Closes(i, "panicked") /\ Observes(i, panicExitCode)
      /\ at' = (IF Wrapped(runs[i].fn) THEN "unwind" ELSE "raise")
  BY PanicInFacts
<1>2. IsSeq(log) /\ BooksOf(i)
  BY DEF Books
<1>3. BooksOf(i)'
  BY <1>1, <1>2, BooksOfEnd
<1>4. DOMAIN runs' = DOMAIN runs /\ \A k \in DOMAIN runs : k # i => runs'[k] = runs[k]
  BY <1>1 DEF Closes
<1>5. Quietly /\ SameRuns
  BY <1>1, <1>2, QuietWhenSame, ClosesSame
<1>6. QED BY <1>3, <1>4, <1>5, BooksWhenOne

LEMMA BooksOfRecord == ASSUME Shape, Stack, Contexts, Books, Record, NEW t, t = top PROVE Books'
<1>1. /\ at = "record" /\ UNCHANGED <<config, runs, top, ctx, closed>>
      /\ t \in DOMAIN runs /\ Live(t) /\ SameRuns
  BY DEF Record, Shape, given, Live, SameRuns
<1>2. IsSeq(log) /\ BooksOf(t) /\ Recording(t) /\ OwnContext(t)
  BY <1>1 DEF Books, BooksOf, Contexts
<1> DEFINE n == Len(log) + 1
           failed == value = "err"
           code == IF failed THEN 1 ELSE 0
<1>3. /\ failed \in BOOLEAN /\ code = runs[t].code
      /\ runs[t].end \in {"ok", "failed"} /\ (failed <=> runs[t].end = "failed")
  BY <1>2 DEF Recording
<1>4. PICK o \in Outcomes(t, config, failed, code) :
         /\ log' = log \o Accepted(o.records)
         /\ IF o.panic = None THEN at' = "return" ELSE at' = "unwind"
  BY DEF Record
<1> HIDE DEF failed, code
<1>5. \/ ctx[runs[t].cmd] = NoContext /\ o.panic = "nilContext" /\ log' = log
      \/ /\ ctx[runs[t].cmd] # NoContext
         /\ \/ o.panic = None
            \/ o.panic = "classifier" /\ failed /\ Called(config) # {}
         /\ \/ closed /\ log' = log
            \/ ~closed /\ ~failed /\ o.panic = None /\ AddsOutcome(t, code)
            \/ ~closed /\ failed /\ o.panic = None /\ AddsFailure(t, code)
            \/ ~closed /\ o.panic = "classifier" /\ AddsOutcome(t, code)
  <2>1. IsSeq(log) /\ failed \in BOOLEAN /\ o \in Outcomes(t, config, failed, code)
        /\ log' = log \o Accepted(o.records)
    BY <1>2, <1>3, <1>4
  <2>2. QED BY <2>1, OutcomeFacts
<1>6. CompletedOf(t) = {}
  BY <1>2 DEF Recording
<1>7. ~Fatal(t)'
  BY <1>1, <1>3 DEF Fatal
<1>8. CASE log' = log
  <2>1. CompletedOf(t)' = {}
    BY <1>1, <1>6, <1>8 DEF CompletedOf
  <2>2. Once(t)' /\ Latency(t)'
    BY <2>1 DEF Once, Latency
  <2>3. ~closed => ctx[runs[t].cmd] = NoContext
    <3>1. ~AddsOutcome(t, code) /\ ~AddsFailure(t, code)
      BY <1>2, <1>8, AddsGrow
    <3>2. QED BY <1>5, <3>1
  <2>4. ~Owed(t)
    BY <1>2, <2>3 DEF Owed, Recording, CurrentEnd
  <2>5. ~Owed(t)'
    BY <1>1, <2>4 DEF Owed, Wrapped
  <2>6. Unwinding(t)'
    BY <1>1, <1>3, <2>1, <2>3 DEF Unwinding
  <2>7. at' \in {"return", "unwind"}
    BY <1>4
  <2>8. BooksOf(t)'
    BY <1>1, <1>7, <2>1, <2>2, <2>5, <2>6, <2>7 DEF BooksOf
  <2>9. Quietly
    BY <1>2, <1>8, QuietWhenSame
  <2>10. QED BY <1>1, <2>8, <2>9, BooksWhenOne
<1>9. CASE AddsOutcome(t, code) \/ AddsFailure(t, code)
  <2>1. /\ CompletedOf(t)' = {n} /\ Grows /\ Counts(t, code)
        /\ (AddsOutcome(t, code) => ErrorsOf(t)' = ErrorsOf(t))
    <3>1. /\ CompletedOf(t)' = CompletedOf(t) \cup {Len(log) + 1} /\ Grows /\ Counts(t, code)
          /\ (AddsOutcome(t, code) => ErrorsOf(t)' = ErrorsOf(t))
      BY <1>2, <1>9, OwnRecords
    <3>2. QED BY <1>6, <3>1
  <2>2. Latency(t)'
    <3>1. Latency(t)
      BY <1>2 DEF BooksOf
    <3>2. QED BY <1>1, <1>2, <1>6, <2>1, <3>1, LatencyOfTop
  <2>3. log'[n].code = runs'[t].code
    BY <1>1, <1>3, <2>1 DEF Counts
  <2>4. Once(t)' /\ Paid(t)'
    <3>1. n \in Nat
      BY <1>2, LogFacts
    <3> HIDE DEF n
    <3>2. QED BY <2>1, <2>3, <3>1, OnlyRecord
  <2>5. at' = "unwind" => Unwinding(t)'
    <3>1. SUFFICES ASSUME at' = "unwind" PROVE Unwinding(t)'
      OBVIOUS
    <3>2. failed /\ AddsOutcome(t, code)
      <4>1. o.panic # None
        BY <1>4, <3>1
      <4>2. ~(log' = log)
        BY <1>2, <1>9, AddsGrow
      <4>3. QED BY <1>5, <4>1, <4>2
    <3>3. n + 1 \notin ErrorsOf(t)'
      BY <1>2, <2>1, <3>2, LogFacts DEF ErrorsOf
    <3>4. n \in Unclassified(t)'
      BY <1>1, <1>3, <2>1, <3>2, <3>3 DEF Unclassified
    <3>5. runs'[t].end # "panicked"
      BY <1>1, <1>3
    <3>6. QED BY <1>1, <2>1, <3>4, <3>5 DEF Unwinding
  <2>6. at' \in {"return", "unwind"} /\ runs'[t].end # "running"
    BY <1>1, <1>3, <1>4
  <2>7. BooksOf(t)'
    BY <1>1, <1>7, <2>2, <2>4, <2>5, <2>6 DEF BooksOf
  <2>8. QED BY <1>1, <1>9, <2>7, BooksWhenOne
<1>10. QED BY <1>5, <1>8, <1>9

LEMMA PanicConfigCalls == Called(PanicConfig) = {} /\ Called(NoConfig) = {}
<1>1. classify(NoConfig) = [category |-> None, reason |-> None]
  BY DEF classify, NoConfig
<1>2. \/ classify(PanicConfig) = [category |-> None, reason |-> None]
      \/ classify(PanicConfig) = [category |-> panicReason, reason |-> panicReason]
  BY DEF classify, NoConfig, PanicConfig
<1>3. QED BY <1>1, <1>2 DEF Called

\* recordPanic: what a panic leaves in the books, whether it is the run's own
\* or that of its recording.
LEMMA BooksOfRecordPanic ==
    ASSUME Shape, Stack, Contexts, Books, recordPanic, NEW t, t = top PROVE Books'
<1>1. /\ at = "unwind" /\ at' = "raise" /\ UNCHANGED <<config, runs, top, ctx>>
      /\ t \in DOMAIN runs /\ Live(t) /\ SameRuns
  BY DEF recordPanic, Shape, given, Live, SameRuns
<1>2. IsSeq(log) /\ BooksOf(t) /\ Unwinding(t) /\ OwnContext(t) /\ runs[t].end # "running"
  BY <1>1 DEF Books, BooksOf, Contexts, Stack
<1> DEFINE n == Len(log) + 1
<1>3. n \in Nat
  BY <1>2, LogFacts
<1>4. Wrapped(runs[t].fn)' = Wrapped(runs[t].fn)
  BY <1>1 DEF Wrapped
\* It suffices that an own panic is recorded, and that the client is shut down.
<1>5. ASSUME log' = log, closed => closed',
             Owed(t) => runs[t].end # "panicked", Fatal(t) => closed'
      PROVE  Books'
  <2>1. CompletedOf(t)' = CompletedOf(t) /\ ErrorsOf(t)' = ErrorsOf(t)
    BY <1>1, <1>5 DEF CompletedOf, ErrorsOf
  <2>2. Once(t)' /\ Latency(t)'
    <3>1. Once(t) /\ Latency(t)
      BY <1>2 DEF BooksOf
    <3>2. Unclassified(t)' = Unclassified(t)
      BY <1>1, <2>1 DEF Unclassified
    <3>3. QED BY <1>1, <1>5, <2>1, <3>1, <3>2 DEF Once, Latency, Inherited
  <2>3. Owed(t)' => Paid(t)'
    <3>1. Owed(t)' => Owed(t)
      BY <1>1, <1>4 DEF Owed
    <3>2. Owed(t) => Paid(t)
      BY <1>1, <1>2, <1>5 DEF BooksOf
    <3>3. Paid(t) => Paid(t)'
      BY <1>1, <1>5, <2>1 DEF Paid
    <3>4. QED BY <3>1, <3>2, <3>3
  <2>4. Fatal(t)' => closed'
    BY <1>1, <1>4, <1>5 DEF Fatal
  <2>5. BooksOf(t)'
    BY <1>1, <1>2, <2>2, <2>3, <2>4 DEF BooksOf
  <2>6. Quietly
    BY <1>2, <1>5, QuietWhenSame
  <2>7. QED BY <1>1, <1>5, <2>5, <2>6, BooksWhenOne
<1>6. CASE ~config.panics
  <2>1. log' = log /\ closed' = closed
    BY <1>6 DEF recordPanic
  <2>2. (Owed(t) => runs[t].end # "panicked") /\ ~Fatal(t)
    BY <1>6 DEF Owed, Fatal
  <2>3. QED BY <1>5, <2>1, <2>2
<1>7. CASE config.panics
  <2>1. PICK o \in Outcomes(t, PanicConfig, TRUE, panicExitCode) :
           log' = log \o Accepted(o.records) /\ closed' = (closed \/ o.panic = None)
    BY <1>7 DEF recordPanic
  <2>2. \/ ctx[runs[t].cmd] = NoContext /\ o.panic = "nilContext" /\ log' = log
        \/ /\ o.panic = None
           /\ (closed /\ log' = log) \/ (~closed /\ AddsFailure(t, panicExitCode))
           /\ ctx[runs[t].cmd] # NoContext
    <3>1. IsSeq(log) /\ TRUE \in BOOLEAN /\ log' = log \o Accepted(o.records)
      BY <1>2, <2>1
    <3>2. "classifier" # None
      BY HooksAssumption DEF Panics
    <3>3. \/ ctx[runs[t].cmd] = NoContext /\ o.panic = "nilContext" /\ log' = log
          \/ /\ ctx[runs[t].cmd] # NoContext
             /\ \/ o.panic = None
                \/ o.panic = "classifier" /\ TRUE /\ Called(PanicConfig) # {}
             /\ \/ closed /\ log' = log
                \/ ~closed /\ ~TRUE /\ o.panic = None /\ AddsOutcome(t, panicExitCode)
                \/ ~closed /\ TRUE /\ o.panic = None /\ AddsFailure(t, panicExitCode)
                \/ ~closed /\ o.panic = "classifier" /\ AddsOutcome(t, panicExitCode)
      BY <2>1, <3>1, OutcomeFacts
    <3>4. QED BY <3>2, <3>3, PanicConfigCalls
  <2>3. closed => closed'
    BY <2>1
  <2>4. CASE ctx[runs[t].cmd] = NoContext /\ log' = log
    <3>1. runs[t].end = "panicked" => ~runs[t].seen
      BY <1>2, <2>4 DEF Unwinding, CurrentEnd
    <3>2. QED BY <1>5, <2>3, <2>4, <3>1 DEF Owed, Fatal
  <2>5. CASE o.panic = None /\ closed /\ log' = log
    <3>1. runs[t].end = "panicked" => ~runs[t].open
      BY <1>2, <2>5 DEF Unwinding, CurrentEnd
    <3>2. QED BY <1>5, <2>1, <2>5, <3>1 DEF Owed
  <2>6. CASE o.panic = None /\ ~closed /\ AddsFailure(t, panicExitCode) /\ ctx[runs[t].cmd] # NoContext
    <3>1. closed'
      BY <2>1, <2>6
    <3>2. /\ CompletedOf(t)' = CompletedOf(t) \cup {n} /\ Grows /\ Counts(t, panicExitCode)
          /\ ErrorsOf(t)' = ErrorsOf(t) \cup {n + 1}
      <4>1. ErrorsOf(t)' = ErrorsOf(t) \cup {Len(log) + 2} /\ Len(log) + 2 = n + 1
        BY <1>2, <2>6, OwnRecords, LogFacts
      <4>2. QED BY <1>2, <2>6, <4>1, OwnRecords
    <3>3. Latency(t)'
      <4>1. Latency(t)
        BY <1>2 DEF BooksOf
      <4>2. QED BY <1>1, <1>2, <3>2, <4>1, LatencyOfTop
    <3>4. log'[n].code = panicExitCode
      BY <3>2 DEF Counts
    <3>5. \A j \in CompletedOf(t) : j \in Nat /\ j < n /\ log'[j] = log[j]
      BY <1>2, <3>2, LogFacts DEF CompletedOf, Grows
    <3>6. runs[t].end = "panicked" => runs'[t].code = panicExitCode
      BY <1>1, <1>2 DEF Unwinding
    <3> HIDE DEF n
    <3>7. CASE CompletedOf(t) = {}
      <4>1. runs[t].end = "panicked"
        BY <1>2, <2>6, <3>7 DEF Unwinding, Unclassified
      <4>2. CompletedOf(t)' = {n} /\ log'[n].code = runs'[t].code
        BY <3>2, <3>4, <3>6, <3>7, <4>1
      <4>3. Once(t)' /\ Paid(t)'
        BY <1>3, <4>2, OnlyRecord
      <4>4. BooksOf(t)'
        BY <1>1, <1>2, <3>1, <3>3, <4>3 DEF BooksOf
      <4>5. QED BY <1>1, <2>3, <2>6, <4>4, BooksWhenOne
    <3>8. CASE \E j \in Unclassified(t) : CompletedOf(t) = {j}
      <4>1. PICK j \in Unclassified(t) : CompletedOf(t) = {j}
        BY <3>8
      <4>2. j \in CompletedOf(t) /\ j \in Nat /\ j < n /\ runs[t].end # "ok" /\ j + 1 \notin ErrorsOf(t)
        BY <3>5, <4>1 DEF Unclassified
      <4>3. CompletedOf(t)' = {j, n}
        BY <3>2, <4>1
      <4>4. j + 1 \notin ErrorsOf(t)'
        BY <1>3, <3>2, <4>2
      <4>5. j \in Unclassified(t)'
        BY <1>1, <4>2, <4>3, <4>4 DEF Unclassified
      <4>6. \A k \in CompletedOf(t)' : j <= k
        BY <1>3, <4>2, <4>3
      <4>7. Once(t)'
        BY <3>4, <4>2, <4>3, <4>5, <4>6 DEF Once
      <4>8. Owed(t)' => Paid(t)'
        <5>1. CASE runs[t].end = "panicked"
          BY <3>4, <3>6, <4>3, <5>1 DEF Paid
        <5>2. CASE runs[t].end # "panicked"
          <6>1. Owed(t)' => Owed(t)
            BY <1>1, <1>4 DEF Owed
          <6>2. Owed(t) => Paid(t)
            BY <1>1, <1>2, <5>2 DEF BooksOf
          <6>3. Paid(t) => Paid(t)'
            BY <1>1, <3>2, <3>5 DEF Paid
          <6>4. QED BY <6>1, <6>2, <6>3
        <5>3. QED BY <5>1, <5>2
      <4>9. BooksOf(t)'
        BY <1>1, <1>2, <3>1, <3>3, <4>7, <4>8 DEF BooksOf
      <4>10. QED BY <1>1, <2>3, <2>6, <4>9, BooksWhenOne
    <3>9. QED BY <1>2, <3>7, <3>8 DEF Unwinding
  <2>7. QED BY <2>2, <2>4, <2>5, <2>6
<1>8. QED BY <1>6, <1>7

\* RecordExit and RecordExitError.
LEMMA BooksOfExit ==
    ASSUME Shape, Stack, Contexts, Books, NEW t, t = top,
           NEW code, NEW failed, NEW cfg, ExitsWith(code, failed, cfg)
    PROVE  Books'
<1>1. /\ at = "inner" /\ UNCHANGED <<config, top, ctx>> /\ code \in Nat /\ failed \in BOOLEAN
      /\ t \in DOMAIN runs /\ Live(t)
  BY DEF ExitsWith, Shape, given, Live
<1>2. IsSeq(log) /\ BooksOf(t) /\ OwnContext(t) /\ runs[t].end = "running" /\ Latency(t)
  BY <1>1 DEF Books, BooksOf, Contexts, Stack
<1> DEFINE n == Len(log) + 1
<1>3. n \in Nat /\ CompletedOf(t) = {}
  BY <1>2, LogFacts DEF BooksOf
<1>4. PICK o \in Outcomes(t, cfg, failed, code) :
         /\ log' = log \o Accepted(o.records)
         /\ \/ /\ o.panic = None /\ at' = "exited" /\ closed' = TRUE
               /\ Closes(t, "exited") /\ Observes(t, code)
            \/ o.panic # None /\ PanicIn(t, o.panic) /\ UNCHANGED closed
  <2>1. PICK by \in ExitOptions \cup {None} : ExitWith(code, failed, cfg, by)
    BY DEF ExitsWith
  <2>2. QED BY <1>1, <2>1, ExitFacts
<1>5. \/ ctx[runs[t].cmd] = NoContext /\ o.panic = "nilContext" /\ log' = log
      \/ /\ ctx[runs[t].cmd] # NoContext
         /\ \/ o.panic = None
            \/ o.panic = "classifier" /\ failed /\ Called(cfg) # {}
         /\ \/ closed /\ log' = log
            \/ ~closed /\ ~failed /\ o.panic = None /\ AddsOutcome(t, code)
            \/ ~closed /\ failed /\ o.panic = None /\ AddsFailure(t, code)
            \/ ~closed /\ o.panic = "classifier" /\ AddsOutcome(t, code)
  <2>1. log' = log \o Accepted(o.records)
    BY <1>4
  <2>2. QED BY <1>1, <1>2, <2>1, OutcomeFacts
<1>6. "nilContext" # None /\ "classifier" # None
  BY HooksAssumption DEF Panics
<1>7. CASE log' = log /\ o.panic # None
  <2>1. PanicIn(t, o.panic) /\ UNCHANGED closed
    BY <1>4, <1>7
  <2>2. QED BY <1>1, <1>2, <1>7, <2>1, BooksOfPanic
<1>8. CASE log' = log /\ o.panic = None
  <2>1. closed /\ closed' /\ at' = "exited" /\ Closes(t, "exited") /\ Observes(t, code)
    BY <1>4, <1>5, <1>6, <1>8, AddsGrow, <1>2
  <2>2. CompletedOf(t)' = {}
    BY <1>3, <1>8 DEF CompletedOf
  <2>3. Once(t)' /\ Latency(t)'
    BY <2>2 DEF Once, Latency
  <2>4. ~Owed(t)' /\ ~Fatal(t)' /\ runs'[t].end = "exited"
    BY <2>1 DEF Owed, Fatal, Closes, Observes
  <2>5. BooksOf(t)'
    BY <2>1, <2>3, <2>4 DEF BooksOf
  <2>6. DOMAIN runs' = DOMAIN runs /\ \A k \in DOMAIN runs : k # t => runs'[k] = runs[k]
    BY <2>1 DEF Closes
  <2>7. Quietly /\ SameRuns
    BY <1>2, <1>8, <2>1, QuietWhenSame, ClosesSame
  <2>8. QED BY <1>1, <2>1, <2>5, <2>6, <2>7, BooksWhenOne
<1>9. CASE ~closed /\ (AddsOutcome(t, code) \/ AddsFailure(t, code))
  <2>1. /\ CompletedOf(t)' = CompletedOf(t) \cup {n} /\ Grows /\ Counts(t, code)
        /\ (AddsOutcome(t, code) => ErrorsOf(t)' = ErrorsOf(t))
    BY <1>2, <1>9, OwnRecords
  <2>2. CompletedOf(t)' = {n}
    BY <1>3, <2>1
  <2>3. log'[n].code = code
    BY <2>1 DEF Counts
  <2>4. CASE o.panic = None
    <3>1. closed' /\ at' = "exited" /\ Closes(t, "exited") /\ Observes(t, code)
      BY <1>4, <2>4
    <3>2. /\ runs'[t].end = "exited" /\ runs'[t].code = code /\ runs'[t].cmd = runs[t].cmd
          /\ runs'[t].execute = runs[t].execute
      BY <3>1 DEF Closes, Observes
    <3>3. Once(t)' /\ Paid(t)'
      <4> HIDE DEF n
      <4>1. QED BY <1>3, <2>2, <2>3, <3>2, OnlyRecord
    <3>4. Latency(t)'
      <4>1. /\ OwnContext(t) /\ Live(t) /\ Latency(t) /\ Grows /\ Counts(t, code)
            /\ CompletedOf(t)' = CompletedOf(t) \cup {Len(log) + 1}
            /\ runs'[t].execute = runs[t].execute /\ runs'[t].cmd = runs[t].cmd
        BY <1>1, <1>2, <2>1, <3>2
      <4>2. QED BY <1>1, <3>1, <4>1, ClosesSame, LatencyOfTop
    <3>5. ~Fatal(t)'
      BY <3>2 DEF Fatal
    <3>6. BooksOf(t)'
      BY <3>1, <3>2, <3>3, <3>4, <3>5 DEF BooksOf
    <3>7. DOMAIN runs' = DOMAIN runs /\ \A k \in DOMAIN runs : k # t => runs'[k] = runs[k]
      BY <3>1 DEF Closes
    <3>8. QED BY <1>1, <1>9, <3>1, <3>6, <3>7, ClosesSame, BooksWhenOne
  <2>5. CASE o.panic = "classifier"
    <3>1. PanicIn(t, o.panic) /\ UNCHANGED closed /\ AddsOutcome(t, code)
      <4>1. log' # log
        BY <1>2, <1>9, AddsGrow
      <4>2. QED BY <1>4, <1>5, <1>6, <1>9, <2>5, <4>1
    <3>2. /\ Closes(t, "panicked") /\ Observes(t, panicExitCode)
          /\ at' = (IF Wrapped(runs[t].fn) THEN "unwind" ELSE "raise")
      BY <1>1, <3>1, PanicInFacts
    <3>3. /\ runs'[t].end = "panicked" /\ runs'[t].code = panicExitCode /\ runs'[t].cmd = runs[t].cmd
          /\ runs'[t].execute = runs[t].execute /\ runs'[t].fn = runs[t].fn
      BY <3>2 DEF Closes, Observes
    <3>4. CurrentEnd(t)'
      BY <1>1, <3>1, <3>2, <3>3 DEF CurrentEnd, Observes
    <3>5. n + 1 \notin ErrorsOf(t)'
      BY <1>2, <2>1, <3>1, LogFacts DEF ErrorsOf
    <3>6. n \in Unclassified(t)'
      BY <2>2, <3>3, <3>5 DEF Unclassified
    <3>7. Once(t)'
      <4> HIDE DEF n
      <4>1. QED BY <1>3, <2>2, <3>6, OnlyRecord
    <3>8. Latency(t)'
      <4>1. /\ OwnContext(t) /\ Live(t) /\ Latency(t) /\ Grows /\ Counts(t, code)
            /\ CompletedOf(t)' = CompletedOf(t) \cup {Len(log) + 1}
            /\ runs'[t].execute = runs[t].execute /\ runs'[t].cmd = runs[t].cmd
        BY <1>1, <1>2, <2>1, <3>3
      <4>2. QED BY <1>1, <3>2, <4>1, ClosesSame, LatencyOfTop
    <3>9. Unwinding(t)'
      BY <2>2, <3>3, <3>4, <3>6 DEF Unwinding
    <3>10. Owed(t)' \/ Fatal(t)' => at' = "unwind"
      BY <1>1, <3>2, <3>3 DEF Owed, Fatal, Wrapped
    <3>11. BooksOf(t)'
      BY <1>1, <3>2, <3>3, <3>7, <3>8, <3>9, <3>10 DEF BooksOf
    <3>12. DOMAIN runs' = DOMAIN runs /\ \A k \in DOMAIN runs : k # t => runs'[k] = runs[k]
      BY <3>2 DEF Closes
    <3>13. QED BY <1>1, <1>9, <3>1, <3>2, <3>11, <3>12, ClosesSame, BooksWhenOne
  <2>6. QED BY <1>5, <1>9, <2>4, <2>5, <1>2, AddsGrow
<1>10. QED BY <1>5, <1>7, <1>8, <1>9

\* The vendor's pre-run fails: its command never ran.
LEMMA BooksOfSkip ==
    ASSUME Shape, Stack, Books, at = "hook", at' \in {"return", "raise"}, NEW t \in DOMAIN runs,
           t = top, top' = t, Closes(t, "skipped"), UNCHANGED <<log, config, closed, ctx>>
    PROVE  Books'
<1>1. IsSeq(log) /\ BooksOf(t) /\ runs[t].end = "running"
  BY DEF Books, Stack
<1>2. CompletedOf(t)' = {}
  <2>1. CompletedOf(t) = {}
    BY <1>1 DEF BooksOf
  <2>2. QED BY <2>1 DEF CompletedOf
<1>3. runs'[t].end = "skipped" /\ DOMAIN runs' = DOMAIN runs
      /\ \A k \in DOMAIN runs : k # t => runs'[k] = runs[k]
  BY DEF Closes
<1>4. Once(t)' /\ Latency(t)'
  BY <1>2 DEF Once, Latency
<1>5. ~Owed(t)' /\ ~Fatal(t)'
  BY <1>3 DEF Owed, Fatal
<1>6. BooksOf(t)'
  BY <1>3, <1>4, <1>5 DEF BooksOf
<1>7. Quietly /\ SameRuns
  BY <1>1, QuietWhenSame, ClosesSame
<1>8. QED BY <1>3, <1>6, <1>7, BooksWhenOne

\* A step that records nothing and moves between runs only.
LEMMA BooksOfMove ==
    ASSUME Shape, Books, [Next]_vars, UNCHANGED <<log, config, closed>>,
           \A i \in DOMAIN runs : i \in DOMAIN runs' /\ runs'[i] = runs[i],
           at \notin {"record", "unwind"}, at' \notin {"record", "unwind"}
    PROVE  Books'
<1>1. IsSeq(log)
  BY DEF Books
<1>2. QED BY <1>1, QuietWhenSame, BooksWhenQuiet

LEMMA BooksStep == ASSUME Shape, Stack, Contexts, Books, [Next]_vars PROVE Books'
<1>1. IsSeq(log)
  BY DEF Books
<1>2. ASSUME NEW c \in Commands, Execute(c) PROVE Books'
  <2>1. at = "idle" /\ at' = "hook" /\ Enters(c, c, executes')
    BY <1>2, ExecuteFacts
  <2>2. \A i \in DOMAIN runs : i \in DOMAIN runs' /\ runs'[i] = runs[i]
    BY <2>1 DEF Enters
  <2>3. Quietly /\ UNCHANGED closed /\ UNCHANGED config
    BY <1>1, <1>2, QuietSteps
  <2>4. QED BY <2>1, <2>2, <2>3, BooksWhenQuiet
<1>3. ASSUME NEW c \in Commands, NEW typed, NEW asked,
             Help(c, typed, asked) \/ ShowHelp(c) \/ RecordExecuteError(c, typed)
      PROVE  Books'
  <2>1. at \in {"idle", "inner"} /\ at' = at /\ UNCHANGED runs
    BY <1>3 DEF Help, ShowHelp, RecordExecuteError, Again
  <2>2. Quietly /\ UNCHANGED closed /\ UNCHANGED config
    BY <1>1, <1>3, QuietSteps
  <2>3. QED BY <2>1, <2>2, BooksWhenQuiet
<1>4. ASSUME NEW d \in Commands, NEW cmd \in Commands, Call(d, cmd) PROVE Books'
  <2>1. /\ at = "inner" /\ top # 0 /\ UNCHANGED <<log, config, closed, ctx>>
        /\ \/ at' = "inner" /\ Enters(d, cmd, 0)
           \/ top' = top /\ PanicIn(top, "nilRun")
    BY <1>4, CallFacts DEF given, client
  <2>2. CASE at' = "inner" /\ Enters(d, cmd, 0)
    BY <2>1, <2>2, BooksOfMove DEF Enters
  <2>3. CASE top' = top /\ PanicIn(top, "nilRun")
    <3>1. PICK t : t = top
      OBVIOUS
    <3>2. t \in DOMAIN runs /\ runs[t].end = "running"
      BY <2>1, <3>1, TopIsRun DEF Stack
    <3>3. QED BY <2>1, <2>3, <3>1, <3>2, BooksOfPanic
  <2>4. QED BY <2>1, <2>2, <2>3
<1>5. ASSUME NEW code, NEW failed, NEW cfg, ExitsWith(code, failed, cfg) PROVE Books'
  <2>1. PICK t : t = top
    OBVIOUS
  <2>2. QED BY <1>5, <2>1, BooksOfExit
<1>6. ASSUME Hook PROVE Books'
  <2>1. /\ at = "hook" /\ top # 0 /\ UNCHANGED <<top, log, config, closed, ctx>>
        /\ \/ at' = "inner" /\ UNCHANGED runs
           \/ at' \in {"return", "raise"} /\ Closes(top, "skipped")
    BY <1>6, HookFacts DEF given, client
  <2>2. CASE at' = "inner" /\ UNCHANGED runs
    BY <2>1, <2>2, BooksOfMove
  <2>3. CASE at' \in {"return", "raise"} /\ Closes(top, "skipped")
    <3>1. PICK t : t = top
      OBVIOUS
    <3>2. QED BY <2>1, <2>3, <3>1, TopIsRun, BooksOfSkip
  <2>4. QED BY <2>1, <2>2, <2>3
<1>7. ASSUME NEW t, t = top, Finish PROVE Books'
  <2>1. /\ at = "inner" /\ top # 0 /\ UNCHANGED <<top, log, config, closed, ctx>>
        /\ at' = (IF Wrapped(runs[t].fn) THEN "record" ELSE "return")
        /\ \/ value' = "ok" /\ Closes(t, "ok") /\ Observes(t, 0)
           \/ value' = "err" /\ Closes(t, "failed") /\ Observes(t, 1)
    BY <1>7, FinishFacts DEF given, client
  <2>2. t \in DOMAIN runs /\ runs[t].end = "running" /\ BooksOf(t) /\ top' = t
    BY <1>7, <2>1, TopIsRun DEF Stack, Books
  <2>3. BooksOf(t)'
    <3>1. CASE Wrapped(runs[t].fn)
      BY <1>1, <2>1, <2>2, <3>1, BooksOfEnd
    <3>2. CASE ~Wrapped(runs[t].fn)
      BY <1>1, <2>1, <2>2, <3>2, BooksOfEnd
    <3>3. QED BY <3>1, <3>2
  <2>4. DOMAIN runs' = DOMAIN runs /\ \A k \in DOMAIN runs : k # t => runs'[k] = runs[k]
    BY <2>1 DEF Closes
  <2>5. Quietly /\ SameRuns
    BY <1>1, <2>1, QuietWhenSame, ClosesSame
  <2>6. QED BY <1>7, <2>1, <2>2, <2>3, <2>4, <2>5, BooksWhenOne
<1>8. ASSUME NEW t, t = top, Panic PROVE Books'
  <2>1. /\ at = "inner" /\ top # 0 /\ PanicIn(t, "host") /\ UNCHANGED <<top, log, config, closed, ctx>>
    BY <1>8 DEF Panic, Shape, given, client
  <2>2. t \in DOMAIN runs /\ runs[t].end = "running" /\ top' = t
    BY <1>8, <2>1, TopIsRun DEF Stack
  <2>3. QED BY <1>8, <2>1, <2>2, BooksOfPanic
<1>9. ASSUME Leave PROVE Books'
  <2>1. at = "return" /\ at' \in {"idle", "inner"} /\ UNCHANGED <<runs, log, config, closed>>
    BY <1>9 DEF Leave, given, client
  <2>2. QED BY <2>1, BooksOfMove
<1>10. ASSUME Raise PROVE Books'
  <2>1. at = "raise" /\ top # 0 /\ top' = runs[top].caller /\ UNCHANGED <<log, config, closed, ctx>>
    BY <1>10 DEF Raise, Shape, given, client
  <2>2. CASE at' \in {"idle", "inner", "crashed"} /\ UNCHANGED runs
    BY <2>1, <2>2, BooksOfMove
  <2>3. CASE top' # 0 /\ PanicIn(top', value)
    <3>1. PICK t : t = top'
      OBVIOUS
    <3>2. t \in DOMAIN runs /\ runs[t].end = "running"
      <4>1. top \in DOMAIN runs /\ Live(top) /\ runs[top].caller \in Nat /\ runs[top].caller < top
        BY <2>1, TopIsRun, RunsFacts DEF Live
      <4>2. runs[t].end = "running" /\ t > 0 /\ t = runs[top].caller
        BY <2>1, <2>3, <3>1, <4>1 DEF Stack
      <4>3. QED BY <4>1, <4>2, RunsFacts
    <3>3. PanicIn(t, value)
      BY <2>3, <3>1
    <3>4. QED BY <2>1, <3>1, <3>2, <3>3, BooksOfPanic
  <2>4. QED BY <1>10, <2>2, <2>3 DEF Raise
<1>11. ASSUME Record PROVE Books'
  <2>1. PICK t : t = top
    OBVIOUS
  <2>2. QED BY <1>11, <2>1, BooksOfRecord
<1>12. ASSUME recordPanic PROVE Books'
  <2>1. PICK t : t = top
    OBVIOUS
  <2>2. QED BY <1>12, <2>1, BooksOfRecordPanic
<1>13. ASSUME UNCHANGED vars PROVE Books'
  <2>1. UNCHANGED <<runs, top, at, value, config, closed, ctx, log>>
    BY <1>13 DEF vars, given, host, client
  <2>2. ASSUME NEW i PROVE BooksOf(i) => BooksOf(i)'
    <3>1. CompletedOf(i)' = CompletedOf(i) /\ ErrorsOf(i)' = ErrorsOf(i)
      BY <2>1 DEF CompletedOf, ErrorsOf
    <3>2. Unclassified(i)' = Unclassified(i)
      BY <2>1, <3>1 DEF Unclassified
    <3>3. (Once(i) => Once(i)') /\ (Latency(i) => Latency(i)') /\ (Paid(i) => Paid(i)')
      BY <2>1, <3>1, <3>2 DEF Once, Latency, Inherited, Paid
    <3>4. (Owed(i)' => Owed(i)) /\ (Fatal(i)' => Fatal(i))
      BY <2>1 DEF Owed, Fatal, Wrapped
    <3>5. (Recording(i) => Recording(i)') /\ (Unwinding(i) => Unwinding(i)')
      BY <2>1, <3>1, <3>2 DEF Recording, Unwinding, CurrentEnd
    <3>6. QED BY <2>1, <3>1, <3>3, <3>4, <3>5 DEF BooksOf
  <2>3. IsSeq(log)'
    BY <1>1, <2>1 DEF IsSeq
  <2>4. QED BY <2>1, <2>2, <2>3 DEF Books
<1>14. QED
  <2>1. Finish => Books'
    <3>1. PICK t : t = top
      OBVIOUS
    <3>2. QED BY <1>7, <3>1
  <2>2. Panic => Books'
    <3>1. PICK t : t = top
      OBVIOUS
    <3>2. QED BY <1>8, <3>1
  <2>3. QED
    BY Steps, <1>2, <1>3, <1>4, <1>5, <1>6, <1>9, <1>10, <1>11, <1>12, <1>13, <2>1, <2>2

-----------------------------------------------------------------------------
(* The theorems.                                                           *)

\* The goroutine is always in a stack of run functions, each of which is
\* still to return to the one below it.
THEOREM StackCorrect == Spec => [](Shape /\ Stack)
<1>1. Init => Shape /\ Stack
  BY ShapeInit
<1>2. Shape /\ Stack /\ [Next]_vars => (Shape /\ Stack)'
  BY ShapeStep, StackStep
<1>3. QED BY <1>1, <1>2, PTL DEF Spec

\* The Context of a command that an Execute is running holds the start of
\* that Execute; when another pre-run stands before the root's, none, or that
\* of an earlier Execute, which cobra has handed down from the root.
THEOREM ContextsCorrect == Spec => []Contexts
<1>1. Init => Contexts
  BY ContextsInit
<1>2. Shape /\ Stack /\ Contexts /\ [Next]_vars => Contexts'
  BY ContextsStep
<1>3. QED BY <1>1, <1>2, StackCorrect, PTL DEF Spec

\* At every place of the goroutine, what each run has in the log is what its
\* recording has got to.
THEOREM BooksCorrect == Spec => []Books
<1>1. Init => Books
  BY BooksInit
<1>2. Shape /\ Stack /\ Contexts /\ Books /\ [Next]_vars => Books'
  BY BooksStep
<1>3. QED BY <1>1, <1>2, StackCorrect, ContextsCorrect, PTL DEF Spec

\* RecordedOnce: however runs call each other, panic, recover and end the
\* process, a run has one outcome, or a second one after a classifier's panic.
THEOREM OutcomesRecordedOnce == Spec => []RecordedOnce
<1>1. Books => RecordedOnce
  BY DEF Books, BooksOf, Once, RecordedOnce
<1>2. QED BY <1>1, BooksCorrect, PTL

\* NothingMissed: a wrapped run that ends while the client is open has its
\* outcome in the log before anything else happens.
THEOREM OutcomesNeverMissed == Spec => []NothingMissed
<1>1. Books => NothingMissed
  <2>1. SUFFICES ASSUME Books, NEW i \in DOMAIN runs, Done(i), Owed(i) PROVE Paid(i)
    BY DEF NothingMissed, Owed, Paid
  <2>2. QED BY <2>1 DEF Books, BooksOf, Done
<1>2. QED BY <1>1, BooksCorrect, PTL

\* CrashLosesNothing: a recorded panic that nobody recovers has shut the
\* client down, whatever run it began in.
THEOREM CrashesFlush == Spec => []CrashLosesNothing
<1>1. Shape /\ Books => CrashLosesNothing
  <2>1. SUFFICES ASSUME Shape, Books, at = "crashed", NEW i \in DOMAIN runs, Fatal(i) PROVE closed
    BY DEF CrashLosesNothing, Fatal
  <2>2. QED BY <2>1 DEF Books, BooksOf
<1>2. QED BY <1>1, StackCorrect, BooksCorrect, PTL

\* LatencyIsOwn: the latency of a command that an Execute runs is measured
\* from that Execute, also when the command is run again, or by another one;
\* that of a command without the root's pre-run from an earlier Execute that
\* had it, if from any.
THEOREM LatenciesOwn == Spec => []LatencyIsOwn
<1>1. Books => LatencyIsOwn
  BY DEF Books, BooksOf, Latency, Inherited, LatencyIsOwn
<1>2. QED BY <1>1, BooksCorrect, PTL

-----------------------------------------------------------------------------
(* Instrumentation implements the host.                                    *)

\* What HostCLI sees of the state.
hostRuns ==
    [i \in DOMAIN runs |-> [fn |-> runs[i].fn, cmd |-> runs[i].cmd, caller |-> runs[i].caller]]
hostAt == CASE at = "record" -> "return" [] at = "unwind" -> "raise" [] OTHER -> at
hostMet == {c \in Commands : ctx[c] # NoContext}
hostPlain == {c \in Commands : Kind[c] = "run"}
hostClassified == Called(config) # {} \/ \E opts \in ExitOptions : Called(ApplyAll(config, opts)) # {}

LEMMA HostSees ==
    /\ at \notin {"record", "unwind"} => hostAt = at
    /\ at = "record" => hostAt = "return"
    /\ at = "unwind" => hostAt = "raise"
BY DEF hostAt

LEMMA HostSeesNext ==
    /\ at' \notin {"record", "unwind"} => hostAt' = at'
    /\ at' = "record" => hostAt' = "return"
    /\ at' = "unwind" => hostAt' = "raise"
BY DEF hostAt

LEMMA HostRuns ==
    ASSUME Shape, NEW t, t = top, t # 0
    PROVE  /\ hostRuns[t].fn = runs[t].fn /\ hostRuns[t].cmd = runs[t].cmd
           /\ hostRuns[t].caller = runs[t].caller
           /\ runs[t].fn \in Runnable /\ runs[t].cmd \in Commands
BY TopIsRun DEF hostRuns, CallRecords

LEMMA HostClosing ==
    ASSUME Shape, NEW i, NEW how, Closes(i, how)
    PROVE  hostRuns' = hostRuns
<1>1. DOMAIN runs' = DOMAIN runs
  BY DEF Closes
<1>2. ASSUME NEW k \in DOMAIN runs
      PROVE  runs'[k].fn = runs[k].fn /\ runs'[k].cmd = runs[k].cmd /\ runs'[k].caller = runs[k].caller
  BY <1>2 DEF Closes
<1>3. QED BY <1>1, <1>2 DEF hostRuns

LEMMA HostEntering ==
    ASSUME Shape, NEW fn, NEW cmd, NEW execute, Enters(fn, cmd, execute)
    PROVE  /\ hostRuns' = Append(hostRuns, [fn |-> fn, cmd |-> cmd, caller |-> top])
           /\ top' = Len(hostRuns) + 1
<1> DEFINE rec == [fn |-> fn, cmd |-> cmd, caller |-> top]
           S == {hostRuns[i] : i \in DOMAIN runs} \cup {rec}
<1>1. DOMAIN runs = 1..Len(runs) /\ Len(runs) \in Nat
  BY RunsFacts
<1>2. hostRuns \in Seq(S) /\ Len(hostRuns) = Len(runs) /\ DOMAIN hostRuns = 1..Len(runs)
  <2>1. hostRuns \in [1..Len(runs) -> S] /\ DOMAIN hostRuns = 1..Len(runs)
    BY <1>1 DEF hostRuns
  <2> HIDE DEF S
  <2>2. hostRuns \in Seq(S)
    BY <1>1, <2>1, SeqDef
  <2>3. QED BY <1>1, <2>1, <2>2
<1>3. rec \in S
  OBVIOUS
<1>4. /\ DOMAIN runs' = 1..(Len(runs) + 1) /\ top' = Len(runs) + 1
      /\ \A k \in DOMAIN runs : runs'[k] = runs[k]
      /\ runs'[Len(runs) + 1].fn = fn /\ runs'[Len(runs) + 1].cmd = cmd
      /\ runs'[Len(runs) + 1].caller = top
  <2>1. top' = Len(runs) + 1 /\ DOMAIN runs' = DOMAIN runs \cup {Len(runs) + 1}
    BY DEF Enters
  <2>2. DOMAIN runs' = 1..(Len(runs) + 1)
    BY <1>1, <2>1
  <2>3. QED BY <2>1, <2>2 DEF Enters
<1> HIDE DEF S
<1>5. /\ Append(hostRuns, rec) \in Seq(S) /\ Len(Append(hostRuns, rec)) = Len(runs) + 1
      /\ \A k \in 1..Len(runs) : Append(hostRuns, rec)[k] = hostRuns[k]
      /\ Append(hostRuns, rec)[Len(runs) + 1] = rec
  BY <1>2, <1>3, AppendProperties
<1> DEFINE appended == Append(hostRuns, rec)
<1>6. appended = [k \in 1..(Len(runs) + 1) |-> appended[k]]
  BY <1>1, <1>5
<1>7. ASSUME NEW k \in 1..(Len(runs) + 1)
      PROVE  appended[k] = [fn |-> runs'[k].fn, cmd |-> runs'[k].cmd, caller |-> runs'[k].caller]
  <2>1. CASE k \in 1..Len(runs)
    BY <1>1, <1>4, <1>5, <2>1 DEF hostRuns
  <2>2. CASE k = Len(runs) + 1
    BY <1>4, <1>5, <2>2
  <2>3. k \in 1..Len(runs) \/ k = Len(runs) + 1
    BY <1>1
  <2>4. QED BY <2>1, <2>2, <2>3
<1> HIDE DEF appended
<1>8. hostRuns' = appended
  BY <1>4, <1>6, <1>7 DEF hostRuns
<1>9. QED BY <1>2, <1>4, <1>8 DEF appended

\* A panic of the function, or of what records its exit.
LEMMA HostPanics ==
    ASSUME Shape, NEW i \in DOMAIN runs, NEW v, PanicIn(i, v)
    PROVE  hostRuns' = hostRuns /\ hostAt' = "raise" /\ value' = v
<1>1. Closes(i, "panicked") /\ at' \in {"unwind", "raise"}
  BY PanicInFacts
<1>2. hostRuns' = hostRuns
  BY <1>1, HostClosing
<1>3. hostAt' = "raise"
  BY <1>1, HostSeesNext
<1>4. QED BY <1>2, <1>3 DEF PanicIn

\* What the outcome of a recording that panics says of the state.
LEMMA PanicsOfRecording ==
    ASSUME NEW i, NEW cfg, NEW failed, NEW code, NEW o \in Outcomes(i, cfg, failed, code),
           o.panic # None
    PROVE  \/ o.panic = "nilContext" /\ ctx[runs[i].cmd] = NoContext
           \/ o.panic = "classifier" /\ Called(cfg) # {}
<1> DEFINE one == Completed(i, code)
           two == Raised(i, cfg)
<1>1. \/ ctx[runs[i].cmd] = NoContext /\ o = [records |-> <<>>, panic |-> "nilContext"]
      \/ o = [records |-> <<one>>, panic |-> None]
      \/ o = [records |-> <<one, two>>, panic |-> None]
      \/ Called(cfg) # {} /\ o = [records |-> <<one>>, panic |-> "classifier"]
  BY DEF Outcomes
<1> HIDE DEF one, two
<1>2. QED BY <1>1

LEMMA HostInit == ASSUME Init PROVE Host!Init
<1>1. runs = <<>> /\ top = 0 /\ at = "idle" /\ value = None /\ ctx = [c \in Commands |-> NoContext]
  BY DEF Init
<1>2. hostRuns = <<>> /\ hostAt = "idle" /\ hostMet = {}
  <2>1. hostRuns = <<>>
    BY <1>1 DEF hostRuns
  <2>2. hostAt = "idle"
    BY <1>1 DEF hostAt
  <2>3. QED BY <1>1, <2>1, <2>2 DEF hostMet
<1>3. hostClassified \in BOOLEAN
  BY DEF hostClassified
<1>4. QED BY <1>1, <1>2, <1>3 DEF Host!Init, hostRuns, hostAt, hostMet, hostClassified

\* What stays, stays for the host.
LEMMA HostKeeps ==
    ASSUME [Next]_vars
    PROVE  /\ hostClassified' = hostClassified
           /\ UNCHANGED ctx => hostMet' = hostMet
           /\ UNCHANGED runs => hostRuns' = hostRuns
<1>1. UNCHANGED config
  <2>1. Stopped => UNCHANGED config
    BY DEF Stopped, vars, given
  <2>2. Instrumentation => UNCHANGED config
    BY DEF Instrumentation, Record, recordPanic, given
  <2>3. UNCHANGED vars => UNCHANGED config
    BY DEF vars, given
  <2>4. QED
    BY <2>1, <2>2, <2>3 DEF Next, Execute, Help, ShowHelp, RecordExecuteError, Call, RecordExit,
       RecordExitError, Hook, Finish, Panic, Leave, Raise, given
<1>2. hostClassified' = hostClassified
  BY <1>1 DEF hostClassified
<1>3. QED BY <1>2 DEF hostMet, hostRuns

LEMMA HostResolves ==
    ASSUME Shape, NEW c \in Commands,
           \/ ctx' = Resolved(c)
           \/ ctx' = [Resolved(c) EXCEPT ![c] = executes'] /\ executes' # NoContext
    PROVE  hostMet' = hostMet \cup {Root, c}
<1>1. Root \in Commands /\ NoStart # NoContext
  BY TreeAssumption DEF NoStart, NoContext
<1>2. /\ Resolved(c) \in [Commands -> NoContext..MaxExecutes]
      /\ \A d \in Commands :
            Resolved(c)[d] # NoContext <=> ctx[d] # NoContext \/ d \in {Root, c}
  BY ResolvedContext
<1>3. ASSUME NEW d \in Commands
      PROVE  ctx'[d] # NoContext <=> ctx[d] # NoContext \/ d \in {Root, c}
  <2>1. CASE ctx' = Resolved(c)
    BY <1>1, <1>2, <2>1
  <2>2. CASE ctx' = [Resolved(c) EXCEPT ![c] = executes'] /\ executes' # NoContext
    BY <1>1, <1>2, <2>2
  <2>3. QED BY <2>1, <2>2
<1>4. QED BY <1>1, <1>3 DEF hostMet

\* A disturbance, in the terms of the instrumentation.
LEMMA HostDisturbed ==
    ASSUME Shape, [Next]_vars, hostRuns' = hostRuns, hostMet' = hostMet, top' = top, NEW t, t = top, t # 0,
           hostAt' = "raise",
           \/ at \in {"record", "inner"} /\ value' = "nilContext" /\ ctx[runs[t].cmd] = NoContext
           \/ at = "inner" /\ value' = "nilRun" /\ hostPlain # {}
           \/ at \in {"record", "inner"} /\ value' = "classifier" /\ hostClassified
    PROVE  Host!Next
<1>1. hostRuns[t].cmd = runs[t].cmd /\ hostClassified' = hostClassified
  BY HostRuns, HostKeeps
<1>2. at \in {"record", "inner"} => hostAt \in {"return", "inner"}
  BY HostSees
<1>3. at = "inner" => hostAt = "inner"
  BY HostSees
<1>4. ctx[runs[t].cmd] = NoContext => hostRuns[t].cmd \notin hostMet
  BY <1>1 DEF hostMet
<1>5. Host!Disturb
  BY <1>1, <1>2, <1>3, <1>4 DEF Host!Disturb, hostRuns, hostAt, hostMet, hostPlain, hostClassified
<1>6. QED BY <1>1, <1>5 DEF Host!Next, hostClassified

LEMMA HostStep == ASSUME Shape, Stack, [Next]_vars, NEW t, t = top PROVE [Host!Next]_(Host!vars)
<1> USE HostKeeps
<1>1. ASSUME NEW c \in Commands, Execute(c) PROVE Host!Next
  <2>1. /\ at = "idle" /\ at' = "hook" /\ top = 0 /\ c \in Runnable /\ executes' = executes + 1
        /\ Enters(c, c, executes') /\ PreRun(c) /\ value' = None
    BY <1>1, ExecuteFacts DEF Execute
  <2>2. executes' # NoContext
    BY <2>1 DEF NoContext, Shape
  <2>3. hostMet' = hostMet \cup {Root, c}
    BY <2>1, <2>2, HostResolves DEF PreRun
  <2>4. hostAt = "idle" /\ hostAt' = "hook"
    BY <2>1, HostSees, HostSeesNext
  <2>5. /\ hostRuns' = Append(hostRuns, [fn |-> c, cmd |-> c, caller |-> top])
        /\ top' = Len(hostRuns) + 1
    BY <2>1, HostEntering
  <2>6. Host!Execute(c)
    BY <2>1, <2>3, <2>4, <2>5 DEF Host!Execute, Host!Enter, hostRuns, hostAt, hostMet
  <2>7. QED BY <2>6 DEF Host!Next, hostClassified
<1>2. ASSUME NEW c \in Commands, NEW typed, NEW asked,
             Help(c, typed, asked) \/ RecordExecuteError(c, typed)
      PROVE  Host!Next
  <2>1. /\ at = "idle" /\ at' = "idle" /\ UNCHANGED <<runs, top, value>> /\ ctx' = Resolved(c)
    BY <1>2 DEF Help, RecordExecuteError, Again
  <2>2. hostMet' = hostMet \cup {Root, c} /\ hostRuns' = hostRuns
    BY <2>1, HostResolves
  <2>3. hostAt = "idle" /\ hostAt' = "idle"
    BY <2>1, HostSees, HostSeesNext
  <2>4. Host!Refuse(c)
    BY <2>1, <2>2, <2>3 DEF Host!Refuse, hostRuns, hostAt, hostMet
  <2>5. QED BY <2>4 DEF Host!Next, hostClassified
<1>3. ASSUME NEW d \in Commands, NEW cmd \in Commands, Call(d, cmd) PROVE Host!Next
  <2>1. /\ at = "inner" /\ top # 0 /\ cmd \in {d, runs[top].cmd} /\ hostMet' = hostMet
        /\ \/ at' = "inner" /\ value' = value /\ Enters(d, cmd, 0) /\ d \in Runnable
           \/ top' = top /\ PanicIn(top, "nilRun") /\ Kind[d] = "run"
    <3>1. at = "inner" /\ top # 0 /\ cmd \in {d, runs[top].cmd} /\ UNCHANGED ctx
      BY <1>3 DEF Call, Shape
    <3>2. CASE Wrapped(d) /\ Kind[d] = "run"
      BY <1>3, <3>1, <3>2 DEF Call
    <3>3. CASE ~(Wrapped(d) /\ Kind[d] = "run")
      <4>1. Enter(d, cmd, 0) /\ at' = at /\ value' = value
        BY <1>3, <3>3 DEF Call
      <4>2. d \in Runnable
        BY <3>1, TopIsRun, <1>3, HooksAssumption DEF Call, CallRecords, Runnable
      <4>3. 0 \in 0..MaxExecutes
        BY HooksAssumption
      <4>4. Enters(d, cmd, 0)
        BY <4>1, <4>2, <4>3, EnterEnters
      <4>5. QED BY <3>1, <4>1, <4>2, <4>4
    <3>4. QED BY <3>2, <3>3
  <2>2. hostAt = "inner"
    BY <2>1, HostSees
  <2>3. CASE at' = "inner" /\ value' = value /\ Enters(d, cmd, 0) /\ d \in Runnable
    <3>1. hostAt' = "inner"
      BY <2>3, HostSeesNext
    <3>2. /\ hostRuns' = Append(hostRuns, [fn |-> d, cmd |-> cmd, caller |-> top])
          /\ top' = Len(hostRuns) + 1
      BY <2>3, HostEntering
    <3>3. hostRuns[top].cmd = runs[top].cmd
      BY <2>1, HostRuns
    <3>4. Host!Call(d, cmd)
      BY <2>1, <2>2, <2>3, <3>1, <3>2, <3>3 DEF Host!Call, Host!Enter, hostRuns, hostAt, hostMet
    <3>5. QED BY <3>4 DEF Host!Next, hostClassified
  <2>4. CASE top' = top /\ PanicIn(top, "nilRun") /\ Kind[d] = "run"
    <3>1. PanicIn(t, "nilRun") /\ t \in DOMAIN runs /\ t # 0
      BY <2>1, <2>4, TopIsRun
    <3>2. hostRuns' = hostRuns /\ hostAt' = "raise" /\ value' = "nilRun"
      BY <3>1, HostPanics
    <3>3. hostPlain # {}
      BY <2>4 DEF hostPlain
    <3>4. QED BY <2>1, <2>4, <3>1, <3>2, <3>3, HostDisturbed
  <2>5. QED BY <2>1, <2>3, <2>4
<1>4. ASSUME NEW code \in Nat, NEW failed \in BOOLEAN,
             NEW cfg \in {NoConfig} \cup {ApplyAll(config, opts) : opts \in ExitOptions},
             ExitsWith(code, failed, cfg)
      PROVE  Host!Next
  <2>1. at = "inner" /\ t # 0 /\ t \in DOMAIN runs /\ UNCHANGED <<top, ctx>>
    BY <1>4, TopIsRun DEF ExitsWith, Shape
  <2>2. PICK o \in Outcomes(t, cfg, failed, code) :
           \/ /\ o.panic = None /\ at' = "exited" /\ UNCHANGED value
              /\ Closes(t, "exited")
           \/ o.panic # None /\ PanicIn(t, o.panic)
    <3>1. PICK by \in ExitOptions \cup {None} : ExitWith(code, failed, cfg, by)
      BY <1>4 DEF ExitsWith
    <3>2. QED BY <2>1, <3>1, ExitFacts DEF ExitWith
  <2>3. hostMet' = hostMet /\ hostAt = "inner"
    BY <2>1, HostSees
  <2>4. CASE o.panic = None
    <3>1. hostRuns' = hostRuns /\ hostAt' = "exited"
      BY <2>2, <2>4, HostClosing, HostSeesNext
    <3>2. Host!Exit
      BY <2>1, <2>2, <2>3, <2>4, <3>1 DEF Host!Exit, hostRuns, hostAt, hostMet
    <3>3. QED BY <3>2 DEF Host!Next, hostClassified
  <2>5. CASE o.panic # None
    <3>1. hostRuns' = hostRuns /\ hostAt' = "raise" /\ value' = o.panic
      BY <2>1, <2>2, <2>5, HostPanics
    <3>2. \/ o.panic = "nilContext" /\ ctx[runs[t].cmd] = NoContext
          \/ o.panic = "classifier" /\ Called(cfg) # {}
      BY <2>5, PanicsOfRecording
    <3>3. Called(cfg) # {} => hostClassified
      BY <1>4, PanicConfigCalls DEF hostClassified
    <3>4. QED BY <2>1, <2>3, <3>1, <3>2, <3>3, HostDisturbed
  <2>6. QED BY <2>4, <2>5
<1>5. ASSUME Hook PROVE Host!Next
  <2>1. /\ at = "hook" /\ hostRuns' = hostRuns /\ hostMet' = hostMet /\ top' = top
        /\ \/ at' = "inner" /\ value' = None
           \/ at' = "return" /\ value' = "err"
           \/ at' = "raise" /\ value' = "host"
    BY <1>5, HookFacts, HostClosing DEF Hook
  <2>2. hostAt = "hook" /\ hostAt' = at'
    BY <2>1, HostSees, HostSeesNext
  <2>3. Host!Hook
    BY <2>1, <2>2 DEF Host!Hook, hostRuns, hostAt, hostMet
  <2>4. QED BY <2>3 DEF Host!Next, hostClassified
<1>6. ASSUME Finish PROVE Host!Next
  <2>1. /\ at = "inner" /\ top # 0 /\ hostRuns' = hostRuns /\ hostMet' = hostMet /\ top' = top
        /\ at' \in {"record", "return"}
    BY <1>6, FinishFacts, HostClosing
  <2>2. value' \in IF hostRuns[t].fn \in hostPlain THEN {"ok"} ELSE {"ok", "err"}
    <3>1. hostRuns[t].fn = runs[t].fn
      BY <2>1, HostRuns
    <3>2. value' = "ok" \/ (value' = "err" /\ Kind[runs[t].fn] = "runE")
      BY <1>6 DEF Finish
    <3>3. QED BY <3>1, <3>2 DEF hostPlain
  <2>3. hostAt = "inner" /\ hostAt' = "return"
    BY <2>1, HostSees, HostSeesNext
  <2>4. Host!Finish
    BY <2>1, <2>2, <2>3 DEF Host!Finish, hostRuns, hostAt, hostMet, hostPlain
  <2>5. QED BY <2>4 DEF Host!Next, hostClassified
<1>7. ASSUME Panic PROVE Host!Next
  <2>1. at = "inner" /\ t # 0 /\ PanicIn(t, "host") /\ UNCHANGED <<top, ctx>> /\ t \in DOMAIN runs
    BY <1>7, TopIsRun DEF Panic, Shape
  <2>2. hostRuns' = hostRuns /\ hostAt' = "raise" /\ value' = "host" /\ hostMet' = hostMet
    BY <2>1, HostPanics
  <2>3. hostAt = "inner"
    BY <2>1, HostSees
  <2>4. Host!Panic
    BY <2>1, <2>2, <2>3 DEF Host!Panic, hostRuns, hostAt, hostMet
  <2>5. QED BY <2>4 DEF Host!Next, hostClassified
<1>8. ASSUME Leave PROVE Host!Next
  <2>1. /\ at = "return" /\ t # 0 /\ UNCHANGED <<runs, ctx>> /\ top' = runs[t].caller
        /\ at' = (IF top' = 0 THEN "idle" ELSE "inner") /\ value' = None
    BY <1>8 DEF Leave, Shape
  <2>2. hostAt = "return" /\ hostAt' = at' /\ hostRuns[t].caller = runs[t].caller
    BY <2>1, HostSees, HostSeesNext, HostRuns
  <2>3. hostRuns' = hostRuns /\ hostMet' = hostMet
    BY <2>1
  <2>4. Host!Leave
    BY <2>1, <2>2, <2>3 DEF Host!Leave, hostRuns, hostAt, hostMet
  <2>5. QED BY <2>4 DEF Host!Next, hostClassified
<1>9. ASSUME Raise PROVE Host!Next
  <2>1. at = "raise" /\ t # 0 /\ UNCHANGED ctx /\ top' = runs[t].caller
    BY <1>9 DEF Raise, Shape
  <2>2. hostAt = "raise" /\ hostRuns[t].caller = runs[t].caller /\ hostMet' = hostMet
    BY <2>1, HostSees, HostRuns
  <2>3. /\ hostRuns' = hostRuns
        /\ \/ hostAt' = (IF top' = 0 THEN "idle" ELSE "inner") /\ value' = None
           \/ hostAt' = (IF top' = 0 THEN "crashed" ELSE "raise") /\ value' = value
    <3>1. CASE at' = (IF top' = 0 THEN "idle" ELSE "inner") /\ value' = None /\ UNCHANGED runs
      BY <3>1, HostSeesNext
    <3>2. CASE top' = 0 /\ at' = "crashed" /\ UNCHANGED <<runs, value>>
      BY <3>2, HostSeesNext
    <3>3. CASE top' # 0 /\ PanicIn(top', value)
      <4>1. PICK u : u = top'
        OBVIOUS
      <4>2. u \in DOMAIN runs
        <5>1. t \in DOMAIN runs /\ runs[t].caller \in Nat /\ runs[t].caller < t
          BY <2>1, TopIsRun, RunsFacts
        <5>2. u = runs[t].caller /\ u > 0
          BY <2>1, <3>3, <4>1, <5>1
        <5>3. QED BY <5>1, <5>2, RunsFacts
      <4>3. PanicIn(u, value)
        BY <3>3, <4>1
      <4>4. hostRuns' = hostRuns /\ hostAt' = "raise" /\ value' = value
        BY <4>2, <4>3, HostPanics DEF PanicIn
      <4>5. QED BY <3>3, <4>4
    <3>4. QED BY <1>9, <3>1, <3>2, <3>3 DEF Raise
  <2>4. Host!Raise
    BY <2>1, <2>2, <2>3 DEF Host!Raise, hostRuns, hostAt, hostMet
  <2>5. QED BY <2>4 DEF Host!Next, hostClassified
<1>10. ASSUME Record PROVE [Host!Next]_(Host!vars)
  <2>1. at = "record" /\ t # 0 /\ UNCHANGED <<runs, top, ctx>>
    BY <1>10 DEF Record, Shape
  <2>2. PICK o \in Outcomes(t, config, value = "err", IF value = "err" THEN 1 ELSE 0) :
           IF o.panic = None THEN at' = "return" /\ UNCHANGED value
                             ELSE at' = "unwind" /\ value' = o.panic
    BY <1>10 DEF Record
  <2>3. hostRuns' = hostRuns /\ hostMet' = hostMet /\ hostAt = "return"
    BY <2>1, HostSees
  <2>4. CASE o.panic = None
    <3>1. hostAt' = "return" /\ value' = value
      BY <2>2, <2>4, HostSeesNext
    <3>2. UNCHANGED Host!vars
      BY <2>1, <2>3, <3>1 DEF Host!vars, hostRuns, hostAt, hostMet, hostClassified
    <3>3. QED BY <3>2
  <2>5. CASE o.panic # None
    <3>1. hostAt' = "raise" /\ value' = o.panic
      BY <2>2, <2>5, HostSeesNext
    <3>2. \/ o.panic = "nilContext" /\ ctx[runs[t].cmd] = NoContext
          \/ o.panic = "classifier" /\ Called(config) # {}
      BY <2>5, PanicsOfRecording
    <3>3. Called(config) # {} => hostClassified
      BY DEF hostClassified
    <3>4. Host!Next
      BY <2>1, <2>3, <3>1, <3>2, <3>3, HostDisturbed
    <3>5. QED BY <3>4
  <2>6. QED BY <2>4, <2>5
<1>11. ASSUME recordPanic PROVE UNCHANGED Host!vars
  <2>1. at = "unwind" /\ at' = "raise" /\ UNCHANGED <<runs, top, value, ctx>>
    BY <1>11 DEF recordPanic
  <2>2. hostAt = "raise" /\ hostAt' = "raise" /\ hostRuns' = hostRuns /\ hostMet' = hostMet
    BY <2>1, HostSees, HostSeesNext
  <2>3. QED BY <2>1, <2>2 DEF Host!vars, hostRuns, hostAt, hostMet, hostClassified
<1>12. ASSUME UNCHANGED vars PROVE UNCHANGED Host!vars
  <2>1. UNCHANGED <<runs, top, at, value, ctx>>
    BY <1>12 DEF vars, host
  <2>2. hostAt' = hostAt /\ hostRuns' = hostRuns /\ hostMet' = hostMet
    BY <2>1 DEF hostAt
  <2>3. QED BY <2>1, <2>2 DEF Host!vars, hostRuns, hostAt, hostMet, hostClassified
<1>13. ASSUME NEW c \in Commands, ShowHelp(c) PROVE Host!Next
  <2>1. /\ at = "inner" /\ at' = "inner" /\ t # 0 /\ UNCHANGED <<runs, top, value>> /\ HandsOn(c)
    BY <1>13 DEF ShowHelp, HandsOn, Shape
  <2>2. hostAt = "inner" /\ hostAt' = "inner" /\ hostRuns' = hostRuns
    BY <2>1, HostSees, HostSeesNext
  <2>3. hostRuns[t].cmd = runs[t].cmd /\ runs[t].cmd \in Commands
    BY <2>1, HostRuns
  <2>4. hostMet' = IF runs[t].cmd \in hostMet THEN hostMet \cup {c} ELSE hostMet
    <3>1. \A d \in Commands : ctx'[d] # NoContext
                               <=> \/ ctx[d] # NoContext
                                   \/ d = c /\ ctx[runs[t].cmd] # NoContext
      BY <2>1, HandedContext
    <3>2. QED BY <2>3, <3>1 DEF hostMet
  <2>5. Host!ShowHelp(c)
    BY <2>1, <2>2, <2>3, <2>4 DEF Host!ShowHelp, hostRuns, hostAt, hostMet
  <2>6. QED BY <2>5 DEF Host!Next, hostClassified
<1>14. QED
  BY Steps, <1>1, <1>2, <1>3, <1>4, <1>5, <1>6, <1>7, <1>8, <1>9, <1>10, <1>11, <1>12, <1>13

\* ImplementsHost: the instrumented CLI is a CLI of HostCLI.  Whatever the
\* hooks record, calls, results and panics are those of the host, but for the
\* panics that Disturb lists.
THEOREM Refinement == Spec => ImplementsHost
<1>1. Init => Host!Init
  BY HostInit
<1>2. Shape /\ Stack /\ [Next]_vars => [Host!Next]_(Host!vars)
  <2>1. SUFFICES ASSUME Shape, Stack, [Next]_vars PROVE [Host!Next]_(Host!vars)
    OBVIOUS
  <2>2. PICK t : t = top
    OBVIOUS
  <2>3. QED BY <2>1, <2>2, HostStep
<1>3. QED BY <1>1, <1>2, StackCorrect, PTL DEF Spec, ImplementsHost, Host!Spec
=============================================================================
