------------------------------ MODULE HostCLI -------------------------------
(***************************************************************************)
(* What a host CLI built on cobra does on its own: its main goroutine      *)
(* executes commands, and their run functions return, fail, panic, call    *)
(* each other's run functions directly or end the process.                 *)
(*                                                                         *)
(* This is what instrumentation is to leave as it is.  The only places     *)
(* where it may disturb the host are spelled out in Disturb: everything    *)
(* else that CobraHooks does to this state must be a step of the host.     *)
(***************************************************************************)
EXTENDS Integers, Sequences

CONSTANTS
    Commands,    \* the commands of the tree
    Root,
    Runnable,    \* those that have a run function
    Plain,       \* those whose run function returns no error (cobra's Run)
    None

VARIABLES
    runs,   \* every call of a run function: [fn, cmd, caller]
    top,    \* the one that is running, 0 when there is none
    at,     \* where the goroutine is
    value,  \* what the last call ends in: ok, err, or the value of a panic
    met,    \* the commands whose Context is set, as cobra has resolved them
    classified  \* whether the vendor gave functions that classify errors

vars == <<runs, top, at, value, met, classified>>

Init ==
    /\ runs = <<>> /\ top = 0 /\ at = "idle" /\ value = None /\ met = {}
    /\ classified \in BOOLEAN

Enter(fn, cmd) ==
    /\ runs' = Append(runs, [fn |-> fn, cmd |-> cmd, caller |-> top])
    /\ top' = Len(runs) + 1

\* Execute resolves c and is about to run the vendor's persistent pre-run.
Execute(c) ==
    /\ at = "idle" /\ c \in Runnable
    /\ Enter(c, c)
    /\ at' = "hook" /\ value' = None
    /\ met' = met \cup {Root, c}

\* Execute shows help or fails before it runs anything.
Refuse(c) ==
    /\ at = "idle"
    /\ met' = met \cup {Root, c}
    /\ UNCHANGED <<runs, top, at, value>>

Hook ==
    /\ at = "hook"
    /\ \/ at' = "inner" /\ value' = None
       \/ at' = "return" /\ value' = "err"
       \/ at' = "raise" /\ value' = "host"
    /\ UNCHANGED <<runs, top, met>>

Finish ==
    /\ at = "inner"
    /\ at' = "return"
    /\ value' \in IF runs[top].fn \in Plain THEN {"ok"} ELSE {"ok", "err"}
    /\ UNCHANGED <<runs, top, met>>

Panic ==
    /\ at = "inner"
    /\ at' = "raise" /\ value' = "host"
    /\ UNCHANGED <<runs, top, met>>

\* A run function calls another one, with its own command or with the other.
Call(d, cmd) ==
    /\ at = "inner" /\ d \in Runnable /\ cmd \in {d, runs[top].cmd}
    /\ Enter(d, cmd)
    /\ UNCHANGED <<at, value, met>>

\* A run function shows the help of c: cobra's own help command hands on its
\* Context.
ShowHelp(c) ==
    /\ at = "inner"
    /\ met' = IF runs[top].cmd \in met THEN met \cup {c} ELSE met
    /\ UNCHANGED <<runs, top, at, value>>

Exit ==
    /\ at = "inner"
    /\ at' = "exited"
    /\ UNCHANGED <<runs, top, value, met>>

\* The call returns to its caller: a run function, or Execute.
Leave ==
    /\ at = "return"
    /\ top' = runs[top].caller
    /\ at' = IF top' = 0 THEN "idle" ELSE "inner"
    /\ value' = None
    /\ UNCHANGED <<runs, met>>

\* The panic leaves the call: the caller recovers it or panics in turn; the
\* process crashes if nobody recovers it.
Raise ==
    /\ at = "raise"
    /\ top' = runs[top].caller
    /\ \/ at' = (IF top' = 0 THEN "idle" ELSE "inner") /\ value' = None
       \/ at' = (IF top' = 0 THEN "crashed" ELSE "raise") /\ UNCHANGED value
    /\ UNCHANGED <<runs, met>>

\* Where instrumentation makes a panic of its own: a run function that ends
\* or exits while its command has no Context, a Run that is called directly
\* and has been cleared, and an error classifier of the vendor that panics.
Disturb ==
    /\ \/ at \in {"return", "inner"} /\ value' = "nilContext" /\ runs[top].cmd \notin met
       \/ at = "inner" /\ value' = "nilRun" /\ Plain # {}
       \/ at \in {"return", "inner"} /\ value' = "classifier" /\ classified
    /\ at' = "raise"
    /\ UNCHANGED <<runs, top, met>>

Next ==
    /\ \/ \E c \in Commands : Execute(c) \/ Refuse(c) \/ ShowHelp(c)
       \/ Hook \/ Finish \/ Panic \/ Exit \/ Leave \/ Raise \/ Disturb
       \/ \E d, cmd \in Commands : Call(d, cmd)
    /\ UNCHANGED classified

Spec == Init /\ [][Next]_vars
=============================================================================
