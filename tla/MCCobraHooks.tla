---------------------------- MODULE MCCobraHooks ----------------------------
(* CobraHooks for TLC: a small CLI with a command of every kind.  Words    *)
(* are over the letters a and b.                                           *)
EXTENDS CobraHooks, TLC

CONSTANTS root, deploy, push, remote, add, late

AllCommands == {root, deploy, push, remote, add, late}
Tree == deploy :> root @@ push :> root @@ remote :> root @@ add :> remote @@ late :> push
Order == <<add, deploy, late, push, remote, root>>
Kinds ==
    root :> "runE" @@ deploy :> "runE" @@ push :> "run" @@ remote :> "none"
    @@ add :> "runE" @@ late :> "runE"
\* The same tree with a root that only groups its subcommands.
Grouped == [Kinds EXCEPT ![root] = "none"]
ShownHelp ==
    [c \in AllCommands |-> CASE c = add -> {remote} [] c = late -> {push} [] OTHER -> {}]
CallGraph ==
    [c \in AllCommands |->
        CASE c = deploy -> {push, add} [] c = add -> {deploy} [] c = push -> {late} [] OTHER -> {}]
Names ==
    root :> <<"b", "b">> @@ deploy :> <<"a", "b", "a">> @@ push :> <<"a", "b", "b">>
    @@ remote :> <<"b">> @@ add :> <<"a", "a">> @@ late :> <<"b", "a">>
Declared == [c \in AllCommands |-> IF c = remote THEN {<<"a", "a", "a">>} ELSE {}]
SuggestionsMinimumDistance == [c \in AllCommands |-> IF c = remote THEN 1 ELSE 0]
Words == {<<>>, <<"b", "a">>, <<"a", "a", "a">>, <<"a", "a", "b">>, <<"a", "a", "a", "a", "a">>}

Option(sets) == [sets |-> sets, fn |-> None]
Classifier(sets, fn) == [sets |-> sets, fn |-> fn]
Lists ==
    {<<>>,
     <<Classifier("both", "f"), Classifier("category", "g")>>,
     <<Classifier("reason", "h"), Classifier("category", "g"), Option("both"), Option("help")>>,
     <<Classifier("both", "f"), Option("panics"), Option("unknown")>>,
     <<Option("run"), Option("help"), Option("unknown")>>}
AtExit == {<<Classifier("both", "f")>>, <<Classifier("reason", "h"), Option("run")>>}
=============================================================================
