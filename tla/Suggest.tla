------------------------------ MODULE Suggest -------------------------------
(***************************************************************************)
(* The command tree of a host CLI as cobra keeps it, and how cobrasdk      *)
(* finds the registered command nearest to what the user typed             *)
(* (nearestCommand and editDistance, cobrasdk.go).  A word is a sequence   *)
(* of letters, its case already folded.                                    *)
(***************************************************************************)
EXTENDS Integers, Sequences, SequencesExt

CONSTANTS
    Commands,       \* the commands of the tree
    Root,           \* its root
    Parent,         \* the parent of every other command
    Listing,        \* the commands in the order of Commands(): by name
    Name,           \* the name of each command
    SuggestFor,     \* the words for which each command is to be suggested
    Available,      \* IsAvailableCommand: neither hidden nor deprecated
    Distances,      \* SuggestionsMinimumDistance of each command
    Silent,         \* the commands that set DisableSuggestions
    MaxTypedLength, \* longer words are no typo
    Typed,          \* the words that the user may type by mistake
    NoCommand

ASSUME TreeAssumption ==
    /\ Root \in Commands /\ NoCommand \notin Commands
    /\ Parent \in [Commands \ {Root} -> Commands]
    /\ Listing \in Seq(Commands) /\ Range(Listing) = Commands
    /\ Distances \in [Commands -> Int]
    /\ Silent \subseteq Commands /\ Available \subseteq Commands

\* A letter is a string of its own.
ASSUME WordsAssumption ==
    /\ Name \in [Commands -> Seq(STRING)]
    /\ Typed \subseteq Seq(STRING) /\ MaxTypedLength \in Nat

defaultSuggestionDistance == 2

Subcommands(c) == {d \in Commands \ {Root} : Parent[d] = c}
HasSubCommands(c) == Subcommands(c) # {}

-----------------------------------------------------------------------------
Least(a, b, c) == IF a <= b /\ a <= c THEN a ELSE IF b <= c THEN b ELSE c

\* A plausible bug: a substitution is counted as a deletion and an insertion.
Mut_NextRow(row, a, b, i) ==
    LET cell[j \in 0..Len(b)] ==
          IF j = 0 THEN i
          ELSE Least(row[j] + 1, cell[j - 1] + 1,
                     row[j - 1] + (IF a[i] = b[j] THEN 0 ELSE 2))
    IN  [j \in 0..Len(b) |-> cell[j]]

\* One round of the outer loop: the distances from the first i letters of a
\* to each prefix of b, out of those for the first i - 1.
NextRow(row, a, b, i) ==
    LET cell[j \in 0..Len(b)] ==
          IF j = 0 THEN i
          ELSE Least(row[j] + 1, cell[j - 1] + 1,
                     row[j - 1] + (IF a[i] = b[j] THEN 0 ELSE 1))
    IN  [j \in 0..Len(b) |-> cell[j]]

editDistance(a, b) ==
    LET first == [j \in 0..Len(b) |-> j]
        last == FoldLeft(LAMBDA row, i : NextRow(row, a, b, i), first,
                         [i \in 1..Len(a) |-> i])
    IN  last[Len(b)]

SuggestionLimit(parent) ==
    IF Distances[parent] <= 0 THEN defaultSuggestionDistance ELSE Distances[parent]

DistanceTo(sub, typed) ==
    IF typed \in SuggestFor[sub] THEN 0 ELSE editDistance(typed, Name[sub])

\* The search starts just beyond the limit, and a tie keeps the first.
nearestCommand(parent, typed) ==
    IF parent \in Silent \/ typed = <<>> \/ Len(typed) > MaxTypedLength THEN NoCommand
    ELSE LET Closer(best, sub) ==
               IF /\ sub \in Subcommands(parent) \cap Available
                  /\ DistanceTo(sub, typed) < best.distance
               THEN [command |-> sub, distance |-> DistanceTo(sub, typed)] ELSE best
             none == [command |-> NoCommand, distance |-> SuggestionLimit(parent) + 1]
         IN  FoldLeft(Closer, none, Listing).command

-----------------------------------------------------------------------------
(* What is to be found, without a table: the words within n edits.         *)

OneEdit(w, letters) ==
    {RemoveAt(w, i) : i \in DOMAIN w}
    \cup {InsertAt(w, i, l) : i \in 1..(Len(w) + 1), l \in letters}
    \cup {ReplaceAt(w, i, l) : i \in DOMAIN w, l \in letters}

Letters == UNION {Range(Name[c]) : c \in Commands}

Limits == {SuggestionLimit(c) : c \in Commands}

\* The words that up to n edits make of each typed word.
WithinEdits ==
    [typed \in Typed |->
        LET within[k \in Nat] ==
              IF k = 0 THEN {typed}
              ELSE within[k - 1] \cup UNION {OneEdit(w, Letters) : w \in within[k - 1]}
        IN  [n \in 0..Max(Limits) |-> within[n]]]

\* The subcommands that n edits are enough to reach, or that are declared.
Reached(parent, typed, n) ==
    {c \in Subcommands(parent) \cap Available :
        typed \in SuggestFor[c] \/ Name[c] \in WithinEdits[typed][n]}

IsNearest(parent, typed, suggestion) ==
    LET inReach == parent \notin Silent /\ typed # <<>> /\ Len(typed) <= MaxTypedLength
        limit == SuggestionLimit(parent)
    IN  IF suggestion = NoCommand
        THEN ~inReach \/ Reached(parent, typed, limit) = {}
        ELSE /\ inReach
             /\ \E n \in 0..limit :
                   /\ suggestion \in Reached(parent, typed, n)
                   /\ n > 0 => Reached(parent, typed, n - 1) = {}
=============================================================================
