----------------------------- MODULE MCTaxonomy -----------------------------
(* Taxonomy for TLC: the operations that a run lets the host call.         *)
EXTENDS Taxonomy, TLC

AllKinds ==
    [kind : {"sessionStart"}]
    \cup [kind : {"invoked", "completed"}, command : Commands, flags : {TRUE}]
    \cup [kind : {"feature"}, feature : Features]
    \cup [kind : {"setKnown"}, commands : {{command} : command \in Commands}]
    \cup [kind : {"unknown"}, suggestion : Commands \cup {None}]
    \cup [kind : {"help"}, command : Commands]
    \cup [kind : {"error"}, command : Commands, reason : {TRUE}]
    \cup [kind : {"detail"}, command : Commands, stack : {TRUE}]
    \cup [kind : {"counter"}, label : {"valid", "invalid"}]
    \cup [kind : {"handle"}, valid : BOOLEAN]

\* The operations whose calls race on the shared IDs and flags.
Racing ==
    [kind : {"sessionStart"}]
    \cup [kind : {"invoked"}, command : Commands, flags : {FALSE}]
    \cup [kind : {"feature"}, feature : Features]
    \cup [kind : {"counter"}, label : {"none"}]
    \cup [kind : {"handle"}, valid : {TRUE}]

\* A help request that can fill the queue, and a metric.
HelpAndCounter ==
    [kind : {"help"}, command : Commands] \cup [kind : {"counter"}, label : {"none"}]

CallSymmetry == Permutations(Calls)
IDSymmetry == Permutations(Calls) \cup Permutations(InstallIDs)
=============================================================================
