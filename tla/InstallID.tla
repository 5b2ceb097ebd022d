----------------------------- MODULE InstallID -----------------------------
(***************************************************************************)
(* The install ID file of a CLI (install.go), shared without a lock by all *)
(* the processes of that CLI: each reads it once and, when it finds no     *)
(* valid ID, generates one and writes it.  os.WriteFile truncates first    *)
(* and writes second, so another process may run, or this one may die,     *)
(* between the two.                                                        *)
(*                                                                         *)
(* The random ID that a process generates is written as the process.  A    *)
(* process whose install ID is turned off (an empty path) does nothing     *)
(* here and is left out.                                                   *)
(***************************************************************************)
CONSTANTS
    Processes,  \* the runs of the CLI
    Old,        \* the ID that an earlier run may have left
    Damaged,    \* the content of a truncated or hand-edited file
    Absent,     \* no file
    NoID        \* the empty string: no install ID is reported

ASSUME ValuesAssumption ==
    /\ Old \notin Processes
    /\ {Damaged, Absent, NoID} \cap (Processes \cup {Old}) = {}
    /\ Damaged # Absent

IDs == Processes \cup {Old}

VARIABLES
    file,      \* the content of the file
    pc,        \* where each process is
    id,        \* what each process reports as its install ID
    (* history: which processes had a reason to replace a valid ID *)
    unread,    \* the processes that could not read the ID that was there
    overtaken, \* those for which an ID appeared after their read
    disturbed, \* an excused process has touched the file
    stored     \* every ID that has been in the file, complete

history == <<unread, overtaken, disturbed, stored>>
vars == <<file, pc, id, history>>

TypeOK ==
    /\ file \in IDs \cup {Damaged, Absent}
    /\ pc \in [Processes -> {"read", "generate", "open", "write", "loaded", "dead"}]
    /\ id \in [Processes -> IDs \cup {NoID}]
    /\ unread \in SUBSET Processes /\ overtaken \in SUBSET Processes
    /\ disturbed \in BOOLEAN
    /\ stored \in SUBSET IDs

Init ==
    /\ file \in {Old, Damaged, Absent}
    /\ pc = [p \in Processes |-> "read"]
    /\ id = [p \in Processes |-> NoID]
    /\ unread = {} /\ overtaken = {} /\ disturbed = FALSE
    /\ stored = {file} \cap {Old}

Excused == unread \cup overtaken

InFlight == {p \in Processes : pc[p] \in {"generate", "open", "write"}}

Loaded(p, result) ==
    /\ pc' = [pc EXCEPT ![p] = "loaded"]
    /\ id' = [id EXCEPT ![p] = result]

\* A plausible bug: what is in the file is not validated.
Mut_ReadValid(p) ==
    /\ pc[p] = "read"
    /\ file # Absent
    /\ Loaded(p, file)
    /\ UNCHANGED <<file, history>>

\* A plausible bug: the ID read is not returned, a new one is always made.
MutFresh_ReadValid(p) ==
    /\ pc[p] = "read"
    /\ file \in IDs
    /\ pc' = [pc EXCEPT ![p] = "generate"]
    /\ UNCHANGED <<file, id, history>>

ReadValid(p) ==
    /\ pc[p] = "read"
    /\ file \in IDs
    /\ Loaded(p, file)
    /\ UNCHANGED <<file, history>>

\* No file, or one that holds no valid ID.
ReadInvalid(p) ==
    /\ pc[p] = "read"
    /\ file \notin IDs
    /\ pc' = [pc EXCEPT ![p] = "generate"]
    /\ UNCHANGED <<file, id, history>>

\* Any error of os.ReadFile is treated like a missing file, even when the file
\* is there (with no valid ID in it the outcome is that of ReadInvalid).
ReadFails(p) ==
    /\ pc[p] = "read"
    /\ file \in IDs
    /\ pc' = [pc EXCEPT ![p] = "generate"]
    /\ unread' = unread \cup {p}
    /\ UNCHANGED <<file, id, overtaken, disturbed, stored>>

Generate(p) ==
    /\ pc[p] = "generate"
    /\ pc' = [pc EXCEPT ![p] = "open"]
    /\ UNCHANGED <<file, id, history>>

\* os.WriteFile, first half: the file is opened with O_TRUNC.
OpenTruncate(p) ==
    /\ pc[p] = "open"
    /\ pc' = [pc EXCEPT ![p] = "write"]
    /\ file' = Damaged
    /\ disturbed' = (disturbed \/ p \in Excused)
    /\ UNCHANGED <<id, unread, overtaken, stored>>

\* Second half.  The processes that are past their own read may now replace a
\* valid ID without having seen it.
Write(p) ==
    /\ pc[p] = "write"
    /\ file' = p
    /\ Loaded(p, p)
    /\ overtaken' = overtaken \cup (InFlight \ {p})
    /\ disturbed' = (disturbed \/ p \in Excused)
    /\ stored' = stored \cup {p}
    /\ UNCHANGED unread

\* A plausible bug: the ID is reported although it was not persisted.
Mut_Fail(p) ==
    /\ pc[p] \in {"generate", "open", "write"}
    /\ Loaded(p, p)
    /\ UNCHANGED <<file, history>>

\* The randomness source, MkdirAll, the open or the write fails: no ID.
Fail(p) ==
    /\ pc[p] \in {"generate", "open", "write"}
    /\ Loaded(p, NoID)
    /\ UNCHANGED <<file, history>>

\* The host CLI exits or is killed while its worker is here.
Crash(p) ==
    /\ p \in InFlight
    /\ pc' = [pc EXCEPT ![p] = "dead"]
    /\ UNCHANGED <<file, id, history>>

Terminated == (\A p \in Processes : pc[p] \in {"loaded", "dead"}) /\ UNCHANGED vars

Next ==
    \/ \E p \in Processes :
          \/ ReadValid(p) \/ ReadInvalid(p) \/ ReadFails(p) \/ Generate(p)
          \/ OpenTruncate(p) \/ Write(p) \/ Fail(p) \/ Crash(p)
    \/ Terminated

Spec == Init /\ [][Next]_vars

-----------------------------------------------------------------------------
\* An ID is reported only if it has been in the file, complete: "an ID that
\* changes on every run would count every invocation as a new install"
\* (install.go:60), so one that could not be persisted is not used.
OnlyPersistedIDs == \A p \in Processes : id[p] # NoID => id[p] \in stored

\* All the processes report the same ID, the one in the file, unless an
\* excused process has touched it: one whose read failed, or that had read
\* before the ID appeared.  Crashes, failed writes and a damaged file alone
\* never make the ID of an install change.
StableUnlessDisturbed ==
    ~disturbed => \A p \in Processes : id[p] # NoID => file = id[p]
=============================================================================
