-------------------------- MODULE InstallIDProofs --------------------------
(***************************************************************************)
(* Theorems of InstallID for any number of runs of the CLI.                *)
(***************************************************************************)
EXTENDS InstallID, TLAPS

\* A process in flight while the file holds a valid ID has not seen that ID:
\* it is excused, and whatever it does to the file counts as a disturbance.
Unseen == file \in IDs => InFlight \subseteq Excused

Inv ==
    /\ TypeOK
    /\ Unseen
    /\ OnlyPersistedIDs
    /\ StableUnlessDisturbed
    /\ file \in IDs => file \in stored

\* Types, the persistence of every reported ID and the stability of the ID of
\* an undisturbed install are one inductive invariant.
THEOREM InvCorrect == Spec => []Inv
<1>. USE ValuesAssumption DEF IDs
<1>1. Init => Inv
  BY DEF Init, Inv, TypeOK, Unseen, InFlight, Excused, OnlyPersistedIDs, StableUnlessDisturbed
<1>2. Inv /\ [Next]_vars => Inv'
  <2>. SUFFICES ASSUME Inv, [Next]_vars PROVE Inv'
    OBVIOUS
  <2>. USE DEF Inv, TypeOK
  <2>1. ASSUME NEW p \in Processes, ReadValid(p) PROVE Inv'
    BY <2>1 DEF ReadValid, Loaded, Unseen, InFlight, Excused, OnlyPersistedIDs,
                StableUnlessDisturbed, history
  <2>2. ASSUME NEW p \in Processes, ReadInvalid(p) PROVE Inv'
    BY <2>2 DEF ReadInvalid, Unseen, OnlyPersistedIDs, StableUnlessDisturbed, history
  <2>3. ASSUME NEW p \in Processes, ReadFails(p) PROVE Inv'
    BY <2>3 DEF ReadFails, Unseen, InFlight, Excused, OnlyPersistedIDs, StableUnlessDisturbed
  <2>4. ASSUME NEW p \in Processes, Generate(p) PROVE Inv'
    BY <2>4 DEF Generate, Unseen, InFlight, Excused, OnlyPersistedIDs,
                StableUnlessDisturbed, history
  <2>5. ASSUME NEW p \in Processes, OpenTruncate(p) PROVE Inv'
    <3>1. file \in IDs => disturbed'
      BY <2>5 DEF OpenTruncate, Unseen, InFlight
    <3>2. StableUnlessDisturbed'
      BY <2>5, <3>1 DEF OpenTruncate, StableUnlessDisturbed
    <3>. QED
      BY <2>5, <3>2 DEF OpenTruncate, Unseen, OnlyPersistedIDs
  <2>6. ASSUME NEW p \in Processes, Write(p) PROVE Inv'
    <3>1. file \in IDs => disturbed'
      BY <2>6 DEF Write, Unseen, InFlight
    <3>2. StableUnlessDisturbed'
      BY <2>6, <3>1 DEF Write, Loaded, StableUnlessDisturbed
    <3>3. Unseen'
      BY <2>6 DEF Write, Loaded, Unseen, InFlight, Excused
    <3>4. OnlyPersistedIDs'
      BY <2>6 DEF Write, Loaded, OnlyPersistedIDs
    <3>5. TypeOK'
      BY <2>6 DEF Write, Loaded, InFlight
    <3>. QED
      BY <2>6, <3>2, <3>3, <3>4, <3>5 DEF Write
  <2>7. ASSUME NEW p \in Processes, Fail(p) PROVE Inv'
    BY <2>7 DEF Fail, Loaded, Unseen, InFlight, Excused, OnlyPersistedIDs,
                StableUnlessDisturbed, history
  <2>8. ASSUME NEW p \in Processes, Crash(p) PROVE Inv'
    BY <2>8 DEF Crash, Unseen, InFlight, Excused, OnlyPersistedIDs,
                StableUnlessDisturbed, history
  <2>9. CASE UNCHANGED vars
    BY <2>9 DEF vars, history, Unseen, InFlight, Excused, OnlyPersistedIDs, StableUnlessDisturbed
  <2>. QED
    BY <2>1, <2>2, <2>3, <2>4, <2>5, <2>6, <2>7, <2>8, <2>9 DEF Next, Terminated
<1>. QED
  BY <1>1, <1>2, PTL DEF Spec

\* No run ever reports an ID that was not in the file, complete.
THEOREM ReportedIsPersisted == Spec => []OnlyPersistedIDs
<1>1. Inv => OnlyPersistedIDs
  BY DEF Inv
<1>. QED
  BY <1>1, InvCorrect, PTL

\* The ID of an install changes only through a failed read or a race.
THEOREM InstallIDStable == Spec => []StableUnlessDisturbed
<1>1. Inv => StableUnlessDisturbed
  BY DEF Inv
<1>. QED
  BY <1>1, InvCorrect, PTL

\* TypeOK: whatever the processes do to the file, every variable keeps its type.
THEOREM TypeCorrect == Spec => []TypeOK
<1>1. Inv => TypeOK
  BY DEF Inv
<1>. QED
  BY <1>1, InvCorrect, PTL
=============================================================================
