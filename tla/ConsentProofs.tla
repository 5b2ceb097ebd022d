--------------------------- MODULE ConsentProofs ----------------------------
(***************************************************************************)
(* Theorems about Consent, for every set of runs and of Stores and every   *)
(* set of setups.                                                          *)
(*                                                                         *)
(* The argument: a run is decided by the one answer that Ask acts on, so   *)
(* an invariant per fact that an answer may depend on is enough - what has *)
(* been in the file since the run began is in granted, a run that is       *)
(* undisturbed still sees the file it began with, and a run that has not   *)
(* asked its first provider yet is at the first one.                       *)
(***************************************************************************)
EXTENDS Consent, SequenceTheorems, TLAPS

\* The control part of TypeOK, which the other invariants need.
Control ==
    /\ setup \in AllSetups
    /\ defaultTier \in Tiers
    /\ file \in Tiers \cup {Absent, Damaged}
    /\ pc \in [Runs -> {"idle", "resolve", "build", "live", "off"}]
    /\ next \in [Runs -> Nat \ {0}]
    /\ launch \in [Runs -> Launches]
    /\ tier \in [Runs -> Tiers]
    /\ first \in [Runs -> Tiers \cup {Absent, Damaged}]
    /\ granted \in [Runs -> SUBSET Tiers]
    /\ stored \in [Stores -> Tiers \cup {Invalid}]
    /\ storing \in [Stores -> {"idle", "open", "write", "stored", "failed", "dead"}]
    /\ undisturbed \subseteq Runs
    /\ \A s \in Stores : storing[s] \in {"open", "write", "stored"} => stored[s] \in Tiers

\* The tiers are four numbers, apart from the other answers.
LEMMA TierFacts ==
    /\ TierAnonymous \in Tiers
    /\ Invalid \notin Tiers /\ Errored \notin Tiers /\ Panicked \notin Tiers
    /\ Invalid # Errored /\ Panicked # Errored /\ Invalid # Panicked
BY DEF Tiers, TierAnonymous, TierOptIn, Invalid, Errored, Panicked

\* The control state is well-typed, and a Store that got past its check
\* stores one of the four tiers.
THEOREM ControlCorrect == Spec => []Control
<1> USE SetupsAssumption, ValuesAssumption, TierFacts
<1>1. Init => Control
  BY DEF Init, Control
<1>2. Control /\ [Next]_vars => Control'
  <2> SUFFICES ASSUME Control, [Next]_vars PROVE Control'
    OBVIOUS
  <2> USE DEF Control, given, runState, storeState
  <2>1. ASSUME NEW r \in Runs, StartOff(r) PROVE Control'
    BY <2>1 DEF StartOff
  <2>2. ASSUME NEW r \in Runs, Start(r) PROVE Control'
    <3>1. /\ UNCHANGED <<given, next, storeState>>
          /\ granted' = [granted EXCEPT ![r] = {file} \cap Tiers]
          /\ first' = [first EXCEPT ![r] = file]
          /\ undisturbed' = undisturbed \cup {r}
      BY <2>2 DEF Start
    <3>2. /\ granted' \in [Runs -> SUBSET Tiers] /\ undisturbed' \subseteq Runs
          /\ first' \in [Runs -> Tiers \cup {Absent, Damaged}]
      BY <3>1
    <3>3. CASE Chosen(r, defaultTier)
      BY <3>1, <3>2, <3>3 DEF Chosen
    <3>4. CASE pc' = [pc EXCEPT ![r] = "resolve"] /\ UNCHANGED tier
      BY <3>1, <3>2, <3>4
    <3>5. QED BY <2>2, <3>3, <3>4 DEF Start
  <2>3. ASSUME NEW r \in Runs, Ask(r) PROVE Control'
    <3>1. UNCHANGED <<given, first, storeState, granted, undisturbed>>
      BY <2>3 DEF Ask
    <3>2. PICK answer \in AnswersOf(r, Asked(r)) :
             \/ answer \in Tiers /\ Chosen(r, answer) /\ UNCHANGED next
             \/ next' = [next EXCEPT ![r] = @ + 1] /\ UNCHANGED <<pc, tier>>
             \/ Chosen(r, defaultTier) /\ UNCHANGED next
             \/ pc' = [pc EXCEPT ![r] = "off"] /\ UNCHANGED <<next, tier>>
      BY <2>3 DEF Ask
    <3>3. CASE answer \in Tiers /\ Chosen(r, answer) /\ UNCHANGED next
      BY <3>1, <3>3 DEF Chosen
    <3>4. CASE next' = [next EXCEPT ![r] = @ + 1] /\ UNCHANGED <<pc, tier>>
      BY <3>1, <3>4
    <3>5. CASE Chosen(r, defaultTier) /\ UNCHANGED next
      BY <3>1, <3>5 DEF Chosen
    <3>6. CASE pc' = [pc EXCEPT ![r] = "off"] /\ UNCHANGED <<next, tier>>
      BY <3>1, <3>6
    <3>7. QED BY <3>2, <3>3, <3>4, <3>5, <3>6
  <2>4. ASSUME NEW r \in Runs, AskNobody(r) PROVE Control'
    BY <2>4 DEF AskNobody, Chosen
  <2>5. ASSUME NEW r \in Runs, Build(r) PROVE Control'
    BY <2>5 DEF Build
  <2>6. ASSUME NEW s \in Stores, NEW t \in Tiers \cup {Invalid}, StoreBegin(s, t) PROVE Control'
    BY <2>6 DEF StoreBegin
  <2>7. ASSUME NEW s \in Stores, StoreTruncate(s) PROVE Control'
    BY <2>7 DEF StoreTruncate
  <2>8. ASSUME NEW s \in Stores, StoreWrite(s) PROVE Control'
    BY <2>8 DEF StoreWrite
  <2>9. ASSUME NEW s \in Stores, StoreFail(s) PROVE Control'
    BY <2>9 DEF StoreFail
  <2>10. ASSUME Terminated \/ UNCHANGED vars PROVE Control'
    BY <2>10 DEF Terminated, vars
  <2>11. QED BY <2>1, <2>2, <2>3, <2>4, <2>5, <2>6, <2>7, <2>8, <2>9, <2>10 DEF Next
<1>3. QED BY <1>1, <1>2, PTL DEF Spec

-----------------------------------------------------------------------------
\* What is in the file is granted to every run that is asking, and a run that
\* is decided has a lawful tier.
Granting ==
    /\ \A r \in Runs : pc[r] = "resolve" => {file} \cap Tiers \subseteq granted[r]
    /\ \A r \in Runs : pc[r] \in {"build", "live"} => tier[r] \in Lawful(r) \cup {TierAnonymous}

\* The answer of any provider of a setup is a lawful tier, TierAnonymous or
\* no tier at all.
LEMMA LawfulAnswers ==
    ASSUME Control, Granting, NEW r \in Runs, pc[r] = "resolve",
           next[r] <= Len(setup.providers),
           NEW answer \in AnswersOf(r, Asked(r)), answer \in Tiers
    PROVE  answer \in Lawful(r) \cup {TierAnonymous}
<1> DEFINE p == Asked(r)
<1>1. next[r] \in 1..Len(setup.providers) /\ setup.providers \in Seq(Providers)
  BY DEF Control, AllSetups
<1>2. p \in Providers /\ p = setup.providers[next[r]]
  BY <1>1 DEF Asked
<1>3. p.kind \in {"env", "file", "disabled", "nil", "custom", "static"}
  BY <1>2 DEF Providers
<1>4. CASE p.kind = "env"
  BY <1>4, TierFacts DEF AnswersOf, EnvAnswers
<1>5. CASE p.kind = "file"
  <2>1. answer = file /\ file \in Tiers
    BY <1>5, TierFacts DEF AnswersOf, FileAnswers
  <2>2. Has("file")
    BY <1>1, <1>2, <1>5 DEF Has
  <2>3. QED BY <2>1, <2>2 DEF Lawful, Granting
<1>6. CASE p.kind = "disabled"
  BY <1>6 DEF AnswersOf
<1>7. CASE p.kind = "nil"
  BY <1>7, TierFacts DEF AnswersOf
<1>8. CASE p.kind = "custom"
  <2>1. Has("custom")
    BY <1>1, <1>2, <1>8 DEF Has
  <2>2. QED BY <2>1 DEF Lawful
<1>9. CASE p.kind = "static"
  <2>1. answer = p.tier \/ answer = TierAnonymous
    BY <1>9 DEF AnswersOf, StaticAnswers
  <2>2. p.tier \in {setup.providers[i].tier : i \in {j \in 1..Len(setup.providers) :
                                               setup.providers[j].kind = "static"}}
    BY <1>1, <1>2, <1>9
  <2>3. QED BY <2>1, <2>2 DEF Lawful
<1>10. QED BY <1>3, <1>4, <1>5, <1>6, <1>7, <1>8, <1>9

\* A decision for the default tier or for a lawful answer keeps Granting.
LEMMA ChosenIsLawful ==
    \A r, t : Control /\ Granting /\ r \in Runs /\ t \in Lawful(r) \cup {TierAnonymous}
              /\ Chosen(r, t) /\ UNCHANGED <<given, storeState, granted>>
              => Granting'
BY DEF Control, Granting, Chosen, Lawful, Has, given, storeState

\* NeverEscalates: whatever the setup and however many Stores race with it, a
\* live client has a tier that somebody chose, or TierAnonymous.
THEOREM TierIsLawful == Spec => []NeverEscalates
<1>1. Init => Granting
  BY DEF Init, Granting
<1>2. Control /\ Granting /\ [Next]_vars => Granting'
  <2> SUFFICES ASSUME Control, Granting, [Next]_vars PROVE Granting'
    OBVIOUS
  <2>1. ASSUME NEW r \in Runs, StartOff(r) PROVE Granting'
    <3>1. /\ UNCHANGED <<setup, defaultTier, file, granted, tier>>
          /\ \A q \in Runs : pc'[q] = pc[q] \/ pc'[q] = "off"
      BY <2>1 DEF StartOff, Control, given, storeState
    <3>2. \A q : Lawful(q)' = Lawful(q)
      BY <3>1 DEF Lawful, Has
    <3>3. QED BY <3>1, <3>2 DEF Granting
  <2>2. ASSUME NEW r \in Runs, Start(r) PROVE Granting'
    <3> USE DEF Granting, Control, Has, Lawful, given, storeState, Chosen
    <3>1. /\ setup' = setup /\ defaultTier' = defaultTier /\ file' = file
          /\ pc[r] = "idle" /\ granted' = [granted EXCEPT ![r] = {file} \cap Tiers]
      BY <2>2 DEF Start
    <3>2. \A q \in Runs : q # r => pc'[q] = pc[q] /\ tier'[q] = tier[q] /\ granted'[q] = granted[q]
      BY <2>2 DEF Start
    <3>3. pc'[r] = "resolve" \/ (pc'[r] = "build" /\ tier'[r] = defaultTier)
      BY <2>2 DEF Start
    <3>4. \A q \in Runs : pc'[q] = "resolve" => {file'} \cap Tiers \subseteq granted'[q]
      BY <3>1, <3>2
    <3>5. \A q \in Runs : q # r => Lawful(q)' = Lawful(q)
      BY <3>1, <3>2
    <3>6. \A q \in Runs : q # r /\ pc'[q] \in {"build", "live"} => tier'[q] \in Lawful(q)' \cup {TierAnonymous}
      BY <3>2, <3>5
    <3>7. pc'[r] \in {"build", "live"} => tier'[r] \in Lawful(r)'
      BY <3>1, <3>3
    <3>8. QED BY <3>4, <3>6, <3>7
  <2>3. ASSUME NEW r \in Runs, Ask(r) PROVE Granting'
    <3>1. /\ pc[r] = "resolve" /\ next[r] <= Len(setup.providers)
          /\ UNCHANGED <<given, storeState, granted>>
      BY <2>3 DEF Ask
    <3>2. PICK answer \in AnswersOf(r, Asked(r)) :
             \/ answer \in Tiers /\ Chosen(r, answer)
             \/ UNCHANGED <<pc, tier>>
             \/ Chosen(r, defaultTier)
             \/ pc' = [pc EXCEPT ![r] = "off"] /\ UNCHANGED tier
      BY <2>3 DEF Ask
    <3>3. CASE answer \in Tiers /\ Chosen(r, answer)
      BY <3>1, <3>3, LawfulAnswers, ChosenIsLawful
    <3>4. CASE UNCHANGED <<pc, tier>>
      <4>1. \A q : Lawful(q)' = Lawful(q)
        BY <3>1 DEF Lawful, Has, given
      <4>2. QED BY <3>1, <3>4, <4>1 DEF Granting, storeState
    <3>5. CASE Chosen(r, defaultTier)
      BY <3>1, <3>5, ChosenIsLawful DEF Lawful
    <3>6. CASE pc' = [pc EXCEPT ![r] = "off"] /\ UNCHANGED tier
      <4>1. \A q \in Runs : pc'[q] = pc[q] \/ pc'[q] = "off"
        BY <3>6 DEF Control
      <4>2. \A q : Lawful(q)' = Lawful(q)
        BY <3>1 DEF Lawful, Has, given
      <4>3. QED BY <3>1, <3>6, <4>1, <4>2 DEF Granting, storeState
    <3>7. QED BY <3>2, <3>3, <3>4, <3>5, <3>6
  <2>4. ASSUME NEW r \in Runs, AskNobody(r) PROVE Granting'
    BY <2>4, ChosenIsLawful DEF AskNobody, Lawful
  <2>5. ASSUME NEW r \in Runs, Build(r) PROVE Granting'
    <3>1. /\ UNCHANGED <<setup, defaultTier, file, granted, tier>>
          /\ pc[r] = "build" /\ pc'[r] # "resolve"
          /\ \A q \in Runs : q # r => pc'[q] = pc[q]
      BY <2>5 DEF Build, Control, given, storeState
    <3>2. \A q : Lawful(q)' = Lawful(q)
      BY <3>1 DEF Lawful, Has
    <3>3. QED BY <3>1, <3>2 DEF Granting
  <2>6. ASSUME NEW s \in Stores, NEW t \in Tiers \cup {Invalid}, StoreBegin(s, t) PROVE Granting'
    BY <2>6 DEF StoreBegin, Granting, Lawful, Has, given, runState
  <2>7. ASSUME NEW s \in Stores, StoreTruncate(s) PROVE Granting'
    BY <2>7, ValuesAssumption DEF StoreTruncate, Granting, Lawful, Has, given, runState
  <2>8. ASSUME NEW s \in Stores, StoreWrite(s) PROVE Granting'
    <3>1. /\ UNCHANGED <<setup, defaultTier, pc, tier>>
          /\ granted' = [r \in Runs |-> granted[r] \cup ({file'} \cap Tiers)]
      BY <2>8 DEF StoreWrite, given, runState
    <3>2. \A q \in Runs : Lawful(q) \subseteq Lawful(q)'
      BY <3>1 DEF Lawful, Has
    <3>3. QED BY <3>1, <3>2 DEF Granting
  <2>9. ASSUME NEW s \in Stores, StoreFail(s) PROVE Granting'
    BY <2>9 DEF StoreFail, Granting, Lawful, Has, given, runState
  <2>10. ASSUME Terminated \/ UNCHANGED vars PROVE Granting'
    BY <2>10 DEF Terminated, vars, Granting, Lawful, Has, given, runState, storeState
  <2>11. QED BY <2>1, <2>2, <2>3, <2>4, <2>5, <2>6, <2>7, <2>8, <2>9, <2>10 DEF Next
<1>3. Granting => NeverEscalates
  BY DEF Granting, NeverEscalates
<1>4. QED BY <1>1, <1>2, <1>3, ControlCorrect, PTL DEF Spec

-----------------------------------------------------------------------------
(* The first provider of a setup decides.                                  *)

HeadIs(kind) == setup.providers # <<>> /\ setup.providers[1].kind = kind

\* A run begins with the first provider.  In CI it is not past it until it has
\* been answered by EnvConsentProvider; and while nobody writes the file, it
\* is not past FileConsentProvider and still sees the file it began with.
Deciding ==
    /\ \A r \in Runs : pc[r] = "idle" => next[r] = 1
    /\ HeadIs("env") => \A r \in Runs : IsCI(launch[r]) =>
          /\ pc[r] = "resolve" => next[r] = 1
          /\ pc[r] \in {"build", "live"} => tier[r] = TierAnonymous
    /\ HeadIs("file") => \A r \in Runs : r \in undisturbed /\ r \notin unread /\ first[r] \in Tiers =>
          /\ pc[r] = "resolve" => next[r] = 1 /\ file = first[r]
          /\ pc[r] \in {"build", "live"} => tier[r] = first[r]

\* The step in which a run in CI, or one with a whole file, is answered by the
\* first provider decides it.
LEMMA FirstAnswerDecides ==
    ASSUME Control, Deciding, NEW r \in Runs, Ask(r)
    PROVE  /\ HeadIs("env") /\ IsCI(launch[r]) => Chosen(r, TierAnonymous)
           /\ HeadIs("file") /\ r \in undisturbed /\ r \notin unread' /\ first[r] \in Tiers
                 => r \notin unread /\ Chosen(r, first[r])
<1>1. pc[r] = "resolve"
  BY DEF Ask
<1>2. PICK answer \in AnswersOf(r, Asked(r)) :
         /\ \/ answer \in Tiers /\ Chosen(r, answer)
            \/ answer \in {Errored, Invalid, Panicked}
         /\ unread' = IF Asked(r).kind = "file" /\ file \in Tiers /\ answer = Errored
                        THEN unread \cup {r} ELSE unread
  BY DEF Ask
<1>3. ASSUME HeadIs("env"), IsCI(launch[r]) PROVE Chosen(r, TierAnonymous)
  <2>1. Asked(r).kind = "env"
    BY <1>1, <1>3 DEF Deciding, HeadIs, Asked
  <2>2. answer = TierAnonymous
    BY <1>3, <2>1 DEF AnswersOf, EnvAnswers
  <2>3. QED BY <1>2, <2>2, TierFacts
<1>4. ASSUME HeadIs("file"), r \in undisturbed, r \notin unread', first[r] \in Tiers
      PROVE  r \notin unread /\ Chosen(r, first[r])
  <2>1. r \notin unread
    BY <1>2, <1>4
  <2>2. Asked(r).kind = "file" /\ file = first[r]
    BY <1>1, <1>4, <2>1 DEF Deciding, HeadIs, Asked
  <2>3. answer \in {file, Errored}
    BY <2>2 DEF AnswersOf, FileAnswers
  <2>4. answer # Errored
    BY <1>2, <1>4, <2>2
  <2>5. QED BY <1>2, <1>4, <2>1, <2>2, <2>3, <2>4, TierFacts
<1>5. QED BY <1>3, <1>4

\* The first provider decides every run that it can answer.
THEOREM DecidingCorrect == Spec => []Deciding
<1>1. Init => Deciding
  BY DEF Init, Deciding
<1>2. Control /\ Deciding /\ [Next]_vars => Deciding'
  <2> SUFFICES ASSUME Control, Deciding, [Next]_vars PROVE Deciding'
    OBVIOUS
  <2>1. ASSUME NEW r \in Runs, StartOff(r) PROVE Deciding'
    <3>1. /\ UNCHANGED <<setup, file, launch, next, tier, resource, first, unread, undisturbed>>
          /\ \A q \in Runs : pc'[q] = pc[q] \/ pc'[q] = "off"
      BY <2>1 DEF StartOff, Control, given, storeState
    <3>2. QED BY <3>1 DEF Deciding, HeadIs
  <2>2. ASSUME NEW r \in Runs, Start(r) PROVE Deciding'
    <3>1. /\ UNCHANGED <<setup, launch, file, next, unread>>
          /\ pc[r] = "idle" /\ first'[r] = file
          /\ \A q \in Runs : q # r =>
                /\ pc'[q] = pc[q] /\ tier'[q] = tier[q] /\ first'[q] = first[q]
                /\ q \in undisturbed' => q \in undisturbed
      BY <2>2 DEF Start, Chosen, Control, given, storeState
    <3>2. HeadIs("env") \/ HeadIs("file") => pc'[r] = "resolve"
      BY <2>2 DEF Start, HeadIs, Control
    <3>3. pc'[r] # "idle"
      BY <2>2 DEF Start, Chosen, Control
    <3>4. \A q \in Runs : pc'[q] = "idle" => next'[q] = 1
      BY <3>1, <3>3 DEF Deciding
    <3>5. HeadIs("env") => \A q \in Runs : IsCI(launch[q]) =>
             /\ pc'[q] = "resolve" => next'[q] = 1
             /\ pc'[q] \in {"build", "live"} => tier'[q] = TierAnonymous
      BY <3>1, <3>2 DEF Deciding
    <3>6. HeadIs("file") => \A q \in Runs :
             q \in undisturbed' /\ q \notin unread' /\ first'[q] \in Tiers =>
                /\ pc'[q] = "resolve" => next'[q] = 1 /\ file' = first'[q]
                /\ pc'[q] \in {"build", "live"} => tier'[q] = first'[q]
      BY <3>1, <3>2 DEF Deciding
    <3>7. QED BY <3>1, <3>4, <3>5, <3>6 DEF Deciding, HeadIs
  <2>3. ASSUME NEW r \in Runs, Ask(r) PROVE Deciding'
    <3>1. /\ UNCHANGED <<setup, launch, first, file, undisturbed>>
          /\ pc[r] = "resolve" /\ pc'[r] # "idle"
          /\ \A q \in Runs : q # r =>
                /\ pc'[q] = pc[q] /\ tier'[q] = tier[q] /\ next'[q] = next[q]
                /\ q \in unread <=> q \in unread'
      BY <2>3 DEF Ask, Chosen, Control, given, storeState
    <3>2. \A q \in Runs : pc'[q] = "idle" => next'[q] = 1
      BY <3>1 DEF Deciding
    <3>3. HeadIs("env") => \A q \in Runs : IsCI(launch[q]) =>
             /\ pc'[q] = "resolve" => next'[q] = 1
             /\ pc'[q] \in {"build", "live"} => tier'[q] = TierAnonymous
      BY <2>3, <3>1, FirstAnswerDecides DEF Deciding, Chosen, Control
    <3>4. HeadIs("file") => \A q \in Runs :
             q \in undisturbed /\ q \notin unread' /\ first[q] \in Tiers =>
                /\ pc'[q] = "resolve" => next'[q] = 1 /\ file = first[q]
                /\ pc'[q] \in {"build", "live"} => tier'[q] = first[q]
      BY <2>3, <3>1, FirstAnswerDecides DEF Deciding, Chosen, Control
    <3>5. QED BY <3>1, <3>2, <3>3, <3>4 DEF Deciding, HeadIs
  <2>4. ASSUME NEW r \in Runs, AskNobody(r) PROVE Deciding'
    <3>1. /\ UNCHANGED <<setup, launch>> /\ ~HeadIs("env") /\ ~HeadIs("file") /\ next' = next
          /\ \A q \in Runs : pc'[q] = "idle" => pc[q] = "idle"
      BY <2>4 DEF AskNobody, Chosen, Control, HeadIs, given
    <3>2. QED BY <3>1 DEF Deciding, HeadIs
  <2>5. ASSUME NEW r \in Runs, Build(r) PROVE Deciding'
    <3>1. /\ UNCHANGED <<setup, file, launch, next, tier, first, unread, undisturbed>>
          /\ pc[r] = "build" /\ pc'[r] \in {"live", "off"}
          /\ \A q \in Runs : q # r => pc'[q] = pc[q]
      BY <2>5 DEF Build, Control, given, storeState
    <3>2. QED BY <3>1 DEF Deciding, HeadIs
  <2>6. ASSUME NEW s \in Stores, NEW t \in Tiers \cup {Invalid}, StoreBegin(s, t) PROVE Deciding'
    BY <2>6 DEF StoreBegin, Deciding, HeadIs, given, runState
  <2>7. ASSUME NEW s \in Stores, StoreTruncate(s) PROVE Deciding'
    BY <2>7 DEF StoreTruncate, Deciding, HeadIs, given, runState
  <2>8. ASSUME NEW s \in Stores, StoreWrite(s) PROVE Deciding'
    BY <2>8 DEF StoreWrite, Deciding, HeadIs, given, runState
  <2>9. ASSUME NEW s \in Stores, StoreFail(s) PROVE Deciding'
    BY <2>9 DEF StoreFail, Deciding, HeadIs, given, runState
  <2>10. ASSUME Terminated \/ UNCHANGED vars PROVE Deciding'
    BY <2>10 DEF Terminated, vars, Deciding, HeadIs, given, runState, storeState
  <2>11. QED BY <2>1, <2>2, <2>3, <2>4, <2>5, <2>6, <2>7, <2>8, <2>9, <2>10 DEF Next
<1>3. QED BY <1>1, <1>2, ControlCorrect, PTL DEF Spec

-----------------------------------------------------------------------------
(* What is built, and for whom.                                            *)

Exporters == {NoExporters} \cup {buildExporters(launch[r]) : r \in Runs}
Resources == [isCI : BOOLEAN, ciProvider : CINames]

\* A run past the start was not told to give up; the exporters of a run are
\* those of its launch, all or none; and its resource is that of its launch.
Built ==
    /\ exporters \in [Runs -> Exporters]
    /\ resource \in [Runs -> Resources]
    /\ \A r \in Runs :
          /\ pc[r] \in {"resolve", "build", "live"} => ~GivesUp(launch[r])
          /\ IF pc[r] = "live" THEN exporters[r] = buildExporters(launch[r])
                                ELSE exporters[r] = NoExporters
          /\ resource[r].isCI => IsCI(launch[r])

\* The two lists of CI variables agree: whatever DetectCI finds, IsCI finds.
LEMMA ListsAgree ==
    ASSUME NEW l
    PROVE  /\ DetectCI(l) \in CINames
           /\ DetectCI(l) # NotInCI => IsCI(l)
<1>1. ASSUME NEW i \in 1..6
      PROVE  CIProviders[i][1] \in ciEnvVars /\ CIProviders[i][2] \in CINames
  <2>1. i = 1 \/ i = 2 \/ i = 3 \/ i = 4 \/ i = 5 \/ i = 6
    OBVIOUS
  <2>2. CIProviders[i][1] \in ciEnvVars
    BY <2>1 DEF CIProviders, ciEnvVars
  <2>3. CIProviders[i][2] \in CINames
    <3>1. Len(CIProviders) = 6
      BY DEF CIProviders
    <3>2. QED BY <3>1 DEF CINames
  <2>4. QED BY <2>2, <2>3
<1>2. Len(CIProviders) = 6
  BY DEF CIProviders
<1>3. CASE Matches(l) = {}
  <2>1. DetectCI(l) = IF IsCI(l) THEN "unknown" ELSE ""
    BY <1>3 DEF DetectCI, NotInCI, CIProviderUnknown
  <2>2. DetectCI(l) \in CINames
    BY <2>1 DEF CINames, CIProviderUnknown, NotInCI
  <2>3. QED BY <2>1, <2>2 DEF NotInCI
<1>4. CASE Matches(l) # {}
  <2>1. PICK i \in 1..6 : i \in Matches(l)
    BY <1>2, <1>4 DEF Matches
  <2>2. IsCI(l)
    BY <1>1, <2>1 DEF Matches, IsCI
  <2> DEFINE least == CHOOSE k \in Matches(l) : \A j \in Matches(l) : k <= j
  <2>3. \E k \in Matches(l) : \A j \in Matches(l) : k <= j
    BY <1>2, <2>1, SMTT(30) DEF Matches
  <2>4. least \in 1..6
    BY <1>2, <2>3 DEF Matches
  <2>5. DetectCI(l) = CIProviders[least][2]
    BY <1>4 DEF DetectCI
  <2>6. QED BY <1>1, <2>2, <2>4, <2>5
<1>5. QED BY <1>3, <1>4

THEOREM BuiltCorrect == Spec => []Built
<1>1. Init => Built
  <2> SUFFICES ASSUME Init PROVE Built
    OBVIOUS
  <2>1. /\ exporters = [r \in Runs |-> NoExporters] /\ pc = [r \in Runs |-> "idle"]
        /\ resource = [r \in Runs |-> [isCI |-> FALSE, ciProvider |-> NotInCI]]
    BY DEF Init
  <2>2. "" \in CINames
    BY DEF CINames, NotInCI
  <2>3. [isCI |-> FALSE, ciProvider |-> NotInCI] \in Resources
    BY <2>2 DEF Resources, NotInCI
  <2>4. resource \in [Runs -> Resources] /\ \A r \in Runs : resource[r].isCI = FALSE
    BY <2>1, <2>3
  <2>5. exporters \in [Runs -> Exporters]
    BY <2>1 DEF Exporters
  <2>6. \A r \in Runs : pc[r] = "idle" /\ exporters[r] = NoExporters
    BY <2>1
  <2>7. QED BY <2>4, <2>5, <2>6 DEF Built
<1>2. Control /\ Built /\ [Next]_vars => Built'
  <2> SUFFICES ASSUME Control, Built, [Next]_vars PROVE Built'
    OBVIOUS
  \* A step that builds nothing, and takes no run past the start that should
  \* have given up.
  <2> DEFINE Advance(q) ==
               \/ pc'[q] = pc[q]
               \/ pc[q] # "live" /\ pc'[q] = "off"
               \/ pc[q] # "live" /\ pc'[q] \in {"resolve", "build"} /\ ~GivesUp(launch[q])
             Harmless ==
               /\ launch' = launch /\ exporters' = exporters /\ resource' = resource
               /\ \A q \in Runs : Advance(q)
  <2>0. Harmless => Built'
    <3> SUFFICES ASSUME Harmless PROVE Built'
      OBVIOUS
    <3>1. /\ exporters' \in [Runs -> Exporters'] /\ resource' \in [Runs -> Resources]
          /\ \A q \in Runs : resource'[q].isCI => IsCI(launch'[q])
      BY DEF Built, Exporters
    <3>2. ASSUME NEW q \in Runs
          PROVE  /\ pc'[q] \in {"resolve", "build", "live"} => ~GivesUp(launch'[q])
                 /\ pc'[q] = "live" <=> pc[q] = "live"
      <4>1. Advance(q)
        OBVIOUS
      <4>2. QED BY <4>1 DEF Built
    <3>3. \A q \in Runs :
             IF pc'[q] = "live" THEN exporters'[q] = buildExporters(launch'[q])
                                ELSE exporters'[q] = NoExporters
      BY <3>2 DEF Built
    <3>4. QED BY <3>1, <3>2, <3>3 DEF Built
  <2> HIDE DEF Advance, Harmless
  <2>1. ASSUME NEW r \in Runs, StartOff(r) PROVE Built'
    <3>1. pc[r] # "live" /\ pc'[r] = "off" /\ \A q \in Runs : q # r => pc'[q] = pc[q]
      BY <2>1 DEF StartOff, Control
    <3>2. QED BY <2>0, <2>1, <3>1 DEF StartOff, given, Harmless, Advance
  <2>2. ASSUME NEW r \in Runs, Start(r) PROVE Built'
    <3>1. pc[r] # "live" /\ pc'[r] \in {"resolve", "build"}
      BY <2>2 DEF Start, Chosen, Control
    <3>2. \A q \in Runs : q # r => pc'[q] = pc[q]
      BY <2>2 DEF Start, Chosen, Control
    <3>3. ~GivesUp(launch[r]) /\ UNCHANGED <<launch, exporters, resource>>
      BY <2>2 DEF Start, given
    <3>4. QED BY <2>0, <3>1, <3>2, <3>3 DEF Harmless, Advance
  <2>3. ASSUME NEW r \in Runs, Ask(r) PROVE Built'
    <3>1. pc[r] = "resolve" /\ UNCHANGED <<launch, exporters, resource>>
      BY <2>3 DEF Ask, given
    <3>2. pc'[r] \in {"resolve", "build", "off"}
      BY <2>3 DEF Ask, Chosen, Control
    <3>3. \A q \in Runs : q # r => pc'[q] = pc[q]
      BY <2>3 DEF Ask, Chosen, Control
    <3>4. ~GivesUp(launch[r])
      BY <3>1 DEF Built
    <3>5. QED BY <2>0, <3>1, <3>2, <3>3, <3>4 DEF Harmless, Advance
  <2>4. ASSUME NEW r \in Runs, AskNobody(r) PROVE Built'
    <3>1. pc[r] = "resolve" /\ UNCHANGED <<launch, exporters, resource>>
      BY <2>4 DEF AskNobody, given
    <3>2. pc'[r] = "build" /\ \A q \in Runs : q # r => pc'[q] = pc[q]
      BY <2>4 DEF AskNobody, Chosen, Control
    <3>3. ~GivesUp(launch[r])
      BY <3>1 DEF Built
    <3>4. QED BY <2>0, <3>1, <3>2, <3>3 DEF Harmless, Advance
  <2>5. ASSUME NEW r \in Runs, Build(r) PROVE Built'
    <3>1. /\ pc[r] = "build" /\ UNCHANGED launch
          /\ \A q \in Runs : q # r => pc'[q] = pc[q]
      BY <2>5 DEF Build, Control, given
    <3>2. CASE pc'[r] = "off" /\ UNCHANGED <<exporters, resource>>
      BY <2>0, <3>1, <3>2 DEF Harmless, Advance
    <3>3. CASE /\ pc'[r] = "live"
               /\ exporters' = [exporters EXCEPT ![r] = buildExporters(launch[r])]
               /\ resource' = [resource EXCEPT ![r] = resourceAttributes(launch[r])]
      <4> DEFINE e == buildExporters(launch[r])
                 a == resourceAttributes(launch[r])
      <4>1. e \in Exporters /\ UNCHANGED Exporters
        BY <3>1 DEF Exporters
      <4>2. a \in Resources /\ (a.isCI => IsCI(launch[r]))
        BY ListsAgree DEF resourceAttributes, Resources
      <4>3. ~GivesUp(launch[r])
        BY <3>1 DEF Built
      <4> HIDE DEF e, a
      <4>4. /\ exporters' \in [Runs -> Exporters] /\ resource' \in [Runs -> Resources]
            /\ exporters'[r] = e /\ resource'[r] = a
            /\ \A q \in Runs : q # r => exporters'[q] = exporters[q] /\ resource'[q] = resource[q]
        BY <3>3, <4>1, <4>2 DEF Built, e, a
      <4>5. exporters'[r] = buildExporters(launch'[r])
        BY <3>1, <4>4 DEF e
      <4>6. \A q \in Runs : q # r =>
               IF pc'[q] = "live" THEN exporters'[q] = buildExporters(launch'[q])
                                  ELSE exporters'[q] = NoExporters
        BY <3>1, <4>4 DEF Built
      <4>7. QED BY <3>1, <3>3, <4>1, <4>2, <4>3, <4>4, <4>5, <4>6 DEF Built
    <3>4. QED
      <4>1. \/ pc' = [pc EXCEPT ![r] = "off"] /\ UNCHANGED <<exporters, resource>>
            \/ /\ pc' = [pc EXCEPT ![r] = "live"]
               /\ exporters' = [exporters EXCEPT ![r] = buildExporters(launch[r])]
               /\ resource' = [resource EXCEPT ![r] = resourceAttributes(launch[r])]
        BY <2>5 DEF Build
      <4>2. \A v : pc' = [pc EXCEPT ![r] = v] => pc'[r] = v
        BY DEF Control
      <4>3. QED BY <3>2, <3>3, <4>1, <4>2
  <2>6. ASSUME NEW s \in Stores, NEW t \in Tiers \cup {Invalid}, StoreBegin(s, t) PROVE Built'
    BY <2>0, <2>6 DEF StoreBegin, given, runState, Harmless, Advance
  <2>7. ASSUME NEW s \in Stores, StoreTruncate(s) PROVE Built'
    BY <2>0, <2>7 DEF StoreTruncate, given, runState, Harmless, Advance
  <2>8. ASSUME NEW s \in Stores, StoreWrite(s) PROVE Built'
    BY <2>0, <2>8 DEF StoreWrite, given, runState, Harmless, Advance
  <2>9. ASSUME NEW s \in Stores, StoreFail(s) PROVE Built'
    BY <2>0, <2>9 DEF StoreFail, given, runState, Harmless, Advance
  <2>10. ASSUME Terminated \/ UNCHANGED vars PROVE Built'
    BY <2>0, <2>10 DEF Terminated, vars, given, runState, Harmless, Advance
  <2>11. QED BY <2>1, <2>2, <2>3, <2>4, <2>5, <2>6, <2>7, <2>8, <2>9, <2>10 DEF Next
<1>3. QED BY <1>1, <1>2, ControlCorrect, PTL DEF Spec

\* AnonymousInCI: with EnvConsentProvider first, no setup, file or default tier
\* gives a run that reports a CI system more than TierAnonymous.
THEOREM CIIsAnonymous == Spec => []AnonymousInCI
<1>1. Deciding /\ Built => AnonymousInCI
  BY DEF Deciding, HeadIs, AnonymousInCI, Built
<1>2. QED BY <1>1, DecidingCorrect, BuiltCorrect, PTL

\* OptOutIsSilent: a run told not to send telemetry asks for no consent and
\* builds no exporter, whatever else it is told.
THEOREM OptOutAsksNothing == Spec => []OptOutIsSilent
<1>1. Control /\ Built => OptOutIsSilent
  <2> SUFFICES ASSUME Control, Built, NEW r \in Runs, ToldNotTo(launch[r])
               PROVE  pc[r] \in {"idle", "off"} /\ exporters[r] = NoExporters
    BY DEF OptOutIsSilent
  <2>1. GivesUp(launch[r])
    BY DEF ToldNotTo, GivesUp, OptedOut, IsDoNotTrackRequested, envTruthy
  <2>2. pc[r] \in {"idle", "off"}
    BY <2>1 DEF Built, Control
  <2>3. QED BY <2>2 DEF Built
<1>2. QED BY <1>1, ControlCorrect, BuiltCorrect, PTL

\* What the options make of an exporter, field by field.
Fields == {"http", "host", "path", "encrypted"}
LEMMA Bare ==
    ASSUME NEW l, NEW s
    PROVE  /\ DOMAIN GRPC(l, s) = Fields /\ DOMAIN HTTP(l, s) = Fields
           /\ GRPC(l, s).http = FALSE /\ HTTP(l, s).http = TRUE
           /\ HTTP(l, s).path = l.ambient[s].path
           /\ GRPC(l, s).encrypted <=> ~l.ambient[s].plaintext
           /\ HTTP(l, s).encrypted <=> ~l.ambient[s].plaintext
<1>1. DOMAIN GRPC(l, s) = Fields
  BY DEF GRPC, Fields
<1>2. GRPC(l, s).http = FALSE
  BY DEF GRPC, Fields
<1>3. GRPC(l, s).encrypted <=> ~l.ambient[s].plaintext
  BY DEF GRPC, Fields
<1>4. DOMAIN HTTP(l, s) = Fields
  BY <1>1 DEF HTTP, Fields
<1>5. HTTP(l, s).http = TRUE
  BY <1>1 DEF HTTP, Fields
<1>6. HTTP(l, s).path = l.ambient[s].path
  BY <1>1 DEF HTTP, Fields
<1>7. HTTP(l, s).encrypted = GRPC(l, s).encrypted
  BY <1>1 DEF HTTP, Fields
<1>8. QED BY <1>1, <1>2, <1>3, <1>4, <1>5, <1>6, <1>7

\* What each of the six functions builds, told as one: the exporter of a signal
\* over a transport, its path below a base URL a word of its own.
Reaches(x, l, signal, http, name) ==
    LET endpoint == Endpoint(l)
        full == hasScheme(endpoint)
    IN
    /\ x.host = endpoint.host /\ x.http = http
    /\ http => x.path = IF full THEN endpoint.path \o <<"v1", name>> ELSE l.ambient[signal].path
    /\ x.encrypted <=> /\ ~l.options.insecure
                       /\ IF full THEN endpoint.scheme = "https" ELSE ~l.ambient[signal].plaintext

\* The steps that the six functions have in common.
Configured(l, x, url) ==
    LET y == IF hasScheme(Endpoint(l)) THEN WithEndpointURL(x, url)
                                       ELSE WithEndpoint(x, Endpoint(l))
    IN  IF l.options.insecure THEN WithInsecure(y) ELSE y

LEMMA ConfiguredReaches ==
    ASSUME NEW l, NEW signal, NEW http, NEW name, NEW url, NEW x,
           DOMAIN x = Fields, x.http = http,
           x.encrypted <=> ~l.ambient[signal].plaintext,
           http => x.path = l.ambient[signal].path,
           url.host = Endpoint(l).host, url.scheme = Endpoint(l).scheme,
           http => url.path = Endpoint(l).path \o <<"v1", name>>
    PROVE  Reaches(Configured(l, x, url), l, signal, http, name)
<1> DEFINE y == IF hasScheme(Endpoint(l)) THEN WithEndpointURL(x, url)
                                          ELSE WithEndpoint(x, Endpoint(l))
<1>1. /\ DOMAIN y = Fields /\ y.host = Endpoint(l).host /\ y.http = http
      /\ http => y.path = IF hasScheme(Endpoint(l)) THEN Endpoint(l).path \o <<"v1", name>>
                                                     ELSE l.ambient[signal].path
      /\ y.encrypted <=> IF hasScheme(Endpoint(l)) THEN Endpoint(l).scheme = "https"
                                                    ELSE ~l.ambient[signal].plaintext
  <2>1. CASE hasScheme(Endpoint(l))
    <3>1. y = WithEndpointURL(x, url)
      BY <2>1
    <3> HIDE DEF y
    <3>2. DOMAIN y = Fields /\ y.host = Endpoint(l).host /\ y.http = http
      BY <3>1 DEF WithEndpointURL, Fields
    <3>3. http => y.path = Endpoint(l).path \o <<"v1", name>>
      BY <3>1 DEF WithEndpointURL, Fields
    <3>4. y.encrypted <=> Endpoint(l).scheme = "https"
      BY <3>1 DEF WithEndpointURL, Fields
    <3>5. QED BY <2>1, <3>2, <3>3, <3>4
  <2>2. CASE ~hasScheme(Endpoint(l))
    <3>1. y = WithEndpoint(x, Endpoint(l))
      BY <2>2
    <3> HIDE DEF y
    <3>2. DOMAIN y = Fields /\ y.host = Endpoint(l).host /\ y.http = http
      BY <3>1 DEF WithEndpoint, Fields
    <3>3. http => y.path = l.ambient[signal].path
      BY <3>1 DEF WithEndpoint, Fields
    <3>4. y.encrypted <=> ~l.ambient[signal].plaintext
      BY <3>1 DEF WithEndpoint, Fields
    <3>5. QED BY <2>2, <3>2, <3>3, <3>4
  <2>3. QED BY <2>1, <2>2
<1>2. Configured(l, x, url) = IF l.options.insecure THEN WithInsecure(y) ELSE y
  BY DEF Configured
<1> HIDE DEF y
<1>3. /\ WithInsecure(y).host = y.host /\ WithInsecure(y).http = y.http
      /\ WithInsecure(y).path = y.path /\ ~WithInsecure(y).encrypted
  BY <1>1 DEF WithInsecure, Fields
<1>4. QED BY <1>1, <1>2, <1>3 DEF Reaches

LEMMA OverGRPC ==
    ASSUME NEW l
    PROVE  /\ Reaches(newTraceExporterGRPC(l), l, "trace", FALSE, "traces")
           /\ Reaches(newMetricExporterGRPC(l), l, "metric", FALSE, "metrics")
           /\ Reaches(newLogExporterGRPC(l), l, "log", FALSE, "logs")
<1>1. ASSUME NEW s, NEW name
      PROVE  Reaches(Configured(l, GRPC(l, s), Endpoint(l)), l, s, FALSE, name)
  BY Bare, ConfiguredReaches
<1>2. QED BY <1>1 DEF Configured, newTraceExporterGRPC, newMetricExporterGRPC, newLogExporterGRPC

LEMMA OverHTTP ==
    ASSUME NEW l \in Launches
    PROVE  /\ Reaches(newTraceExporterHTTP(l), l, "trace", TRUE, "traces")
           /\ Reaches(newMetricExporterHTTP(l), l, "metric", TRUE, "metrics")
           /\ Reaches(newLogExporterHTTP(l), l, "log", TRUE, "logs")
<1>1. Endpoint(l) \in Endpoints
  BY LaunchesAssumption DEF Endpoint, Options
<1>2. ASSUME NEW name
      PROVE  /\ Below(Endpoint(l), name).host = Endpoint(l).host
             /\ Below(Endpoint(l), name).scheme = Endpoint(l).scheme
             /\ Below(Endpoint(l), name).path = Endpoint(l).path \o <<"v1", name>>
  BY <1>1 DEF Below, Endpoints
<1>3. ASSUME NEW s, NEW name
      PROVE  Reaches(Configured(l, HTTP(l, s), Below(Endpoint(l), name)), l, s, TRUE, name)
  BY <1>2, Bare, ConfiguredReaches
<1>4. QED BY <1>3 DEF Configured, newTraceExporterHTTP, newMetricExporterHTTP, newLogExporterHTTP

\* The exporter of each signal, over the transport of the launch.
SignalName == [trace |-> "traces", metric |-> "metrics", log |-> "logs"]

LEMMA ExportersReach ==
    ASSUME NEW l \in Launches, NEW s \in Signals
    PROVE  Reaches(buildExporters(l)[s], l, s, l.options.useHTTP, SignalName[s])
<1>1. l.options.useHTTP = TRUE \/ l.options.useHTTP = FALSE
  BY LaunchesAssumption DEF Options
<1>2. SignalName["trace"] = "traces" /\ SignalName["metric"] = "metrics" /\ SignalName["log"] = "logs"
  BY DEF SignalName
<1>3. CASE l.options.useHTTP = TRUE
  <2>1. /\ buildExporters(l)["trace"] = newTraceExporterHTTP(l)
        /\ buildExporters(l)["metric"] = newMetricExporterHTTP(l)
        /\ buildExporters(l)["log"] = newLogExporterHTTP(l)
    BY <1>3 DEF buildExporters
  <2>2. CASE s = "trace"
    BY <1>2, <1>3, <2>1, <2>2, OverHTTP
  <2>3. CASE s = "metric"
    BY <1>2, <1>3, <2>1, <2>3, OverHTTP
  <2>4. CASE s = "log"
    BY <1>2, <1>3, <2>1, <2>4, OverHTTP
  <2>5. QED BY <2>2, <2>3, <2>4 DEF Signals
<1>4. CASE l.options.useHTTP = FALSE
  <2>1. /\ buildExporters(l)["trace"] = newTraceExporterGRPC(l)
        /\ buildExporters(l)["metric"] = newMetricExporterGRPC(l)
        /\ buildExporters(l)["log"] = newLogExporterGRPC(l)
    BY <1>4 DEF buildExporters
  <2>2. CASE s = "trace"
    BY <1>2, <1>4, <2>1, <2>2, OverGRPC
  <2>3. CASE s = "metric"
    BY <1>2, <1>4, <2>1, <2>3, OverGRPC
  <2>4. CASE s = "log"
    BY <1>2, <1>4, <2>1, <2>4, OverGRPC
  <2>5. QED BY <2>2, <2>3, <2>4 DEF Signals
<1>5. QED BY <1>1, <1>3, <1>4

\* Below one base URL, no two signals share a path: they differ in the last
\* segment.
LEMMA PathsDiffer ==
    ASSUME NEW base \in Seq(STRING), NEW s \in Signals, NEW t \in Signals, s # t
    PROVE  base \o <<"v1", SignalName[s]>> # base \o <<"v1", SignalName[t]>>
<1> DEFINE Path(w) == <<"v1", w>>
           Words == STRING \cup {"v1", "traces", "metrics", "logs"}
<1>1. /\ SignalName["trace"] = "traces" /\ SignalName["metric"] = "metrics" /\ SignalName["log"] = "logs"
  BY DEF SignalName
<1>2. SignalName[s] # SignalName[t] /\ SignalName[s] \in Words /\ SignalName[t] \in Words
  BY <1>1 DEF Signals
<1>3. "v1" \in Words
  OBVIOUS
<1>4. base \in Seq(Words) /\ Len(base) \in Nat
  BY SeqMonotonic
<1> HIDE DEF Words
<1>5. ASSUME NEW w \in Words PROVE Path(w) \in Seq(Words) /\ Len(Path(w)) = 2 /\ Path(w)[2] = w
  <2>1. \A u, v \in Words : <<u, v>> \in Seq(Words) /\ Len(<<u, v>>) = 2 /\ <<u, v>>[2] = v
    OBVIOUS
  <2>2. QED BY <1>3, <2>1
<1> HIDE DEF Path
<1>6. ASSUME NEW w \in Words PROVE (base \o Path(w))[Len(base) + 2] = w
  BY <1>4, <1>5, ConcatProperties
<1>7. base \o Path(SignalName[s]) # base \o Path(SignalName[t])
  BY <1>2, <1>6
<1>8. QED BY <1>7 DEF Path

\* OneCollector: the exporters of a live client reach the collector that the
\* vendor named or left to the environment, and leave to the variables of a
\* signal only what an endpoint without a scheme does not say.
THEOREM CollectorIsOne == Spec => []OneCollector
<1>1. ASSUME Control, Built, NEW r \in Runs, pc[r] = "live"
      PROVE  LET options == launch[r].options
                 named == IF options.endpoint.host # "" THEN options.endpoint ELSE launch[r].otel
                 full == named.scheme # ""
             IN
             /\ options.endpoint.host = "" => ~options.disableOTELEnvFallback
             /\ \A s \in Signals :
                   LET x == exporters[r][s]
                       ambient == launch[r].ambient[s]
                   IN
                   /\ x.host = named.host /\ x.host # "" /\ x.http = options.useHTTP
                   /\ x.http => x.path = IF full THEN named.path \o OTLPPath[s] ELSE ambient.path
                   /\ x.encrypted <=> /\ ~options.insecure
                                      /\ IF full THEN named.scheme = "https" ELSE ~ambient.plaintext
             /\ options.useHTTP /\ full =>
                   \A s, t \in Signals : exporters[r][s] = exporters[r][t] => s = t
  <2> DEFINE l == launch[r]
             named == IF l.options.endpoint.host # "" THEN l.options.endpoint ELSE l.otel
  <2>1. l \in Launches /\ l.options \in Options /\ l.otel \in Endpoints
    BY <1>1, LaunchesAssumption DEF Control
  <2>2. exporters[r] = buildExporters(l) /\ ~GivesUp(l)
    BY <1>1 DEF Built
  <2>3. Endpoint(l).host # ""
    BY <2>2 DEF GivesUp
  <2>4. named = Endpoint(l) /\ (l.options.endpoint.host = "" => ~l.options.disableOTELEnvFallback)
    BY <2>3 DEF Endpoint
  <2>5. named \in Endpoints
    <3>1. l.options.endpoint \in Endpoints
      BY <2>1 DEF Options
    <3>2. QED BY <2>1, <3>1
  <2>6. /\ hasScheme(named) <=> named.scheme # ""
        /\ named.path \in Seq(STRING)
        /\ l.options.useHTTP \in BOOLEAN
    <3> HIDE DEF named
    <3>1. QED BY <2>1, <2>5 DEF Options, Endpoints, Schemes, hasScheme
  <2>7. \A s \in Signals : OTLPPath[s] = <<"v1", SignalName[s]>>
    <3>1. /\ SignalName["trace"] = "traces" /\ SignalName["metric"] = "metrics"
          /\ SignalName["log"] = "logs"
      BY DEF SignalName
    <3>2. /\ OTLPPath["trace"] = <<"v1", "traces">> /\ OTLPPath["metric"] = <<"v1", "metrics">>
          /\ OTLPPath["log"] = <<"v1", "logs">>
      BY DEF OTLPPath
    <3>3. QED BY <3>1, <3>2 DEF Signals
  <2>8. \A s \in Signals : Reaches(exporters[r][s], l, s, l.options.useHTTP, SignalName[s])
    BY <2>1, <2>2, ExportersReach
  <2> HIDE DEF named, l
  <2>9. ASSUME NEW s \in Signals
        PROVE  LET x == exporters[r][s] IN
               /\ x.host = named.host /\ x.host # "" /\ x.http = l.options.useHTTP
               /\ x.http => x.path = IF named.scheme # "" THEN named.path \o OTLPPath[s]
                                                          ELSE l.ambient[s].path
               /\ x.encrypted <=>
                     /\ ~l.options.insecure
                     /\ IF named.scheme # "" THEN named.scheme = "https"
                                              ELSE ~l.ambient[s].plaintext
    <3>1. Reaches(exporters[r][s], l, s, l.options.useHTTP, SignalName[s])
      BY <2>8
    <3>2. OTLPPath[s] = <<"v1", SignalName[s]>>
      BY <2>7
    <3>3. Endpoint(l) = named /\ named.host # "" /\ (hasScheme(named) <=> named.scheme # "")
      BY <2>3, <2>4, <2>6
    <3>4. QED BY <3>1, <3>2, <3>3 DEF Reaches
  <2>10. ASSUME l.options.useHTTP, named.scheme # "", NEW s \in Signals, NEW t \in Signals, s # t
         PROVE  exporters[r][s] # exporters[r][t]
    <3>1. /\ exporters[r][s].path = named.path \o <<"v1", SignalName[s]>>
          /\ exporters[r][t].path = named.path \o <<"v1", SignalName[t]>>
      BY <2>6, <2>7, <2>9, <2>10
    <3>2. QED BY <2>6, <2>10, <3>1, PathsDiffer
  <2>11. QED BY <2>4, <2>9, <2>10 DEF named, l
<1>2. Control /\ Built => OneCollector
  BY <1>1 DEF OneCollector
<1>3. QED BY <1>2, ControlCorrect, BuiltCorrect, PTL

\* StoredTierIsUsed: a run that could read the file, and that no Store
\* disturbed, uses the stored tier when the file comes first.
THEOREM StoredIsUsed == Spec => []StoredTierIsUsed
<1>1. Control /\ Deciding => StoredTierIsUsed
  <2> SUFFICES ASSUME Deciding, NEW r \in undisturbed, r \notin unread, r \in Runs,
                      pc[r] = "live", first[r] \in Tiers, HeadIs("file")
               PROVE  tier[r] = first[r]
    BY DEF StoredTierIsUsed, HeadIs, Control
  <2>1. QED BY DEF Deciding
<1>2. QED BY <1>1, DecidingCorrect, ControlCorrect, PTL

-----------------------------------------------------------------------------
\* The rest of TypeOK: the counters and sets that decide nothing.
Bookkeeping ==
    /\ setup \in Setups /\ defaultTier \in DefaultTiers
    /\ size \in Nat
    /\ unread \in SUBSET Runs

THEOREM BookkeepingCorrect == Spec => []Bookkeeping
<1>1. Init => Bookkeeping
  BY DEF Init, Bookkeeping
<1>2. Control /\ Bookkeeping /\ [Next]_vars => Bookkeeping'
  <2> SUFFICES ASSUME Control, Bookkeeping, [Next]_vars PROVE Bookkeeping'
    OBVIOUS
  <2> USE DEF Bookkeeping, given, runState, storeState
  <2>1. ASSUME NEW r \in Runs, StartOff(r) PROVE Bookkeeping'
    BY <2>1 DEF StartOff
  <2>2. ASSUME NEW r \in Runs, Start(r) PROVE Bookkeeping'
    BY <2>2 DEF Start
  <2>3. ASSUME NEW r \in Runs, Ask(r) PROVE Bookkeeping'
    <3>1. UNCHANGED <<setup, defaultTier, size>>
      BY <2>3 DEF Ask
    <3>2. unread' \in {unread, unread \cup {r}}
      BY <2>3 DEF Ask
    <3>3. QED BY <3>1, <3>2
  <2>4. ASSUME NEW r \in Runs, AskNobody(r) PROVE Bookkeeping'
    BY <2>4 DEF AskNobody
  <2>5. ASSUME NEW r \in Runs, Build(r) PROVE Bookkeeping'
    BY <2>5 DEF Build
  <2>6. ASSUME NEW s \in Stores, NEW t \in Tiers \cup {Invalid}, StoreBegin(s, t) PROVE Bookkeeping'
    BY <2>6 DEF StoreBegin
  <2>7. ASSUME NEW s \in Stores, StoreTruncate(s) PROVE Bookkeeping'
    BY <2>7 DEF StoreTruncate
  <2>8. ASSUME NEW s \in Stores, StoreWrite(s) PROVE Bookkeeping'
    <3>1. stored[s] \in 0..3
      BY <2>8 DEF StoreWrite, Control, Tiers, TierAnonymous, TierOptIn
    <3>2. Width(stored[s]) \in Nat
      BY <3>1 DEF Width
    <3>3. QED BY <2>8, <3>2 DEF StoreWrite
  <2>9. ASSUME NEW s \in Stores, StoreFail(s) PROVE Bookkeeping'
    BY <2>9 DEF StoreFail
  <2>10. ASSUME Terminated \/ UNCHANGED vars PROVE Bookkeeping'
    BY <2>10 DEF Terminated, vars
  <2>11. QED BY <2>1, <2>2, <2>3, <2>4, <2>5, <2>6, <2>7, <2>8, <2>9, <2>10 DEF Next
<1>3. QED BY <1>1, <1>2, ControlCorrect, PTL DEF Spec

\* TypeOK: every variable keeps its type; a run is at one of five points of New
\* and a Store writes one of the four tiers.
THEOREM TypeCorrect == Spec => []TypeOK
<1>1. Control /\ Built /\ Bookkeeping => TypeOK
  <2> SUFFICES ASSUME Control, Built, Bookkeeping PROVE TypeOK
    OBVIOUS
  <2>1. \A r \in Runs : exporters[r] \in {NoExporters, buildExporters(launch[r])}
    BY DEF Built
  <2>2. \A r \in Runs : resource[r] \in [isCI : BOOLEAN, ciProvider : CINames]
    BY DEF Built, Resources
  <2>3. QED BY <2>1, <2>2 DEF Control, Bookkeeping, TypeOK
<1>2. QED BY <1>1, ControlCorrect, BuiltCorrect, BookkeepingCorrect, PTL
=============================================================================
