------------------------------ MODULE Consent -------------------------------
(***************************************************************************)
(* How New starts a run of the CLI (client.go): it gives up, or resolves   *)
(* the consent tier (consent.go, consent_file.go, consent_env.go) and      *)
(* builds the exporters (otlp.go), while the user's changes of consent     *)
(* (FileConsentProvider.Store) rewrite the file that other runs are        *)
(* reading: os.WriteFile truncates first and writes second.                *)
(*                                                                         *)
(* A provider is a record; a "custom" one is the vendor's own and may give *)
(* any answer, a tier out of range or a panic included.  Every run of one  *)
(* CLI is built with the same providers and default tier.                  *)
(***************************************************************************)
EXTENDS Integers, Sequences, NewConfig

CONSTANTS
    Runs,     \* calls of New, each in a process of its own
    Stores,   \* calls of Store
    Setups,   \* what WithConsentProvider may be given (a set of setups)
    DefaultTiers, \* what WithDefaultTier may be given
    Absent,   \* no consent file
    Damaged   \* a file that holds no tier: truncated, half-written, edited

TierAnonymous == 0
TierOptIn == 3
Tiers == TierAnonymous..TierOptIn
Invalid == TierOptIn + 1    \* a Tier value that is not one of the four
Errored == TierOptIn + 2    \* Resolve returned an error
Panicked == TierOptIn + 3   \* Resolve panicked
Answers == Tiers \cup {Invalid, Errored, Panicked}

Providers ==
    [kind : {"env", "file", "disabled", "nil", "custom"}]
    \cup [kind : {"static"}, tier : Tiers \cup {Invalid}]

\* A setup is a chain, or one provider given to New directly, or none.
AllSetups == [chained : BOOLEAN, providers : Seq(Providers)]

ASSUME SetupsAssumption ==
    /\ Setups \subseteq AllSetups
    /\ \A s \in Setups : ~s.chained => Len(s.providers) <= 1
    /\ DefaultTiers \subseteq Tiers

ASSUME ValuesAssumption ==
    Absent \notin Tiers /\ Damaged \notin Tiers /\ Absent # Damaged

\* The length of the wire name of a tier: anonymous, basic, full, optin_plus.
Width(t) == <<9, 5, 4, 10>>[t + 1]

VARIABLES
    setup,        \* the providers of this CLI
    defaultTier,  \* WithDefaultTier
    launch,       \* the options and the environment of each run
    file,         \* the content of the consent file
    size,         \* the length of what was written since it was last truncated
    pc, next,     \* where each run is, and the provider it asks next
    tier,         \* the tier each run has resolved
    exporters,    \* the exporters of each run
    resource,     \* the resource attributes of each run
    storing, stored, \* where each Store is, and the tier it stores
    (* history *)
    granted,      \* the tiers that have been in the file since a run began
    undisturbed,  \* the runs whose file was whole from their start on
    first,        \* the content of the file when each run began
    unread        \* the runs that failed to read a whole file

given == <<setup, defaultTier, launch>>
runState == <<pc, next, tier, exporters, resource, first, unread>>
storeState == <<storing, stored, file, size>>
vars == <<given, runState, storeState, granted, undisturbed>>

\* A run that has built nothing.
NoExporters == [s \in {} |-> s]

TypeOK ==
    /\ setup \in Setups /\ defaultTier \in DefaultTiers
    /\ file \in Tiers \cup {Absent, Damaged}
    /\ size \in Nat
    /\ pc \in [Runs -> {"idle", "resolve", "build", "live", "off"}]
    /\ next \in [Runs -> Nat \ {0}]
    /\ launch \in [Runs -> Launches]
    /\ tier \in [Runs -> Tiers]
    /\ \A r \in Runs : exporters[r] \in {NoExporters, buildExporters(launch[r])}
    /\ \A r \in Runs : resource[r] \in [isCI : BOOLEAN, ciProvider : CINames]
    /\ storing \in [Stores -> {"idle", "open", "write", "stored", "failed", "dead"}]
    /\ stored \in [Stores -> Tiers \cup {Invalid}]
    /\ granted \in [Runs -> SUBSET Tiers]
    /\ undisturbed \in SUBSET Runs
    /\ first \in [Runs -> Tiers \cup {Absent, Damaged}]
    /\ unread \in SUBSET Runs

Init ==
    /\ setup \in Setups /\ defaultTier \in DefaultTiers /\ launch \in [Runs -> Launches]
    /\ file \in Tiers \cup {Absent, Damaged} /\ size = 0
    /\ pc = [r \in Runs |-> "idle"] /\ next = [r \in Runs |-> 1]
    /\ tier = [r \in Runs |-> TierAnonymous]
    /\ exporters = [r \in Runs |-> NoExporters]
    /\ resource = [r \in Runs |-> [isCI |-> FALSE, ciProvider |-> NotInCI]]
    /\ storing = [s \in Stores |-> "idle"] /\ stored = [s \in Stores |-> TierAnonymous]
    /\ granted = [r \in Runs |-> {}] /\ undisturbed = {}
    /\ first = [r \in Runs |-> Absent]
    /\ unread = {}

-----------------------------------------------------------------------------
(* New.                                                                    *)

Chosen(r, t) ==
    /\ pc' = [pc EXCEPT ![r] = "build"]
    /\ tier' = [tier EXCEPT ![r] = t]

\* New returns a disabled client before any provider is asked.
StartOff(r) ==
    /\ pc[r] = "idle" /\ GivesUp(launch[r])
    /\ pc' = [pc EXCEPT ![r] = "off"]
    /\ UNCHANGED <<given, next, tier, exporters, resource, first, unread>>
    /\ UNCHANGED <<storeState, granted, undisturbed>>

\* The providers are about to be asked in turn; without a provider the default
\* tier is used.
Start(r) ==
    /\ pc[r] = "idle" /\ ~GivesUp(launch[r])
    /\ IF setup.providers = <<>> /\ ~setup.chained
         THEN Chosen(r, defaultTier)
         ELSE pc' = [pc EXCEPT ![r] = "resolve"] /\ UNCHANGED tier
    /\ granted' = [granted EXCEPT ![r] = {file} \cap Tiers]
    /\ first' = [first EXCEPT ![r] = file]
    /\ undisturbed' = undisturbed \cup {r}
    /\ UNCHANGED <<given, next, exporters, resource, unread, storeState>>

(* What each provider may answer to a run.                                 *)

EnvAnswers(r) == IF IsCI(launch[r]) THEN {TierAnonymous} ELSE {Errored}

\* A whole file gives its tier, unless it cannot be read; any other is an error.
FileAnswers == IF file \in Tiers THEN {file, Errored} ELSE {Errored}

StaticAnswers(p) == {IF p.tier \in Tiers THEN p.tier ELSE TierAnonymous}

AnswersOf(r, p) ==
    CASE p.kind = "env" -> EnvAnswers(r)
      [] p.kind = "file" -> FileAnswers
      [] p.kind = "static" -> StaticAnswers(p)
      [] p.kind = "disabled" -> {TierAnonymous}
      [] p.kind = "nil" -> {Errored}
      [] p.kind = "custom" -> Answers

Asked(r) == setup.providers[next[r]]

\* A chain passes over the providers that are nil or return an error.
MorePending(r) == setup.chained /\ next[r] < Len(setup.providers)

\* A plausible bug: the chain does not stop at the first tier it is given.
Mut_Ask(r) ==
    /\ pc[r] = "resolve" /\ next[r] <= Len(setup.providers)
    /\ \E answer \in AnswersOf(r, Asked(r)) :
          /\ IF MorePending(r)
               THEN next' = [next EXCEPT ![r] = @ + 1] /\ UNCHANGED <<pc, tier>>
               ELSE /\ Chosen(r, IF answer \in Tiers THEN answer ELSE defaultTier)
                    /\ UNCHANGED next
          /\ unread' = IF Asked(r).kind = "file" /\ file \in Tiers /\ answer = Errored
                         THEN unread \cup {r} ELSE unread
    /\ UNCHANGED <<given, exporters, resource, first, storeState, granted, undisturbed>>

\* A plausible bug: a tier out of range is used as it is, and so allows
\* everything.
MutRaw_Ask(r) ==
    /\ pc[r] = "resolve" /\ next[r] <= Len(setup.providers)
    /\ \E answer \in AnswersOf(r, Asked(r)) :
          /\ Chosen(r, IF answer \in Tiers \cup {Invalid} THEN answer ELSE defaultTier)
          /\ UNCHANGED next
          /\ unread' = IF Asked(r).kind = "file" /\ file \in Tiers /\ answer = Errored
                         THEN unread \cup {r} ELSE unread
    /\ UNCHANGED <<given, exporters, resource, first, storeState, granted, undisturbed>>

Ask(r) ==
    /\ pc[r] = "resolve" /\ next[r] <= Len(setup.providers)
    /\ \E answer \in AnswersOf(r, Asked(r)) :
          /\ \/ /\ answer \in Tiers
                /\ Chosen(r, answer)
                /\ UNCHANGED next
             \/ /\ answer = Errored /\ MorePending(r)
                /\ next' = [next EXCEPT ![r] = @ + 1]
                /\ UNCHANGED <<pc, tier>>
             \/ \* the chain is exhausted, has recovered a panic or has
                \* passed on a tier out of range: the default tier
                /\ \/ answer = Errored /\ ~MorePending(r)
                   \/ answer = Invalid
                   \/ answer = Panicked /\ setup.chained
                /\ Chosen(r, defaultTier)
                /\ UNCHANGED next
             \/ \* New recovers the panic: a disabled client
                /\ answer = Panicked /\ ~setup.chained
                /\ pc' = [pc EXCEPT ![r] = "off"]
                /\ UNCHANGED <<next, tier>>
          /\ unread' = IF Asked(r).kind = "file" /\ file \in Tiers /\ answer = Errored
                         THEN unread \cup {r} ELSE unread
    /\ UNCHANGED <<given, exporters, resource, first, storeState, granted, undisturbed>>

\* A chain of no provider is an error.
AskNobody(r) ==
    /\ pc[r] = "resolve" /\ setup.providers = <<>>
    /\ Chosen(r, defaultTier)
    /\ UNCHANGED <<given, next, exporters, resource, first, unread, storeState, granted, undisturbed>>

\* The resource is described and the exporters are built: all of them, or the
\* client is disabled.  The worker of a live client starts last.
Build(r) ==
    /\ pc[r] = "build"
    /\ \/ /\ pc' = [pc EXCEPT ![r] = "live"]
          /\ exporters' = [exporters EXCEPT ![r] = buildExporters(launch[r])]
          /\ resource' = [resource EXCEPT ![r] = resourceAttributes(launch[r])]
       \/ \* an exporter cannot be built, or panics
          /\ pc' = [pc EXCEPT ![r] = "off"]
          /\ UNCHANGED <<exporters, resource>>
    /\ UNCHANGED <<given, next, tier, first, unread>>
    /\ UNCHANGED <<storeState, granted, undisturbed>>

-----------------------------------------------------------------------------
(* Store.                                                                  *)

StoreBegin(s, t) ==
    /\ storing[s] = "idle"
    /\ stored' = [stored EXCEPT ![s] = t]
    /\ storing' = [storing EXCEPT ![s] = IF t \in Tiers THEN "open" ELSE "failed"]
    /\ UNCHANGED <<given, runState, file, size, granted, undisturbed>>

StoreTruncate(s) ==
    /\ storing[s] = "open"
    /\ storing' = [storing EXCEPT ![s] = "write"]
    /\ file' = Damaged
    /\ size' = 0
    /\ undisturbed' = {}
    /\ UNCHANGED <<given, runState, stored, granted>>

\* The tier is written from the start of the file.  If another Store has
\* written a longer one since this one truncated it, its tail stays behind
\* and the file is no JSON any more.
StoreWrite(s) ==
    /\ storing[s] = "write"
    /\ storing' = [storing EXCEPT ![s] = "stored"]
    /\ file' = IF size > Width(stored[s]) THEN Damaged ELSE stored[s]
    /\ size' = IF size > Width(stored[s]) THEN size ELSE Width(stored[s])
    /\ granted' = [r \in Runs |-> granted[r] \cup ({file'} \cap Tiers)]
    /\ undisturbed' = {}
    /\ UNCHANGED <<given, runState, stored>>

\* MkdirAll, the open or the write fails and is reported, or the process dies.
StoreFail(s) ==
    /\ storing[s] \in {"open", "write"}
    /\ \E end \in {"failed", "dead"} : storing' = [storing EXCEPT ![s] = end]
    /\ UNCHANGED <<given, runState, stored, file, size, granted, undisturbed>>

-----------------------------------------------------------------------------
Terminated ==
    /\ \A r \in Runs : pc[r] \in {"live", "off"}
    /\ \A s \in Stores : storing[s] \in {"stored", "failed", "dead"}
    /\ UNCHANGED vars

Next ==
    \/ \E r \in Runs : StartOff(r) \/ Start(r) \/ Ask(r) \/ AskNobody(r) \/ Build(r)
    \/ \E s \in Stores :
          \/ \E t \in Tiers \cup {Invalid} : StoreBegin(s, t)
          \/ StoreTruncate(s) \/ StoreWrite(s) \/ StoreFail(s)
    \/ Terminated

Spec == Init /\ [][Next]_vars

-----------------------------------------------------------------------------
Has(kind) == \E i \in 1..Len(setup.providers) : setup.providers[i].kind = kind

\* The tiers that a run may lawfully get: the default, what the vendor wired
\* in, and what was in the file while it ran.
Lawful(r) ==
    {defaultTier}
    \cup {setup.providers[i].tier : i \in {j \in 1..Len(setup.providers) :
                                            setup.providers[j].kind = "static"}}
    \cup (IF Has("file") THEN granted[r] ELSE {})
    \cup (IF Has("custom") THEN Tiers ELSE {})

\* A live client never has a tier that nobody chose, above Anonymous: neither
\* an error, a tier out of range nor a file caught half-written by a
\* concurrent Store escalates it (docs/consent.md, "no code path that
\* re-escalates").
NeverEscalates ==
    \A r \in Runs : pc[r] = "live" => tier[r] \in Lawful(r) \cup {TierAnonymous}

\* With EnvConsentProvider first, a run whose records say that they come from
\* CI is anonymous whatever the file, the default and the other providers say
\* (consent_env.go:57): the variables that DetectCI knows and those that IsCI
\* knows, two lists in two files, must agree.
AnonymousInCI ==
    \A r \in Runs :
        /\ pc[r] = "live" /\ resource[r].isCI
        /\ setup.providers # <<>> /\ setup.providers[1].kind = "env"
        => tier[r] = TierAnonymous

\* What the user stored is what the next runs use: with the file first in the
\* chain, a run during which no Store touched the file, and that could read
\* it, resolves to its tier.
StoredTierIsUsed ==
    \A r \in undisturbed \ unread :
        /\ pc[r] = "live" /\ first[r] \in Tiers
        /\ setup.providers # <<>> /\ setup.providers[1].kind = "file"
        => tier[r] = first[r]

\* A run that is told not to send telemetry, by WithDisabled, ARGVIO_DISABLED=1
\* or DO_NOT_TRACK (options.go:143), asks no provider for consent and builds no
\* exporter.
ToldNotTo(l) ==
    \/ l.options.disabled
    \/ Getenv(l, "ARGVIO_DISABLED") = "1"
    \/ Getenv(l, "DO_NOT_TRACK") \notin {"", "0", "false"}

OptOutIsSilent ==
    \A r \in Runs :
        ToldNotTo(launch[r]) => pc[r] \in {"idle", "off"} /\ exporters[r] = NoExporters

\* The path of each signal below a base URL.
OTLPPath ==
    [trace |-> <<"v1", "traces">>, metric |-> <<"v1", "metrics">>, log |-> <<"v1", "logs">>]

\* The three exporters of a live client come from six functions written apart
\* (otlp.go:73).  All of them reach the collector that the vendor names or,
\* where it allows that and names none, the environment does, whatever the
\* variables of one signal say.  A URL says how: at a path for each signal, and
\* in the clear if it is http.  A bare host leaves both to the environment, as
\* options.go:84 says; WithInsecure has the last word.
OneCollector ==
    \A r \in Runs : pc[r] = "live" =>
        LET options == launch[r].options
            named == IF options.endpoint.host # "" THEN options.endpoint ELSE launch[r].otel
            full == named.scheme # ""
        IN
        /\ options.endpoint.host = "" => ~options.disableOTELEnvFallback
        /\ \A s \in Signals :
              LET x == exporters[r][s]
                  ambient == launch[r].ambient[s]
              IN
              /\ x.host = named.host /\ x.host # "" /\ x.http = options.useHTTP
              /\ x.http => x.path = IF full THEN named.path \o OTLPPath[s] ELSE ambient.path
              /\ x.encrypted <=> /\ ~options.insecure
                                 /\ IF full THEN named.scheme = "https" ELSE ~ambient.plaintext
        /\ options.useHTTP /\ full =>
              \A s, t \in Signals : exporters[r][s] = exporters[r][t] => s = t
====
