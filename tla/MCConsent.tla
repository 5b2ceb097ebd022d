----------------------------- MODULE MCConsent ------------------------------
(* Consent for TLC: the setups that the documents recommend, and the ones  *)
(* that they warn about.                                                   *)
EXTENDS Consent, TLC

Provider(kind) == [kind |-> kind]
Static(t) == [kind |-> "static", tier |-> t]
Chain(providers) == [chained |-> TRUE, providers |-> providers]
Single(provider) == [chained |-> FALSE, providers |-> <<provider>>]

DocumentedSetups ==
    {[chained |-> FALSE, providers |-> <<>>], Chain(<<>>),
     Single(Provider("file")), Single(Static(2)), Single(Static(Invalid)),
     Single(Provider("disabled")), Single(Provider("custom")),
     Chain(<<Provider("env"), Provider("file")>>),
     Chain(<<Provider("file"), Static(1)>>),
     Chain(<<Provider("env"), Provider("nil"), Provider("file"), Static(1)>>),
     Chain(<<Provider("custom"), Provider("file")>>)}

Default == [disabled |-> FALSE, panics |-> FALSE, endpoint |-> NoEndpoint,
            disableOTELEnvFallback |-> FALSE, useHTTP |-> FALSE, insecure |-> FALSE]

Bare == [scheme |-> "", host |-> "collector", path |-> <<>>]
URL(scheme, host, path) == [scheme |-> scheme, host |-> host, path |-> path]
HTTPS == URL("https", "collector", <<"otlp">>)

\* Without variables for one signal, the endpoint of all of them counts.
FromEnv(otel) ==
    [s \in Signals |->
        [host |-> otel.host, path |-> otel.path \o OTLPPath[s], plaintext |-> otel.scheme = "http"]]

Launch(options, environ, otel) ==
    [options |-> options, environ |-> environ, otel |-> otel, ambient |-> FromEnv(otel)]

Nothing == [v \in {} |-> ""]
Agent == URL("http", "agent", <<"all">>)

\* Starts of the CLI that get a client: over both transports, to a bare host
\* and to URLs, in the clear or not, with the collector of the environment and
\* against it, with variables for one signal, in CI systems with a name and
\* without one, and with variables that look like an opt-out or a CI system
\* and are not.
WantedLaunches ==
    {Launch([Default EXCEPT !.endpoint = Bare, !.disableOTELEnvFallback = TRUE],
            [GITHUB_ACTIONS |-> "true", CI |-> "true"], Agent),
     [Launch([Default EXCEPT !.endpoint = Bare, !.useHTTP = TRUE], Nothing, HTTPS)
        EXCEPT !.ambient["metric"] = [host |-> "meter", path |-> <<>>, plaintext |-> TRUE]],
     Launch([Default EXCEPT !.endpoint = HTTPS, !.useHTTP = TRUE],
            [TEAMCITY_VERSION |-> "2026", DO_NOT_TRACK |-> "0"], Agent),
     Launch([Default EXCEPT !.endpoint = HTTPS, !.insecure = TRUE],
            [CI |-> "false", GITHUB_ACTIONS |-> "0", ARGVIO_DISABLED |-> "true"], NoEndpoint),
     Launch([Default EXCEPT !.useHTTP = TRUE], [BUILDKITE |-> "true"], Agent)}

\* Starts that get a disabled one.
UnwantedLaunches ==
    {Launch([Default EXCEPT !.endpoint = Bare, !.disabled = TRUE], Nothing, NoEndpoint),
     Launch([Default EXCEPT !.endpoint = Bare], [ARGVIO_DISABLED |-> "1"], NoEndpoint),
     Launch([Default EXCEPT !.endpoint = Bare], [DO_NOT_TRACK |-> "yes", CI |-> "1"], NoEndpoint),
     Launch([Default EXCEPT !.endpoint = Bare, !.panics = TRUE], Nothing, NoEndpoint),
     Launch([Default EXCEPT !.disableOTELEnvFallback = TRUE], Nothing, HTTPS)}

EveryLaunch == WantedLaunches \cup UnwantedLaunches

RunSymmetry == Permutations(Runs) \cup Permutations(Stores)
=============================================================================
