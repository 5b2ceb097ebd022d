----------------------------- MODULE NewConfig ------------------------------
(***************************************************************************)
(* What New derives from the vendor's options and from the environment of  *)
(* the process, apart from the consent tier: whether the client is wanted  *)
(* at all, the collector and the three exporters that reach it, and the CI *)
(* system that the resource reports (client.go, options.go, otlp.go,       *)
(* ci.go, consent_env.go).                                                 *)
(*                                                                         *)
(* A launch is one start of the CLI.  Its environ holds the variables that *)
(* are set, its otel what OTEL_EXPORTER_OTLP_ENDPOINT holds, and its       *)
(* ambient what that variable, its variants for one signal and the         *)
(* INSECURE ones make of an exporter that is told nothing: any of it, for  *)
(* each signal on its own.  An endpoint is cut into its parts; a path is a *)
(* sequence of segments.                                                   *)
(***************************************************************************)
EXTENDS Integers, Sequences

CONSTANT Launches

Schemes == {"", "http", "https"}
Endpoints == [scheme : Schemes, host : STRING, path : Seq(STRING)]

\* No WithEndpoint, or an unset variable.
NoEndpoint == [scheme |-> "", host |-> "", path |-> <<>>]

Options == [disabled : BOOLEAN, panics : BOOLEAN, endpoint : Endpoints,
            disableOTELEnvFallback : BOOLEAN, useHTTP : BOOLEAN, insecure : BOOLEAN]

Signals == {"trace", "metric", "log"}

Ambient == [host : STRING, path : Seq(STRING), plaintext : BOOLEAN]

ASSUME LaunchesAssumption ==
    \A l \in Launches :
        /\ l.options \in Options /\ l.otel \in Endpoints
        /\ l.ambient \in [Signals -> Ambient]
        /\ \A v \in DOMAIN l.environ : l.environ[v] \in STRING

-----------------------------------------------------------------------------
(* The environment.                                                        *)

Getenv(l, v) == IF v \in DOMAIN l.environ THEN l.environ[v] ELSE ""

envTruthy(l, v) == Getenv(l, v) \notin {"", "false", "0"}

ciEnvVars ==
    {"CI", "CONTINUOUS_INTEGRATION", "GITHUB_ACTIONS", "GITLAB_CI", "CIRCLECI", "TRAVIS",
     "JENKINS_URL", "BUILDKITE", "TEAMCITY_VERSION", "APPVEYOR", "TF_BUILD", "DRONE",
     "CODEBUILD_BUILD_ID", "BITBUCKET_BUILD_NUMBER"}

\* A plausible bug: only the variable that most CI systems set is looked at.
Mut_IsCI(l) == envTruthy(l, "CI")

IsCI(l) == \E v \in ciEnvVars : envTruthy(l, v)

\* The providers that are told apart, in the order of the switch.
CIProviders ==
    << <<"GITHUB_ACTIONS", "github_actions">>, <<"GITLAB_CI", "gitlab_ci">>,
       <<"CIRCLECI", "circleci">>, <<"BUILDKITE", "buildkite">>,
       <<"JENKINS_URL", "jenkins">>, <<"TRAVIS", "travis">> >>

CIProviderUnknown == "unknown"
NotInCI == ""
CINames == {CIProviders[i][2] : i \in 1..Len(CIProviders)} \cup {CIProviderUnknown, NotInCI}

Matches(l) == {i \in 1..Len(CIProviders) : envTruthy(l, CIProviders[i][1])}

DetectCI(l) ==
    IF Matches(l) # {}
      THEN CIProviders[CHOOSE i \in Matches(l) : \A j \in Matches(l) : i <= j][2]
      ELSE IF IsCI(l) THEN CIProviderUnknown ELSE NotInCI

resourceAttributes(l) == [isCI |-> DetectCI(l) # NotInCI, ciProvider |-> DetectCI(l)]

IsDoNotTrackRequested(l) == envTruthy(l, "DO_NOT_TRACK")

\* A plausible bug: the opt-out of the whole environment is not asked for.
Mut_OptedOut(l) == l.options.disabled \/ Getenv(l, "ARGVIO_DISABLED") = "1"

OptedOut(l) ==
    l.options.disabled \/ Getenv(l, "ARGVIO_DISABLED") = "1" \/ IsDoNotTrackRequested(l)

-----------------------------------------------------------------------------
(* The collector and its exporters.                                        *)

Endpoint(l) ==
    IF l.options.endpoint.host = "" /\ ~l.options.disableOTELEnvFallback
      THEN l.otel ELSE l.options.endpoint

hasScheme(endpoint) == endpoint.scheme \in {"http", "https"}

\* The exporters of the OTel SDK before any option: what the environment makes
\* of them.  A path is a part of an address over HTTP only.
GRPC(l, signal) ==
    [http |-> FALSE, host |-> l.ambient[signal].host, path |-> <<>>,
     encrypted |-> ~l.ambient[signal].plaintext]

HTTP(l, signal) == [GRPC(l, signal) EXCEPT !.http = TRUE, !.path = l.ambient[signal].path]

\* Their options.  A URL says everything; an endpoint without a scheme leaves
\* the path and the encryption to the environment.
WithEndpointURL(x, url) ==
    [x EXCEPT !.host = url.host, !.encrypted = url.scheme = "https",
              !.path = IF x.http THEN url.path ELSE @]
WithEndpoint(x, endpoint) == [x EXCEPT !.host = endpoint.host]
WithInsecure(x) == [x EXCEPT !.encrypted = FALSE]

Below(url, name) == [url EXCEPT !.path = @ \o <<"v1", name>>]

newTraceExporterGRPC(l) ==
    LET x == IF hasScheme(Endpoint(l))
               THEN WithEndpointURL(GRPC(l, "trace"), Endpoint(l))
               ELSE WithEndpoint(GRPC(l, "trace"), Endpoint(l))
    IN  IF l.options.insecure THEN WithInsecure(x) ELSE x

newTraceExporterHTTP(l) ==
    LET x == IF hasScheme(Endpoint(l))
               THEN WithEndpointURL(HTTP(l, "trace"), Below(Endpoint(l), "traces"))
               ELSE WithEndpoint(HTTP(l, "trace"), Endpoint(l))
    IN  IF l.options.insecure THEN WithInsecure(x) ELSE x

newMetricExporterGRPC(l) ==
    LET x == IF hasScheme(Endpoint(l))
               THEN WithEndpointURL(GRPC(l, "metric"), Endpoint(l))
               ELSE WithEndpoint(GRPC(l, "metric"), Endpoint(l))
    IN  IF l.options.insecure THEN WithInsecure(x) ELSE x

newMetricExporterHTTP(l) ==
    LET x == IF hasScheme(Endpoint(l))
               THEN WithEndpointURL(HTTP(l, "metric"), Below(Endpoint(l), "metrics"))
               ELSE WithEndpoint(HTTP(l, "metric"), Endpoint(l))
    IN  IF l.options.insecure THEN WithInsecure(x) ELSE x

newLogExporterGRPC(l) ==
    LET x == IF hasScheme(Endpoint(l))
               THEN WithEndpointURL(GRPC(l, "log"), Endpoint(l))
               ELSE WithEndpoint(GRPC(l, "log"), Endpoint(l))
    IN  IF l.options.insecure THEN WithInsecure(x) ELSE x

\* A plausible bug: the path is copied from the exporter above.
Mut_newLogExporterHTTP(l) ==
    LET x == IF hasScheme(Endpoint(l))
               THEN WithEndpointURL(HTTP(l, "log"), Below(Endpoint(l), "metrics"))
               ELSE WithEndpoint(HTTP(l, "log"), Endpoint(l))
    IN  IF l.options.insecure THEN WithInsecure(x) ELSE x

newLogExporterHTTP(l) ==
    LET x == IF hasScheme(Endpoint(l))
               THEN WithEndpointURL(HTTP(l, "log"), Below(Endpoint(l), "logs"))
               ELSE WithEndpoint(HTTP(l, "log"), Endpoint(l))
    IN  IF l.options.insecure THEN WithInsecure(x) ELSE x

buildExporters(l) ==
    IF l.options.useHTTP
      THEN [trace |-> newTraceExporterHTTP(l), metric |-> newMetricExporterHTTP(l),
            log |-> newLogExporterHTTP(l)]
      ELSE [trace |-> newTraceExporterGRPC(l), metric |-> newMetricExporterGRPC(l),
            log |-> newLogExporterGRPC(l)]

\* New gives up before it asks for consent: an option of the vendor's panics,
\* the client is not wanted, or there is no collector.
GivesUp(l) == l.options.panics \/ OptedOut(l) \/ Endpoint(l).host = ""
=============================================================================
