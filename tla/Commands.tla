------------------------------ MODULE Commands ------------------------------
(***************************************************************************)
(* The commands of the two programs, up to the point where their work      *)
(* begins: flags and environment, client configuration, and then the HTTP  *)
(* endpoint and the informer of the controller or the directories of the   *)
(* kubelet plugin (main.go of both).                                       *)
(*                                                                         *)
(* The value of a flag is the sequence of its path segments, or of its one *)
(* word; <<>> is the empty string.  A pod's command line and environment   *)
(* never change; which configurations and paths are usable is up to the    *)
(* pod's surroundings.                                                     *)
(***************************************************************************)
EXTENDS Sequences, Integers

CONSTANTS
  CommandLines,   \* the flags that are given, with their values
  Environments    \* the variables that are set and not empty, by flag

ControllerFlags ==
  [f \in {"kubeconfig", "kube-api-qps", "http-endpoint", "metrics-path", "pprof-path"} |->
     CASE f = "kube-api-qps" -> <<"5">>
       [] f = "metrics-path" -> <<"metrics">>
       [] OTHER              -> <<>>]

PluginFlags ==
  [f \in {"kubeconfig", "kube-api-qps", "cdi-root"} |->
     CASE f = "kube-api-qps" -> <<"5">>
       [] f = "cdi-root"     -> <<"etc", "cdi">>
       [] OTHER              -> <<>>]

\* The flags of each program, with their defaults.
Defaults == [controller |-> ControllerFlags, kubeletplugin |-> PluginFlags]

InCluster == <<>>
Unread == [source |-> <<"unread">>, qps |-> <<>>]

VARIABLES
  program,     \* which of the programs this is
  arguments,   \* its command line
  environ,     \* its environment
  usable,      \* the kubeconfigs, or InCluster, that give a client configuration
  cdiRoot,     \* what there is at the path of the CDI root
  pc,          \* where NewCommand's functions are
  value,       \* value[f]: the value of flag f
  config,      \* config[client]: the configuration of a client
  mux,         \* mux[path]: what the HTTP endpoint serves there
  server,      \* the HTTP server
  exit         \* the exit code, -1 before the end

pod == <<program, arguments, environ, usable>>
vars == <<pod, cdiRoot, pc, value, config, mux, server, exit>>

Init ==
  /\ program \in DOMAIN Defaults
  /\ arguments \in {a \in CommandLines : DOMAIN a \subseteq DOMAIN Defaults[program]}
  /\ environ \in {e \in Environments : DOMAIN e \subseteq DOMAIN Defaults[program]}
  /\ usable \in SUBSET {InCluster, <<"given">>, <<"set">>}
  /\ cdiRoot \in {"missing", "directory", "file", "hidden"}
  /\ pc = "parse"
  /\ value = Defaults[program]
  /\ config = [client \in {"core", "dynamic", "shake"} |-> Unread]
  /\ mux = [path \in {} |-> path]
  /\ server = "none"
  /\ exit = -1

Goto(from, to) ==
  /\ pc = from
  /\ pc' = to

\* The process ends, the HTTP server with it.
End(code) ==
  /\ pc' = "exited"
  /\ exit' = code
  /\ server' = "none"
  /\ UNCHANGED <<pod, cdiRoot, value, config, mux>>

\* cli.Run turns an error of the controller's command into exit code 1.
ControllerError == program = "controller" /\ End(1)

\* The plugin's main prints the error and returns.
PluginError == program = "kubeletplugin" /\ End(0)

Error == ControllerError \/ PluginError

-----------------------------------------------------------------------------
(***************************************************************************)
(* Flags and client configuration, the same code in both programs.         *)
(***************************************************************************)

\* Every string is a path or an address, not every string is a number.
Parses(f, v) == f = "kube-api-qps" => v # <<"many">>

Parse ==
  /\ Goto("parse", "prerun")
  /\ \A f \in DOMAIN arguments : Parses(f, arguments[f])
  /\ value' = [f \in DOMAIN value |->
                 IF f \in DOMAIN arguments THEN arguments[f] ELSE value[f]]
  /\ UNCHANGED <<pod, cdiRoot, config, mux, server, exit>>

\* Mutant: a flag that was given is overwritten, too.
BindAlways ==
  [f \in DOMAIN value |->
     IF f \in DOMAIN environ /\ Parses(f, environ[f]) THEN environ[f] ELSE value[f]]

\* viper: a variable is the value of a flag that was not given; one that does
\* not parse is logged and leaves the flag as it is.
Bind ==
  [f \in DOMAIN value |->
     IF f \in DOMAIN environ \ DOMAIN arguments /\ Parses(f, environ[f])
     THEN environ[f] ELSE value[f]]

\* PersistentPreRunE; the logging configuration may be refused.
PreRun ==
  \/ /\ Goto("prerun", "config")
     /\ value' = Bind
     /\ UNCHANGED <<pod, cdiRoot, config, mux, server, exit>>
  \/ /\ pc = "prerun"
     /\ Error

\* The variable KUBECONFIG goes before the flag, and is put in its place.
Kubeconfig == IF "kubeconfig" \in DOMAIN environ THEN environ["kubeconfig"] ELSE value["kubeconfig"]

ReadConfig(clients, from, to) ==
  \/ /\ Goto(from, to)
     /\ Kubeconfig \in usable
     /\ value' = [value EXCEPT !["kubeconfig"] = Kubeconfig]
     /\ config' = [c \in DOMAIN config |->
                     IF c \in clients THEN [source |-> Kubeconfig, qps |-> value["kube-api-qps"]]
                     ELSE config[c]]
     /\ UNCHANGED <<pod, cdiRoot, mux, server, exit>>
  \/ /\ pc = from
     /\ Kubeconfig \notin usable
     /\ Error

\* Mutant: the flag's value at this point, with no look at KUBECONFIG.
ClusterConfigFromFlag ==
  /\ program = "controller"
  /\ Goto("config", "endpoint")
  /\ value["kubeconfig"] \in usable
  /\ config' = [c \in DOMAIN config |->
                  IF c = "dynamic" THEN config[c]
                  ELSE [source |-> value["kubeconfig"], qps |-> value["kube-api-qps"]]]
  /\ UNCHANGED <<pod, cdiRoot, value, mux, server, exit>>

\* The controller's clients, for the core API and its own.
ClusterConfig == program = "controller" /\ ReadConfig({"core", "shake"}, "config", "endpoint")

\* The plugin's client, which is used for nothing.
ClientsetConfig == program = "kubeletplugin" /\ ReadConfig({"shake"}, "config", "directories")

-----------------------------------------------------------------------------
(***************************************************************************)
(* The controller: HTTP endpoint and informer.                             *)
(***************************************************************************)

ProfilePaths ==
  LET p == value["pprof-path"] IN
  IF p = <<>> THEN {} ELSE {p} \cup {Append(p, s) : s \in {"cmdline", "profile", "symbol", "trace"}}
MetricsPaths == {value["metrics-path"]} \ {<<>>}

Handlers ==
  [path \in MetricsPaths \cup ProfilePaths |->
     IF path \in MetricsPaths THEN "metrics" ELSE "profile"]

\* Mutant: a listener that fails is only logged.
EndpointLogged ==
  /\ Goto("endpoint", "generator")
  /\ \/ server' = "none" /\ UNCHANGED mux
     \/ /\ value["http-endpoint"] # <<>>
        /\ MetricsPaths \cap ProfilePaths = {}
        /\ mux' = Handlers
        /\ server' = "serving"
  /\ UNCHANGED <<pod, cdiRoot, value, config, exit>>

\* SetupHTTPEndpoint: a path that is registered twice panics, the listener may
\* fail, and the server runs in a goroutine of its own.
Endpoint ==
  \/ /\ Goto("endpoint", "generator")
     /\ value["http-endpoint"] = <<>>
     /\ UNCHANGED <<pod, cdiRoot, value, config, mux, server, exit>>
  \/ /\ Goto("endpoint", "generator")
     /\ value["http-endpoint"] # <<>>
     /\ MetricsPaths \cap ProfilePaths = {}
     /\ mux' = Handlers
     /\ server' = "serving"
     /\ UNCHANGED <<pod, cdiRoot, value, config, exit>>
  \/ /\ pc = "endpoint"
     /\ value["http-endpoint"] # <<>>
     /\ IF MetricsPaths \cap ProfilePaths # {} THEN End(2) ELSE ControllerError

\* StartClaimParametersGenerator reads the configuration again, for the dynamic
\* client, and runs the informer: the context is never cancelled.
Generator == program = "controller" /\ ReadConfig({"dynamic"}, "generator", "informer")

ServerFails ==
  /\ server = "serving"
  /\ server' = "failed"
  /\ UNCHANGED <<pod, cdiRoot, pc, value, config, mux, exit>>

\* Mutant: the goroutine of the server returns.
ServerReturns ==
  /\ server = "failed"
  /\ server' = "none"
  /\ UNCHANGED <<pod, cdiRoot, pc, value, config, mux, exit>>

\* The goroutine of the server: klog.FlushAndExit, whatever else is going on.
FlushAndExit ==
  /\ server = "failed"
  /\ End(1)

-----------------------------------------------------------------------------
(***************************************************************************)
(* The kubelet plugin: its directories, before NewDriver.                  *)
(***************************************************************************)

Directories ==
  \/ /\ Goto("directories", "driver")
     /\ cdiRoot \in {"missing", "directory"}
     /\ cdiRoot' = "directory"
     /\ UNCHANGED <<pod, value, config, mux, server, exit>>
  \/ /\ pc = "directories"
     /\ PluginError

\* No signal is handled here.
Kill ==
  /\ pc # "exited"
  /\ End(143)

-----------------------------------------------------------------------------
\* RunE of the controller and of the plugin.
ControllerRun == ClusterConfig \/ Endpoint \/ Generator
PluginRun == ClientsetConfig \/ Directories

Step == Parse \/ PreRun \/ ControllerRun \/ PluginRun

Next == Step \/ ServerFails \/ FlushAndExit \/ Kill

Spec == Init /\ [][Next]_vars

\* The goroutines run; nothing has to fail.
FairSpec == Spec /\ WF_vars(Step) /\ WF_vars(FlushAndExit)

-----------------------------------------------------------------------------
(***************************************************************************)
(* Properties.                                                             *)
(***************************************************************************)

\* The flag that a program works with is the one given, or the variable's value
\* if that is one, or the default; for the kubeconfig alone the variable goes
\* before the flag (main.go:85-92, 190-194 of the controller).
Wanted(f) ==
  LET set == {v \in {environ[f] : g \in {f} \cap DOMAIN environ} : Parses(f, v)}
      given == {arguments[f] : g \in {f} \cap DOMAIN arguments}
      first == IF f = "kubeconfig" THEN set ELSE given
  IN  IF first # {} THEN first
      ELSE IF set \cup given # {} THEN set \cup given
      ELSE {Defaults[program][f]}

AtWork == pc \in {"generator", "informer", "driver"}
EffectiveValues == AtWork => \A f \in DOMAIN value : value[f] \in Wanted(f)

\* The controller reads its configuration twice, once for the client it writes
\* with and once for the informer: both are clients of one cluster, at the same
\* rate (main.go:186-213, claimparametersgen.go:90-117).
OneCluster == pc = "informer" => config["core"] = config["dynamic"]

\* A program works only as it was asked to: with an endpoint that serves metrics
\* and profile, each at its path, and with a directory for the spec files.
WorksAsAsked ==
  /\ pc \in {"generator", "informer"} /\ value["http-endpoint"] # <<>> =>
       /\ server \in {"serving", "failed"}
       /\ \A path \in MetricsPaths : mux[path] = "metrics"
       /\ \A path \in ProfilePaths : mux[path] = "profile"
  /\ pc = "driver" => cdiRoot = "directory"

\* A controller whose HTTP server has failed does not go on without it, and
\* its end is seen as a failure (main.go:251-258).
FailedServerEnds == server = "failed" ~> pc = "exited" /\ exit # 0
=============================================================================
