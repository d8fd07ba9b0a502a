---------------------------- MODULE CommandsProofs ----------------------------
(***************************************************************************)
(* Theorems about Commands, for every command line and environment.        *)
(***************************************************************************)
EXTENDS Commands, TLAPS

-----------------------------------------------------------------------------
(***************************************************************************)
(* The invariant, by how far the command is.                               *)
(***************************************************************************)

\* The pod fits the program, and the program keeps its flags.
PodInv ==
  /\ program \in DOMAIN Defaults
  /\ DOMAIN arguments \subseteq DOMAIN Defaults[program]
  /\ DOMAIN environ \subseteq DOMAIN Defaults[program]
  /\ DOMAIN value = DOMAIN Defaults[program]
  /\ DOMAIN config = {"core", "dynamic", "shake"}

Bound == pc \in {"config", "endpoint", "directories", "generator", "informer", "driver"}

\* Flags are at their defaults, then as they were given, then as they are
\* wanted, but for the kubeconfig, which the first configuration puts right.
FlagInv ==
  /\ pc = "parse" => value = Defaults[program]
  /\ pc = "prerun" => \A f \in DOMAIN value :
       value[f] = IF f \in DOMAIN arguments THEN arguments[f] ELSE Defaults[program][f]
  /\ Bound => /\ \A f \in DOMAIN value \ {"kubeconfig"} : value[f] \in Wanted(f)
              /\ Kubeconfig \in Wanted("kubeconfig")
  /\ Bound /\ pc # "config" => value["kubeconfig"] = Kubeconfig

\* A client's configuration comes from the kubeconfig and the rate that the
\* flags have for the rest of the run.
Effective == [source |-> Kubeconfig, qps |-> value["kube-api-qps"]]
ClientInv ==
  /\ pc \in {"endpoint", "generator", "informer"} => config["core"] = Effective
  /\ pc = "informer" => config["dynamic"] = Effective

CommandInv == PodInv /\ FlagInv /\ ClientInv /\ WorksAsAsked

-----------------------------------------------------------------------------
\* Both programs have a kubeconfig and a rate.
LEMMA CommonFlags ==
  ASSUME NEW p \in DOMAIN Defaults
  PROVE  "kubeconfig" \in DOMAIN Defaults[p] /\ "kube-api-qps" \in DOMAIN Defaults[p]
<1>1. p = "controller" \/ p = "kubeletplugin"
  BY DEF Defaults
<1>2. CASE p = "controller"
  BY <1>2 DEF Defaults, ControllerFlags
<1>3. CASE p = "kubeletplugin"
  BY <1>3 DEF Defaults, PluginFlags
<1> QED
  BY <1>1, <1>2, <1>3

\* The controller has the flags of its endpoint.
LEMMA EndpointFlags ==
  {"http-endpoint", "metrics-path", "pprof-path"} \subseteq DOMAIN Defaults["controller"]
BY DEF Defaults, ControllerFlags

\* The end of a command leaves nothing to be said.
LEMMA EndStep ==
  ASSUME CommandInv, NEW code, End(code)
  PROVE  CommandInv'
BY DEF CommandInv, PodInv, FlagInv, ClientInv, WorksAsAsked, Bound, End, pod

\* The flags that were given replace the defaults.
LEMMA ParseStep ==
  ASSUME CommandInv, Parse
  PROVE  CommandInv'
BY DEF CommandInv, PodInv, FlagInv, ClientInv, WorksAsAsked, Bound, Parse, Goto, pod

\* What is wanted of a flag depends on the pod alone.
LEMMA WantedStays ==
  ASSUME UNCHANGED pod, NEW f
  PROVE  Wanted(f)' = Wanted(f)
BY DEF Wanted, pod

\* What binding makes of a flag is wanted, and so is the kubeconfig.
LEMMA BoundIsWanted ==
  ASSUME CommandInv, pc = "prerun"
  PROVE  /\ \A f \in DOMAIN value \ {"kubeconfig"} : Bind[f] \in Wanted(f)
         /\ IF "kubeconfig" \in DOMAIN environ
            THEN environ["kubeconfig"] \in Wanted("kubeconfig")
            ELSE Bind["kubeconfig"] \in Wanted("kubeconfig")
<1>1. \A f \in DOMAIN value :
        value[f] = IF f \in DOMAIN arguments THEN arguments[f] ELSE Defaults[program][f]
  BY DEF CommandInv, FlagInv
<1>2. ASSUME NEW f \in DOMAIN value, f # "kubeconfig"
      PROVE  Bind[f] \in Wanted(f)
  <2>1. CASE f \in DOMAIN arguments
    <3>1. Bind[f] = arguments[f]
      BY <1>1, <2>1 DEF Bind
    <3>2. Wanted(f) = {arguments[f]}
      BY <1>2, <2>1 DEF Wanted
    <3> QED
      BY <3>1, <3>2
  <2>2. CASE f \notin DOMAIN arguments /\ f \in DOMAIN environ /\ Parses(f, environ[f])
    <3>1. Bind[f] = environ[f]
      BY <2>2 DEF Bind
    <3>2. Wanted(f) = {environ[f]}
      BY <1>2, <2>2 DEF Wanted
    <3> QED
      BY <3>1, <3>2
  <2>3. CASE f \notin DOMAIN arguments /\ ~(f \in DOMAIN environ /\ Parses(f, environ[f]))
    <3>1. Bind[f] = Defaults[program][f]
      BY <1>1, <2>3 DEF Bind
    <3>2. Wanted(f) = {Defaults[program][f]}
      BY <1>2, <2>3 DEF Wanted
    <3> QED
      BY <3>1, <3>2
  <2> QED
    BY <2>1, <2>2, <2>3
<1>3. "kubeconfig" \in DOMAIN value
  BY CommonFlags DEF CommandInv, PodInv
<1>4. CASE "kubeconfig" \in DOMAIN environ
  BY <1>2, <1>4 DEF Wanted, Parses
<1>5. CASE "kubeconfig" \notin DOMAIN environ /\ "kubeconfig" \in DOMAIN arguments
  <2>1. Bind["kubeconfig"] = arguments["kubeconfig"]
    BY <1>1, <1>3, <1>5 DEF Bind
  <2>2. Wanted("kubeconfig") = {arguments["kubeconfig"]}
    BY <1>5 DEF Wanted
  <2> QED
    BY <1>2, <1>5, <2>1, <2>2
<1>6. CASE "kubeconfig" \notin DOMAIN environ /\ "kubeconfig" \notin DOMAIN arguments
  <2>1. Bind["kubeconfig"] = Defaults[program]["kubeconfig"]
    BY <1>1, <1>3, <1>6 DEF Bind
  <2>2. Wanted("kubeconfig") = {Defaults[program]["kubeconfig"]}
    BY <1>6 DEF Wanted
  <2> QED
    BY <1>2, <1>6, <2>1, <2>2
<1> QED
  BY <1>2, <1>4, <1>5, <1>6

\* After binding, every flag is as it is wanted.
LEMMA PreRunStep ==
  ASSUME CommandInv, PreRun
  PROVE  CommandInv'
<1>1. CASE Error
  BY <1>1, EndStep DEF Error, ControllerError, PluginError
<1>2. CASE /\ pc = "prerun" /\ pc' = "config" /\ value' = Bind
           /\ UNCHANGED <<pod, cdiRoot, config, mux, server, exit>>
  <2>1. UNCHANGED pod /\ \A f : Wanted(f)' = Wanted(f)
    BY <1>2, WantedStays
  <2>2. PodInv'
    BY <1>2 DEF CommandInv, PodInv, Bind, pod
  <2>3. \A f \in DOMAIN value' \ {"kubeconfig"} : value'[f] \in Wanted(f)'
    <3>1. DOMAIN value' = DOMAIN value
      BY <1>2 DEF Bind
    <3> QED
      BY <1>2, <2>1, <3>1, BoundIsWanted
  <2>4. Kubeconfig' \in Wanted("kubeconfig")'
    BY <1>2, <2>1, BoundIsWanted DEF Kubeconfig, pod
  <2>5. FlagInv'
    BY <1>2, <2>3, <2>4 DEF FlagInv, Bound
  <2>6. ClientInv' /\ WorksAsAsked'
    BY <1>2 DEF ClientInv, WorksAsAsked
  <2> QED
    BY <2>2, <2>5, <2>6 DEF CommandInv
<1> QED
  BY <1>1, <1>2 DEF PreRun, Goto

\* A configuration that is read leaves the kubeconfig that counts as it was,
\* and is what the flags say; a second one agrees with the first.
LEMMA ReadStep ==
  ASSUME CommandInv, NEW clients, NEW from, NEW to,
         ReadConfig(clients, from, to), from \in {"config", "generator"},
         \/ clients = {"core", "shake"} /\ from = "config" /\ to = "endpoint"
         \/ clients = {"shake"} /\ from = "config" /\ to = "directories"
         \/ clients = {"dynamic"} /\ from = "generator" /\ to = "informer"
            /\ program = "controller"
  PROVE  CommandInv'
<1>1. CASE Error
  BY <1>1, EndStep DEF Error, ControllerError, PluginError
<1>2. CASE /\ Goto(from, to)
           /\ value' = [value EXCEPT !["kubeconfig"] = Kubeconfig]
           /\ config' = [c \in DOMAIN config |->
                           IF c \in clients
                           THEN [source |-> Kubeconfig, qps |-> value["kube-api-qps"]]
                           ELSE config[c]]
           /\ UNCHANGED <<pod, cdiRoot, mux, server, exit>>
  <2>1. UNCHANGED pod /\ \A f : Wanted(f)' = Wanted(f)
    BY <1>2, WantedStays
  <2>2. PodInv'
    BY <1>2 DEF CommandInv, PodInv, pod
  <2>3. "kubeconfig" \in DOMAIN value /\ "kube-api-qps" \in DOMAIN value
    BY CommonFlags DEF CommandInv, PodInv
  <2>4. /\ DOMAIN value' = DOMAIN value
        /\ value'["kubeconfig"] = Kubeconfig
        /\ \A f \in DOMAIN value \ {"kubeconfig"} : value'[f] = value[f]
    BY <1>2, <2>3
  <2>5. Kubeconfig' = Kubeconfig
    BY <1>2, <2>4 DEF Kubeconfig, pod
  <2>6. Bound
    BY <1>2 DEF Bound, Goto
  <2>7. FlagInv'
    <3>1. \A f \in DOMAIN value' \ {"kubeconfig"} : value'[f] \in Wanted(f)'
      BY <2>1, <2>4, <2>6 DEF CommandInv, FlagInv
    <3>2. Kubeconfig' \in Wanted("kubeconfig")'
      BY <2>1, <2>5, <2>6 DEF CommandInv, FlagInv
    <3>3. pc' \notin {"parse", "prerun"}
      BY <1>2 DEF Goto
    <3> QED
      BY <2>4, <2>5, <3>1, <3>2, <3>3 DEF FlagInv
  <2>8. Effective' = Effective
    BY <2>3, <2>4, <2>5 DEF Effective
  <2>9. ClientInv'
    <3>1. DOMAIN config = {"core", "dynamic", "shake"}
      BY DEF CommandInv, PodInv
    <3>2. CASE clients = {"core", "shake"} /\ to = "endpoint"
      <4>1. config'["core"] = Effective /\ pc' = "endpoint"
        BY <1>2, <3>1, <3>2 DEF Effective, Goto
      <4> QED
        BY <2>8, <4>1 DEF ClientInv
    <3>3. CASE clients = {"shake"} /\ to = "directories"
      BY <1>2, <3>3 DEF ClientInv, Goto
    <3>4. CASE clients = {"dynamic"} /\ from = "generator" /\ to = "informer"
      <4>1. config["core"] = Effective
        BY <1>2, <3>4 DEF CommandInv, ClientInv, Goto
      <4>2. config'["core"] = config["core"] /\ config'["dynamic"] = Effective
        BY <1>2, <3>1, <3>4 DEF Effective
      <4> QED
        BY <2>8, <4>1, <4>2 DEF ClientInv
    <3> QED
      BY <3>2, <3>3, <3>4
  <2>10. WorksAsAsked'
    <3>1. CASE to \in {"endpoint", "directories"}
      BY <1>2, <3>1 DEF WorksAsAsked, Goto
    <3>2. CASE from = "generator" /\ to = "informer" /\ program = "controller"
      <4>1. {"http-endpoint", "metrics-path", "pprof-path"} \subseteq DOMAIN value
        BY <3>2, EndpointFlags DEF CommandInv, PodInv
      <4>2. /\ value'["http-endpoint"] = value["http-endpoint"]
            /\ value'["metrics-path"] = value["metrics-path"]
            /\ value'["pprof-path"] = value["pprof-path"]
        BY <2>4, <4>1
      <4>3. MetricsPaths' = MetricsPaths /\ ProfilePaths' = ProfilePaths
        BY <4>2 DEF MetricsPaths, ProfilePaths
      <4> QED
        BY <1>2, <3>2, <4>2, <4>3 DEF CommandInv, WorksAsAsked, Goto
    <3> QED
      BY <3>1, <3>2
  <2> QED
    BY <2>2, <2>7, <2>9, <2>10 DEF CommandInv
<1> QED
  BY <1>1, <1>2 DEF ReadConfig

\* An endpoint that is asked for serves what it is asked to serve.
LEMMA EndpointStep ==
  ASSUME CommandInv, Endpoint
  PROVE  CommandInv'
<1>1. CASE \E code : End(code)
  BY <1>1, EndStep
<1>2. CASE /\ Goto("endpoint", "generator")
           /\ UNCHANGED <<pod, cdiRoot, value, config, exit>>
           /\ \/ value["http-endpoint"] = <<>>
              \/ /\ MetricsPaths \cap ProfilePaths = {}
                 /\ mux' = Handlers
                 /\ server' = "serving"
  <2>1. UNCHANGED pod /\ \A f : Wanted(f)' = Wanted(f)
    BY <1>2, WantedStays
  <2>2. PodInv'
    BY <1>2 DEF CommandInv, PodInv, pod
  <2>3. Kubeconfig' = Kubeconfig
    BY <1>2 DEF Kubeconfig, pod
  <2>4. FlagInv'
    BY <1>2, <2>1, <2>3 DEF CommandInv, FlagInv, Bound, Goto
  <2>5. ClientInv'
    BY <1>2, <2>3 DEF CommandInv, ClientInv, Effective, Goto
  <2>6. WorksAsAsked'
    <3>1. MetricsPaths' = MetricsPaths /\ ProfilePaths' = ProfilePaths
      BY <1>2 DEF MetricsPaths, ProfilePaths
    <3>2. CASE value["http-endpoint"] = <<>>
      BY <1>2, <3>2 DEF WorksAsAsked, Goto
    <3>3. CASE MetricsPaths \cap ProfilePaths = {} /\ mux' = Handlers /\ server' = "serving"
      <4>1. \A path \in MetricsPaths : Handlers[path] = "metrics"
        BY DEF Handlers
      <4>2. \A path \in ProfilePaths : Handlers[path] = "profile"
        BY <3>3 DEF Handlers
      <4> QED
        BY <1>2, <3>1, <3>3, <4>1, <4>2 DEF WorksAsAsked, Goto
    <3> QED
      BY <1>2, <3>2, <3>3
  <2> QED
    BY <2>2, <2>4, <2>5, <2>6 DEF CommandInv
<1> QED
  BY <1>1, <1>2 DEF Endpoint, ControllerError

\* The plugin works with a directory.
LEMMA DirectoriesStep ==
  ASSUME CommandInv, Directories
  PROVE  CommandInv'
<1>1. CASE PluginError
  BY <1>1, EndStep DEF PluginError
<1>2. CASE /\ Goto("directories", "driver") /\ cdiRoot' = "directory"
           /\ UNCHANGED <<pod, value, config, mux, server, exit>>
  <2>1. UNCHANGED pod /\ \A f : Wanted(f)' = Wanted(f)
    BY <1>2, WantedStays
  <2>2. PodInv'
    BY <1>2 DEF CommandInv, PodInv, pod
  <2>3. Kubeconfig' = Kubeconfig
    BY <1>2 DEF Kubeconfig, pod
  <2>4. FlagInv'
    BY <1>2, <2>1, <2>3 DEF CommandInv, FlagInv, Bound, Goto
  <2>5. ClientInv' /\ WorksAsAsked'
    BY <1>2 DEF ClientInv, WorksAsAsked, Goto
  <2> QED
    BY <2>2, <2>4, <2>5 DEF CommandInv
<1> QED
  BY <1>1, <1>2 DEF Directories

\* A server that fails, and a step that changes nothing else, keep what was said.
LEMMA ServerStep ==
  ASSUME CommandInv, UNCHANGED <<pod, cdiRoot, pc, value, config, mux>>,
         server' = server \/ (server = "serving" /\ server' = "failed")
  PROVE  CommandInv'
<1>1. UNCHANGED pod /\ \A f : Wanted(f)' = Wanted(f)
  BY WantedStays
<1>2. PodInv'
  BY DEF CommandInv, PodInv, pod
<1>3. Kubeconfig' = Kubeconfig
  BY DEF Kubeconfig, pod
<1>4. FlagInv'
  BY <1>1, <1>3 DEF CommandInv, FlagInv, Bound, pod
<1>5. ClientInv'
  BY <1>3 DEF CommandInv, ClientInv, Effective
<1>6. WorksAsAsked'
  <2>1. MetricsPaths' = MetricsPaths /\ ProfilePaths' = ProfilePaths
    BY DEF MetricsPaths, ProfilePaths
  <2> QED
    BY <2>1 DEF CommandInv, WorksAsAsked
<1> QED
  BY <1>2, <1>4, <1>5, <1>6 DEF CommandInv

-----------------------------------------------------------------------------
\* The invariant holds at the start, and a step of either program keeps it.
THEOREM CommandInductive == Spec => []CommandInv
<1>1. Init => CommandInv
  BY DEF Init, CommandInv, PodInv, FlagInv, ClientInv, WorksAsAsked, Bound
<1>2. CommandInv /\ [Next]_vars => CommandInv'
  <2> SUFFICES ASSUME CommandInv, [Next]_vars
               PROVE  CommandInv'
    OBVIOUS
  <2>1. CASE Parse
    BY <2>1, ParseStep
  <2>2. CASE PreRun
    BY <2>2, PreRunStep
  <2>3. CASE ClusterConfig
    BY <2>3, ReadStep DEF ClusterConfig
  <2>4. CASE ClientsetConfig
    BY <2>4, ReadStep DEF ClientsetConfig
  <2>5. CASE Generator
    BY <2>5, ReadStep DEF Generator
  <2>6. CASE Endpoint
    BY <2>6, EndpointStep
  <2>7. CASE Directories
    BY <2>7, DirectoriesStep
  <2>8. CASE ServerFails
    BY <2>8, ServerStep DEF ServerFails
  <2>9. CASE FlushAndExit \/ Kill
    BY <2>9, EndStep DEF FlushAndExit, Kill
  <2>10. CASE UNCHANGED vars
    BY <2>10, ServerStep DEF vars
  <2> QED
    BY <2>1, <2>2, <2>3, <2>4, <2>5, <2>6, <2>7, <2>8, <2>9, <2>10
    DEF Next, Step, ControllerRun, PluginRun
<1> QED
  BY <1>1, <1>2, PTL DEF Spec

\* A program at work has the value of every flag that the command line, the
\* environment and the defaults call for, whatever they are (EffectiveValues).
THEOREM FlagsAreAsWanted == Spec => []EffectiveValues
<1>1. CommandInv => EffectiveValues
  BY DEF CommandInv, FlagInv, EffectiveValues, AtWork, Bound
<1> QED
  BY <1>1, CommandInductive, PTL

\* The client that the controller writes with and the one that its informer
\* watches with are of one cluster (OneCluster).
THEOREM ClientsAgree == Spec => []OneCluster
<1>1. CommandInv => OneCluster
  BY DEF CommandInv, ClientInv, OneCluster
<1> QED
  BY <1>1, CommandInductive, PTL

\* No program begins its work without the endpoint or the directory it was
\* asked to have (WorksAsAsked).
THEOREM WorkIsAsAsked == Spec => []WorksAsAsked
<1>1. CommandInv => WorksAsAsked
  BY DEF CommandInv
<1> QED
  BY <1>1, CommandInductive, PTL
==============================================================================
