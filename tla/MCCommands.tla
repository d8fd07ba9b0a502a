----------------------------- MODULE MCCommands -----------------------------
(***************************************************************************)
(* Instances of Commands for TLC.                                          *)
(***************************************************************************)
EXTENDS Commands, TLC

\* Each of the flags of a set has a value or is absent.
Some(values) ==
  UNION {[flags -> UNION {values[f] : f \in DOMAIN values}] : flags \in SUBSET DOMAIN values}

Fitting(values) == {a \in Some(values) : \A f \in DOMAIN a : a[f] \in values[f]}

Endpoint80 == {<<"8080">>}
Given ==
  ("kubeconfig" :> {<<"given">>}) @@ ("kube-api-qps" :> {<<"7">>}) @@
  ("http-endpoint" :> Endpoint80) @@ ("metrics-path" :> {<<>>, <<"debug", "profile">>}) @@
  ("pprof-path" :> {<<"debug">>, <<"metrics">>}) @@ ("cdi-root" :> {<<"cdi">>})
Set ==
  ("kubeconfig" :> {<<"set">>}) @@ ("kube-api-qps" :> {<<"9">>, <<"many">>}) @@
  ("http-endpoint" :> Endpoint80) @@ ("metrics-path" :> {<<"debug">>}) @@
  ("cdi-root" :> {<<"var", "run", "cdi">>})

GivenLines == Fitting(Given)
SetEnvironments == Fitting(Set)
=============================================================================
