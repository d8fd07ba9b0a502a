---------------------------- MODULE ClaimJourney ---------------------------
(***************************************************************************)
(* What becomes of claim parameters on their way into a container: the     *)
(* controller translates them into requests, the scheduler allocates an    *)
(* instance for each request, the kubelet plugin prepares devices and      *)
(* writes environment variables into the spec files, and the container     *)
(* runtime injects the claims of a container one after the other.          *)
(*                                                                         *)
(* API server, scheduler and runtime are external.  When the steps fail or *)
(* are repeated is the matter of ClaimParametersGenerator and NodeSystem;  *)
(* here each is done once.                                                 *)
(***************************************************************************)
EXTENDS NodeMessages

CONSTANTS
  Models,      \* fakeModelUltra10, fakeModelUltra100
  Parameters   \* the FakeClaimParametersSpecs that users write

\* A selector may be absent, or be there and select nothing.
FakeClaimParametersSpec ==
  [count : Int, split : Int, selector : Models \cup {"absent", "empty"}]

ASSUME ParametersAssumption == Parameters \subseteq FakeClaimParametersSpec

\* A model is no other selector and no other expression.
ASSUME ModelsAssumption == Models \cap {"absent", "empty", "true", "()"} = {}

\* The container uses a claim.
ASSUME UseAssumption == Claims # {}

\* FAKE_DEVICE_0, ... as a function of the number, and FAKE_DEVICE_MODEL.
Variables(numbered, models) == [device |-> numbered, model |-> models]
NoVariables == Variables(EmptyMap, {})

VARIABLES
  model,       \* the model of the node's devices
  spec,        \* spec[c]: the parameters of claim c
  requests,    \* requests[c]: the selectors of the RCP, one for each request
  handle,      \* handle[c]: what claim c is allocated
  env,         \* env[c]: the variables in the spec file of claim c
  injected,    \* the claims whose devices have been injected
  container    \* the variables of a container that uses all claims

vars == <<model, spec, requests, handle, env, injected, container>>

Init ==
  /\ model \in Models
  /\ spec = EmptyMap
  /\ requests = EmptyMap
  /\ handle = EmptyMap
  /\ env = EmptyMap
  /\ injected = {}
  /\ container = NoVariables

-----------------------------------------------------------------------------
\* FakeSelector.ToNamedResourcesSelector, with a model for the expression that
\* compares it.
Selector(s) ==
  CASE s.selector = "absent" -> "true"
    [] s.selector = "empty"  -> "()"
    [] OTHER                 -> s.selector

ResourceCount(s) == IF s.count # 0 THEN s.count ELSE 1

\* Mutant: a request for each part of a device.
RequestsForParts(s) ==
  [i \in 1..(ResourceCount(s) * (IF s.split > 0 THEN s.split ELSE 1)) |-> Selector(s)]

\* Mutant: the first request is for a device of any model.
RequestsSelectedOnce(s) ==
  [i \in 1..ResourceCount(s) |-> IF i = 1 THEN "true" ELSE Selector(s)]

\* newResourceClaimParametersFromFakeClaimParameters: as many requests as
\* devices, split or not; none for a negative count.
Requests(s) == [i \in 1..ResourceCount(s) |-> Selector(s)]

\* The API server compiles selectors: "()" is no CEL expression.
Accepted(c) == \A i \in DOMAIN requests[c] : requests[c][i] # "()"

Translate(c, s) ==
  /\ c \notin DOMAIN spec
  /\ spec' = Put(spec, c, s)
  /\ requests' = Put(requests, c, Requests(s))
  /\ UNCHANGED <<model, handle, env, injected, container>>

\* An instance for each request, that no other claim has and that satisfies
\* the selector; the vendor parameters go along as they are.
Allocate(c) ==
  /\ c \in DOMAIN requests \ DOMAIN handle
  /\ Accepted(c)
  /\ \A i \in DOMAIN requests[c] : requests[c][i] \in {"true", model}
  /\ \E names \in SUBSET {AdvertisedName(u) : u \in Allocatable} :
       /\ Cardinality(names) = Len(requests[c])
       /\ \A d \in DOMAIN handle : handle[d].names \cap names = {}
       /\ handle' = Put(handle, c, [kind |-> "ok", split |-> spec[c].split, names |-> names])
  /\ UNCHANGED <<model, spec, requests, env, injected, container>>

\* Mutant: the index is not incremented.
NumberedAlike(fakes) == [(IF fakes = {} THEN {} ELSE {0}) -> fakes]

\* The loop of CreateClaimSpecFile: FAKE_DEVICE_0, FAKE_DEVICE_1, ... in the
\* order of the allocation, which can be any.
Numbered(fakes) ==
  {f \in [0..(Cardinality(fakes) - 1) -> fakes] : \A d \in fakes : \E i \in DOMAIN f : f[i] = d}

\* Every device, whole or part, comes with the model of the node.
Prepare(c) ==
  LET fakes == PreparedFakes(handle[c]) IN
  /\ c \in DOMAIN handle \ DOMAIN env
  /\ \E numbered \in Numbered(fakes) :
       env' = Put(env, c, Variables(numbered, {model : d \in fakes}))
  /\ UNCHANGED <<model, spec, requests, handle, injected, container>>

\* Variables that are set one set after the other.
Overridden(old, new) ==
  [i \in DOMAIN old \cup DOMAIN new |-> IF i \in DOMAIN new THEN new[i] ELSE old[i]]

\* A variable that the container has already is replaced.
Inject(c) ==
  /\ DOMAIN env = Claims
  /\ c \notin injected
  /\ injected' = injected \cup {c}
  /\ container' = Variables(Overridden(container.device, env[c].device),
                            IF env[c].model = {} THEN container.model ELSE env[c].model)
  /\ UNCHANGED <<model, spec, requests, handle, env>>

Next ==
  \E c \in Claims :
    \/ \E s \in Parameters : Translate(c, s)
    \/ Allocate(c)
    \/ Prepare(c)
    \/ Inject(c)

Spec == Init /\ [][Next]_vars

-----------------------------------------------------------------------------
(***************************************************************************)
(* Properties.                                                             *)
(***************************************************************************)

Devices(c) == {env[c].device[i] : i \in DOMAIN env[c].device}

\* A claim gets as many devices as its parameters say, each in as many parts,
\* and they are shown by as many variables ("Asking for 4 splitted distinct
\* Fakes with 2 splitted each", demo/fake-test5.yaml:2): what the controller
\* leaves to the plugin is what the plugin does.
CountTimesSplit ==
  \A c \in DOMAIN env :
    LET devices == IF spec[c].count < 0 THEN 0 ELSE IF spec[c].count = 0 THEN 1 ELSE spec[c].count
        parts   == IF spec[c].split > 0 THEN spec[c].split ELSE 1
    IN  /\ Cardinality(DOMAIN env[c].device) = devices * parts
        /\ Cardinality(Devices(c)) = devices * parts

\* Claims never share a device, whole or in parts.
ClaimsAreDistinct ==
  \A c, d \in DOMAIN env : c # d =>
    \A x \in Devices(c), y \in Devices(d) : Head(x.path) # Head(y.path)

\* What is injected for a claim: the CDI devices of its spec file.
Injected(c) == PreparedFakes(handle[c])

\* What a container is shown: the devices that its variables name.
Shown == {container.device[i] : i \in DOMAIN container.device}

\* "a set of environment variables are set in each container to indicate which
\* Fakes would have been injected into them by a real resource driver"
\* (README.md:150).  Each spec file numbers its devices from 0 (cdi.go:101), so
\* two claims with devices share FAKE_DEVICE_0, and one hides the other.
InjectedIsShown == injected = Claims => \A c \in Claims : Injected(c) \subseteq Shown

\* What is left of that: a container of which one claim has devices, as every
\* container of the demos is, is shown all of them, numbered from 0 without a
\* gap, and nothing else, in whatever order it is given claims without devices.
ClaimAloneIsShown ==
  injected = Claims =>
    \A c \in Claims :
      (\A d \in Claims \ {c} : Injected(d) = {}) =>
        /\ DOMAIN container.device = 0..(Cardinality(Injected(c)) - 1)
        /\ Shown = Injected(c)

\* A container is shown a model if and only if it has a device, and the model
\* is the one that each of its claims with a device asked for: the selector
\* survives the translation (fakeclaim.go:26-31), and one variable may stand
\* for all claims because a node's devices have one model (cdi.go:110-113).
ModelAsAsked ==
  injected = Claims =>
    /\ container.model = {} <=> \A c \in Claims : Devices(c) = {}
    /\ \A c \in Claims :
         Devices(c) # {} /\ spec[c].selector \in Models => container.model = {spec[c].selector}
=============================================================================
