-------------------------- MODULE PluginLifecycle --------------------------
(***************************************************************************)
(* The process of the kubelet plugin: StartPlugin of main.go from the      *)
(* sockets to the shutdown, the signals it gets, and the streams over      *)
(* which the kubelet learns of the node's devices                          *)
(* (NodeListAndWatchResources).  What the process does for claims is       *)
(* KubeletPlugin: Serve is its Start, the end of the process its Die.      *)
(*                                                                         *)
(* The container runtime, which starts the process again, and the kubelet, *)
(* which connects again, are external.                                     *)
(***************************************************************************)
EXTENDS Integers

CONSTANTS
  Streams,     \* handlers of NodeListAndWatchResources a process can have
  NoStream,
  Budget       \* bounds: how often something may happen, by kind

Kinds == {"signal", "kill", "failure", "disconnect"}

ASSUME StreamAssumption == NoStream \notin Streams
ASSUME BudgetAssumption == Budget \in [Kinds -> Nat]

VARIABLES
  pc,          \* where StartPlugin is
  pending,     \* there is a signal in the channel, which has room for one
  asked,       \* history: a signal was delivered to this process
  stream,      \* stream[s]: where handler s is
  connected,   \* the handler at the other end of the kubelet's connection
  known,       \* the kubelet has the devices from its connection
  budget       \* what is left of Budget

signals == <<pending, asked>>
streams == <<stream, connected, known>>
vars == <<pc, signals, streams, budget>>

Init ==
  /\ pc = "down"
  /\ pending = FALSE /\ asked = FALSE
  /\ stream = [s \in Streams |-> "none"]
  /\ connected = NoStream
  /\ known = FALSE
  /\ budget = Budget

Spend(kind) ==
  /\ budget[kind] > 0
  /\ budget' = [budget EXCEPT ![kind] = @ - 1]

\* The end of the process, and of all that was in it.
End ==
  /\ pc' = "down"
  /\ pending' = FALSE /\ asked' = FALSE
  /\ stream' = [s \in Streams |-> "none"]
  /\ connected' = NoStream
  /\ known' = FALSE

Goto(from, to) ==
  /\ pc = from
  /\ pc' = to

-----------------------------------------------------------------------------
(***************************************************************************)
(* StartPlugin.                                                            *)
(***************************************************************************)

StartProcess == Goto("down", "start") /\ UNCHANGED <<signals, streams, budget>>

\* NewDriver and plugin.Start.
Serve == Goto("start", "sockets") /\ UNCHANGED <<signals, streams, budget>>

StartFails ==
  /\ pc = "start"
  /\ Spend("failure")
  /\ End

\* signal.Notify, and then the first receive.
Notify == Goto("sockets", "notify") /\ UNCHANGED <<signals, streams, budget>>
AwaitSignal == Goto("notify", "first") /\ UNCHANGED <<signals, streams, budget>>

\* Mutant: the channel has no room, a signal needs a receiver.
SignalUnbuffered ==
  /\ pc # "down"
  /\ Spend("signal")
  /\ IF pc \in {"start", "sockets"} THEN End
     ELSE /\ pending' = (pc \in {"first", "second"})
          /\ asked' = TRUE
          /\ UNCHANGED <<pc, streams>>

\* SIGTERM and the like: without signal.Notify they kill the process, with it
\* they go to the channel, if there is room.
Signal ==
  /\ pc # "down"
  /\ Spend("signal")
  /\ IF pc \in {"start", "sockets"} THEN End
     ELSE /\ pending' = TRUE
          /\ asked' = TRUE
          /\ UNCHANGED <<pc, streams>>

\* The argument of the log call is the first receive, the line after it the
\* second.
ReceiveSignal(from, to) ==
  /\ Goto(from, to)
  /\ pending
  /\ pending' = FALSE
  /\ UNCHANGED <<asked, streams, budget>>

FirstSignal == ReceiveSignal("first", "second")
SecondSignal == ReceiveSignal("second", "stop")

\* Mutant: the servers wait for the handlers that they have started.
StopServersGracefully ==
  /\ \A s \in Streams : stream[s] = "none"
  /\ Goto("stop", "shutdown")
  /\ connected' = NoStream
  /\ known' = FALSE
  /\ UNCHANGED <<signals, stream, budget>>

\* dp.Stop: connections are closed, handlers go on.
StopServers ==
  /\ Goto("stop", "shutdown")
  /\ connected' = NoStream
  /\ known' = FALSE
  /\ UNCHANGED <<signals, stream, budget>>

\* driver.Shutdown closes doneCh, which was never made: a panic.
Shutdown ==
  /\ pc = "shutdown"
  /\ End
  /\ UNCHANGED budget

Kill ==
  /\ pc # "down"
  /\ Spend("kill")
  /\ End

-----------------------------------------------------------------------------
(***************************************************************************)
(* NodeListAndWatchResources.                                              *)
(***************************************************************************)

Serving == pc \in {"sockets", "notify", "first", "second", "stop"}

Connect(s) ==
  /\ Serving
  /\ connected = NoStream
  /\ stream[s] = "none"
  /\ stream' = [stream EXCEPT ![s] = "open"]
  /\ connected' = s
  /\ UNCHANGED <<pc, signals, known, budget>>

\* Mutant: the handler returns when it has sent the devices.
PublishAndReturn(s) ==
  /\ stream[s] = "open"
  /\ stream' = [stream EXCEPT ![s] = "none"]
  /\ connected' = IF connected = s THEN NoStream ELSE connected
  /\ UNCHANGED <<pc, signals, known, budget>>

\* The devices are sent, or the kubelet is not there any more, which the
\* handler may notice.  Then it waits for doneCh, which is nil: for ever.
Publish(s) ==
  /\ stream[s] = "open"
  /\ \/ stream' = [stream EXCEPT ![s] = "waiting"]
     \/ /\ connected # s
        /\ stream' = [stream EXCEPT ![s] = "none"]
  /\ known' = (known \/ connected = s)
  /\ UNCHANGED <<pc, signals, connected, budget>>

\* The kubelet restarts.
Disconnect ==
  /\ connected # NoStream
  /\ Spend("disconnect")
  /\ connected' = NoStream
  /\ known' = FALSE
  /\ UNCHANGED <<pc, signals, stream>>

-----------------------------------------------------------------------------
ProcessStep ==
  \/ StartProcess \/ Serve \/ Notify \/ AwaitSignal
  \/ FirstSignal \/ SecondSignal \/ StopServers \/ Shutdown

Next ==
  \/ ProcessStep
  \/ StartFails \/ Signal \/ Kill \/ Disconnect
  \/ \E s \in Streams : Connect(s) \/ Publish(s)

Spec == Init /\ [][Next]_vars

\* The process and its handlers run, the runtime starts it again, the kubelet
\* connects again.  Nobody has to send a signal.
Fairness ==
  /\ WF_vars(ProcessStep)
  /\ WF_vars(\E s \in Streams : Connect(s))
  /\ \A s \in Streams : WF_vars(Publish(s))

FairSpec == Spec /\ Fairness

-----------------------------------------------------------------------------
(***************************************************************************)
(* Properties.                                                             *)
(***************************************************************************)

\* No signal gets lost between signal.Notify and the receives: a process that
\* was asked to stop has noticed, or is going to (main.go:214-217).
SignalIsNoticed == asked => pending \/ pc \in {"second", "stop", "shutdown"}

\* In the end the kubelet knows the devices and goes on knowing them, after
\* restarts of the process and of the kubelet, failed starts and signals that
\* did not end the process (driver.go:47-61).
EventuallyKnown == <>[]known

\* A second signal does end the process, though in a panic and not in the
\* "completed successfully" of main.go:224, whatever streams are open: their
\* handlers wait for ever, and nothing waits for them.
SecondSignalEnds == pc = "second" /\ pending ~> pc = "down"

\* "Got signal, shutting down fake-dra-kubeletplugin..." (main.go:216): a
\* process that has got a signal ends.
SignalEnds == pc = "second" ~> pc = "down"
=============================================================================
