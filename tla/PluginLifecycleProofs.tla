------------------------ MODULE PluginLifecycleProofs ------------------------
(***************************************************************************)
(* Theorems about PluginLifecycle, for any number of streams, signals,     *)
(* failures and restarts.                                                  *)
(***************************************************************************)
EXTENDS PluginLifecycle, TLAPS

\* A signal that did not end the process came after signal.Notify, and waits
\* in the channel or has been received.
NoticeInv ==
  /\ pc \in {"down", "start", "sockets", "notify", "first", "second", "stop", "shutdown"}
  /\ asked => \/ pc \in {"notify", "first"} /\ pending
              \/ pc \in {"second", "stop", "shutdown"}

\* Every step keeps NoticeInv.
LEMMA NoticeStep ==
  ASSUME NoticeInv, [Next]_vars
  PROVE  NoticeInv'
<1> USE DEF NoticeInv, Goto
<1>1. CASE StartProcess
  BY <1>1 DEF StartProcess, signals
<1>2. CASE Serve
  BY <1>2 DEF Serve, signals
<1>3. CASE StartFails \/ Shutdown \/ Kill
  BY <1>3 DEF StartFails, Shutdown, Kill, End
<1>4. CASE Notify
  BY <1>4 DEF Notify, signals
<1>5. CASE AwaitSignal
  BY <1>5 DEF AwaitSignal, signals
<1>6. CASE FirstSignal
  BY <1>6 DEF FirstSignal, ReceiveSignal
<1>7. CASE SecondSignal
  BY <1>7 DEF SecondSignal, ReceiveSignal
<1>8. CASE StopServers
  BY <1>8 DEF StopServers, signals
<1>9. CASE Signal
  <2>1. CASE pc \in {"start", "sockets"}
    BY <1>9, <2>1 DEF Signal, End
  <2>2. CASE pc \notin {"start", "sockets"}
    BY <1>9, <2>2 DEF Signal
  <2> QED
    BY <2>1, <2>2
<1>10. CASE Disconnect \/ \E s \in Streams : Connect(s) \/ Publish(s)
  BY <1>10 DEF Disconnect, Connect, Publish, signals
<1>11. CASE UNCHANGED vars
  BY <1>11 DEF vars, signals
<1> QED
  BY <1>1, <1>2, <1>3, <1>4, <1>5, <1>6, <1>7, <1>8, <1>9, <1>10, <1>11 DEF Next, ProcessStep

\* No signal gets lost between signal.Notify and the receives, for signals that
\* come at any time and in any number: the channel has room for one, and one
\* is enough to be noticed.
THEOREM SignalsAreNoticed == Spec => []SignalIsNoticed
<1>1. Init => NoticeInv
  BY DEF Init, NoticeInv
<1>2. NoticeInv /\ [Next]_vars => NoticeInv'
  BY NoticeStep
<1>3. NoticeInv => SignalIsNoticed
  BY DEF NoticeInv, SignalIsNoticed
<1> QED
  BY <1>1, <1>2, <1>3, PTL DEF Spec
==============================================================================
