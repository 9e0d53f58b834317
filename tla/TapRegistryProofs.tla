------------------------- MODULE TapRegistryProofs -------------------------
(***************************************************************************)
(* For every set of interfaces, and any number of events, crashes, restarts*)
(* and faults: the registry keeps its types, serves managed interfaces     *)
(* only, and loses sight of no pinned program but by a call that fails.    *)
(***************************************************************************)
EXTENDS TapRegistry, TLAPS

Tasks == [at : Stages, iface : Ifaces \cup {NoIface},
          toAttach : SUBSET Ifaces, toDetach : SUBSET Ifaces]

Events == {"NewLink", "DelLink"} \X Ifaces

Attaching == {"attach", "register"}

\* While the task waits for an interface or attaches it, it has one.
IfaceHeld == task.at \in Attaching \cup {"delay"} => task.iface \in Ifaces

\* A pin is left behind by an earlier run only until the clean-up.  From then
\* on it belongs to an instance, or to an interface the task is going to attach,
\* or a failing call has left it.
PinsTracked ==
    task.at \notin {"scan", "cleanup"}
        => \A i \in Ifaces : pin[i] # 0
               => \/ i \in managed \cup left
                  \/ task.at \in Attaching \cup {"work"} /\ i \in task.toAttach
                  \/ task.at \in Attaching /\ i = task.iface

\* The inductive invariant.
IInv == TypeOK /\ IfaceHeld /\ PinsTracked

(***************************************************************************)
(* The types, by those who change the variables.                           *)
(***************************************************************************)
HostOK == link \in [Ifaces -> 0 .. MaxLinks] /\ created \in 0 .. MaxLinks
SocketOK == events \in Seq(Events) /\ subscribed \in BOOLEAN
RegistryOK == managed \subseteq Ifaces /\ registered \subseteq managed
PinOK == pin \in [Ifaces -> 0 .. MaxLinks] /\ left \subseteq Ifaces
TaskOK == task \in Tasks /\ IfaceHeld
AgentOK == /\ agent \in {"running", "stopping", "draining", "down"}
           /\ draining \subseteq Ifaces
           /\ restarts \in 0 .. MaxRestarts
FaultsOK == faults \in 0 .. MaxFaults

\* The invariant, part by part.
LEMMA IInvDef == IInv <=> /\ HostOK /\ SocketOK /\ RegistryOK /\ PinOK
                          /\ TaskOK /\ AgentOK /\ FaultsOK /\ PinsTracked
BY DEF IInv, TypeOK, HostOK, SocketOK, RegistryOK, PinOK, TaskOK, AgentOK, FaultsOK, Tasks, Events

\* The same of the next state.
LEMMA IInvDefPrimed == IInv' <=> /\ HostOK' /\ SocketOK' /\ RegistryOK' /\ PinOK'
                                 /\ TaskOK' /\ AgentOK' /\ FaultsOK' /\ PinsTracked'
BY DEF IInv, TypeOK, HostOK, SocketOK, RegistryOK, PinOK, TaskOK, AgentOK, FaultsOK, Tasks, Events,
       IfaceHeld, PinsTracked

\* What a step leaves alone keeps its type.
LEMMA Unchanged ==
    ASSUME IInv
    PROVE  /\ UNCHANGED hostVars => HostOK'
           /\ UNCHANGED socketVars => SocketOK'
           /\ UNCHANGED registryVars => RegistryOK'
           /\ UNCHANGED pinVars => PinOK'
           /\ UNCHANGED task => TaskOK'
           /\ UNCHANGED agentVars => AgentOK'
           /\ UNCHANGED faults => FaultsOK'
           /\ UNCHANGED << pinVars, managed, task >> => PinsTracked'
<1>1. /\ HostOK /\ SocketOK /\ RegistryOK /\ PinOK
      /\ TaskOK /\ AgentOK /\ FaultsOK /\ PinsTracked
    BY IInvDef
<1>2. /\ UNCHANGED hostVars => HostOK'
      /\ UNCHANGED socketVars => SocketOK'
      /\ UNCHANGED registryVars => RegistryOK'
      /\ UNCHANGED pinVars => PinOK'
    BY <1>1 DEF HostOK, hostVars, SocketOK, socketVars, RegistryOK, registryVars, PinOK, pinVars
<1>3. /\ UNCHANGED task => TaskOK'
      /\ UNCHANGED agentVars => AgentOK'
      /\ UNCHANGED faults => FaultsOK'
    BY <1>1 DEF TaskOK, IfaceHeld, AgentOK, agentVars, FaultsOK
<1>4. UNCHANGED << pinVars, managed, task >> => PinsTracked'
    BY <1>1 DEF PinsTracked, pinVars
<1>5. QED BY <1>2, <1>3, <1>4

\* A fault is counted.
LEMMA FaultCounted ==
    ASSUME IInv, Fault
    PROVE  FaultsOK'
BY IInvDef, BoundsAssumption DEF Fault, FaultsOK

\* The task goes to another stage.
LEMMA GotoOK ==
    ASSUME IInv, NEW stage \in Stages, Goto(stage), stage \notin Attaching \cup {"delay"}
    PROVE  /\ TaskOK' /\ task'.at = stage
           /\ task'.toAttach = task.toAttach
<1>1. task \in Tasks
    BY IInvDef DEF TaskOK
<1>2. QED BY <1>1 DEF Goto, TaskOK, Tasks, IfaceHeld

(***************************************************************************)
(* The invariant, step by step.                                            *)
(***************************************************************************)
\* The agent starts with whatever is pinned: nothing.
LEMMA InitInv == Init => IInv
<1> SUFFICES ASSUME Init PROVE IInv
    OBVIOUS
<1>1. Starting \in Tasks /\ Starting.at = "scan"
    BY DEF Starting, Tasks, Stages
<1>2. HostOK /\ SocketOK /\ RegistryOK /\ PinOK /\ FaultsOK
  <2>1. << >> \in Seq(Events)
      OBVIOUS
  <2>2. SocketOK
      BY <2>1 DEF Init, SocketOK
  <2>3. QED BY <2>2, BoundsAssumption DEF Init, HostOK, RegistryOK, PinOK, FaultsOK
<1>3. TaskOK /\ AgentOK /\ PinsTracked
    BY <1>1, BoundsAssumption DEF Init, TaskOK, AgentOK, PinsTracked, IfaceHeld, Attaching
<1>4. QED BY <1>2, <1>3, IInvDef

\* Interfaces come and go, and events get lost.
LEMMA HostInv ==
    ASSUME IInv, (\E i \in Ifaces : LinkAdded(i) \/ LinkRemoved(i)) \/ EventLost
    PROVE  IInv'
<1>1. HostOK /\ SocketOK
    BY IInvDef
<1>2. ASSUME NEW i \in Ifaces, NEW kind \in {"NewLink", "DelLink"}, Notify(kind, i),
             UNCHANGED subscribed
      PROVE  SocketOK'
  <2>1. << kind, i >> \in Events
      BY DEF Events
  <2>2. QED BY <1>1, <1>2, <2>1 DEF Notify, SocketOK
<1>3. ASSUME NEW i \in Ifaces, LinkAdded(i) PROVE IInv'
  <2>1. HostOK'
      BY <1>1, <1>3, BoundsAssumption DEF LinkAdded, HostOK
  <2>2. SocketOK'
      BY <1>2, <1>3 DEF LinkAdded
  <2>3. QED BY <2>1, <2>2, <1>3, Unchanged, IInvDefPrimed DEF LinkAdded, registryVars
<1>4. ASSUME NEW i \in Ifaces, LinkRemoved(i) PROVE IInv'
  <2>1. HostOK'
      BY <1>1, <1>4, BoundsAssumption DEF LinkRemoved, HostOK
  <2>2. SocketOK'
      BY <1>2, <1>4 DEF LinkRemoved
  <2>3. QED BY <2>1, <2>2, <1>4, Unchanged, IInvDefPrimed DEF LinkRemoved, registryVars
<1>5. CASE EventLost
  <2>1. SocketOK'
      BY <1>1, <1>5 DEF EventLost, SocketOK
  <2>2. QED BY <2>1, <1>5, FaultCounted, Unchanged, IInvDefPrimed DEF EventLost, registryVars
<1>6. QED BY <1>3, <1>4, <1>5

\* Detaching an instance takes its pin with it, or the removal has failed.
LEMMA DetachInv ==
    ASSUME IInv, NEW i \in Ifaces, Detach(i),
           task'.at = task.at, task'.iface = task.iface, task'.toAttach = task.toAttach
    PROVE  RegistryOK' /\ PinOK' /\ FaultsOK' /\ PinsTracked'
<1>1. RegistryOK /\ PinOK /\ PinsTracked
    BY IInvDef
<1>2. RegistryOK'
    BY <1>1 DEF Detach, RegistryOK
<1>3. CASE Fault /\ left' = left \cup {i} /\ UNCHANGED pin
  <2>1. PinOK' /\ PinsTracked'
      BY <1>1, <1>3 DEF Detach, PinOK, PinsTracked
  <2>2. QED BY <2>1, <1>2, <1>3, FaultCounted
<1>4. CASE /\ pin' = [pin EXCEPT ![i] = IF i \in managed THEN 0 ELSE @]
           /\ UNCHANGED << left, faults >>
  <2>1. PinOK'
      BY <1>1, <1>4, BoundsAssumption DEF PinOK
  <2>2. \A j \in Ifaces : pin'[j] = IF j = i /\ i \in managed THEN 0 ELSE pin[j]
      BY <1>1, <1>4 DEF PinOK
  <2>3. managed' = managed \ {i}
      BY DEF Detach
  <2>4. PinsTracked'
      BY <2>2, <2>3, <1>1, <1>4 DEF PinsTracked
  <2>5. QED BY <2>1, <2>4, <1>2, <1>4, Unchanged
<1>5. QED BY <1>3, <1>4 DEF Detach

\* A step of the netlink task changes the pins, the registry and the task
\* consistently with one another.
LEMMA TaskInv ==
    ASSUME IInv, NetlinkTask
    PROVE  IInv'
<1>1. /\ task \in Tasks /\ IfaceHeld /\ RegistryOK /\ PinOK /\ SocketOK /\ PinsTracked
    BY IInvDef DEF TaskOK
<1>2. "work" \in Stages /\ "cleanup" \in Stages /\ "loop" \in Stages /\ "subscribe" \in Stages
          /\ "scan" \in Stages /\ "attach" \in Stages /\ "register" \in Stages
          /\ "delay" \in Stages
    BY DEF Stages
<1>3. CASE Scan
  <2>1. PICK existing \in SUBSET Present :
            /\ Scanned(existing)
            /\ task' = [task EXCEPT !.at = "cleanup", !.toAttach = existing]
      BY <1>3 DEF Scan
  <2>2. TaskOK' /\ task'.at = "cleanup"
      BY <2>1, <1>1, <1>2 DEF TaskOK, Tasks, IfaceHeld, Attaching, Present
  <2>3. FaultsOK' /\ PinsTracked'
      BY <2>1, <2>2, FaultCounted, Unchanged DEF Scanned, PinsTracked
  <2>4. QED BY <2>2, <2>3, <1>3, Unchanged, IInvDefPrimed DEF Scan
<1>4. CASE CleanupOrphanedPins
  <2>1. TaskOK' /\ task'.at = "work" /\ task'.toAttach = task.toAttach
      BY <1>2, <1>4, GotoOK DEF CleanupOrphanedPins, Attaching
  <2>2. PinOK'
      BY <1>1, <1>4, BoundsAssumption DEF CleanupOrphanedPins, PinOK
  <2>3. PinsTracked'
      BY <2>1, <1>4 DEF CleanupOrphanedPins, PinsTracked, Attaching
  <2>4. QED BY <2>1, <2>2, <2>3, <1>4, Unchanged, IInvDefPrimed DEF CleanupOrphanedPins
<1>5. CASE NextAttach
  <2>1. PICK i \in task.toAttach :
            task' = [task EXCEPT !.toAttach = @ \ {i},
                                 !.at = IF i \in managed THEN "work" ELSE "attach",
                                 !.iface = IF i \in managed THEN NoIface ELSE i]
      BY <1>5 DEF NextAttach
  <2>2. i \in Ifaces /\ task.at = "work"
      BY <2>1, <1>1, <1>5 DEF Tasks, NextAttach, Running
  <2>3. TaskOK'
      BY <2>1, <2>2, <1>1, <1>2 DEF TaskOK, Tasks, IfaceHeld, Attaching
  <2>4. /\ task'.toAttach = task.toAttach \ {i}
        /\ i \notin managed => task'.at = "attach" /\ task'.iface = i
        /\ i \in managed => task'.at = "work"
      BY <2>1, <1>1 DEF Tasks
  <2>5. UNCHANGED << pin, left, managed, faults >>
      BY <1>5 DEF NextAttach, registryVars, pinVars
  <2>6. PinsTracked'
      BY <2>2, <2>4, <2>5, <1>1 DEF PinsTracked, Attaching
  <2>7. QED BY <2>3, <2>6, <1>5, Unchanged, IInvDefPrimed DEF NextAttach
<1>6. CASE AttachXdp
  <2> DEFINE i == task.iface
  <2>1. i \in Ifaces /\ task.at = "attach"
      BY <1>1, <1>6 DEF AttachXdp, Running, IfaceHeld, Attaching
  <2>2. ASSUME NEW stage \in {"work", "register"}, AttachEnds(stage)
        PROVE  /\ TaskOK' /\ task'.at = stage /\ task'.toAttach = task.toAttach
               /\ stage = "register" => task'.iface = i
      BY <2>1, <2>2, <1>1, <1>2 DEF AttachEnds, TaskOK, Tasks, IfaceHeld, Attaching
  <2>3. CASE pin[i] # 0 /\ AttachEnds("register") /\ UNCHANGED << pinVars, faults >>
    <3>1. UNCHANGED managed
        BY <1>6 DEF AttachXdp, registryVars
    <3>2. PinsTracked'
        BY <3>1, <2>1, <2>2, <2>3, <1>1 DEF PinsTracked, Attaching, pinVars
    <3>3. QED BY <3>2, <2>2, <2>3, <1>6, Unchanged, IInvDefPrimed DEF AttachXdp
  <2>4. CASE /\ pin' = [pin EXCEPT ![i] = link[i]]
             /\ AttachEnds("register") /\ UNCHANGED << left, faults >>
    <3>1. UNCHANGED managed /\ \A j \in Ifaces \ {i} : pin'[j] = pin[j]
        BY <2>1, <2>4, <1>1, <1>6 DEF AttachXdp, registryVars, PinOK
    <3>2. PinOK'
        BY <2>1, <2>4, <1>1, IInvDef DEF PinOK, HostOK
    <3>3. PinsTracked'
        BY <3>1, <2>1, <2>2, <2>4, <1>1 DEF PinsTracked, Attaching
    <3>4. QED BY <3>2, <3>3, <2>2, <2>4, <1>6, Unchanged, IInvDefPrimed DEF AttachXdp
  <2>5. CASE pin[i] = 0 /\ AttachEnds("work") /\ UNCHANGED << pinVars, faults >>
    <3>1. UNCHANGED managed
        BY <1>6 DEF AttachXdp, registryVars
    <3>2. PinsTracked'
        BY <3>1, <2>1, <2>2, <2>5, <1>1 DEF PinsTracked, Attaching, pinVars
    <3>3. QED BY <3>2, <2>2, <2>5, <1>6, Unchanged, IInvDefPrimed DEF AttachXdp
  <2>6. CASE Fault /\ left' = left \cup {i} /\ AttachEnds("work") /\ UNCHANGED pin
    <3>1. UNCHANGED managed
        BY <1>6 DEF AttachXdp, registryVars
    <3>2. PinOK' /\ PinsTracked'
        BY <3>1, <2>1, <2>2, <2>6, <1>1 DEF PinOK, PinsTracked, Attaching
    <3>3. QED BY <3>2, <2>2, <2>6, <1>6, FaultCounted, Unchanged, IInvDefPrimed DEF AttachXdp
  <2>7. QED BY <2>3, <2>4, <2>5, <2>6, <1>6 DEF AttachXdp
<1>7. CASE Register
  <2> DEFINE i == task.iface
  <2>1. i \in Ifaces /\ task.at = "register"
      BY <1>1, <1>7 DEF Register, Running, IfaceHeld, Attaching
  <2>2. TaskOK' /\ task'.at = "work" /\ task'.toAttach = task.toAttach
      BY <1>1, <1>2, <1>7 DEF Register, AttachEnds, TaskOK, Tasks, IfaceHeld, Attaching
  <2>3. RegistryOK'
      BY <2>1, <1>1, <1>7 DEF Register, RegistryOK
  <2>4. managed' = managed \cup {i} /\ left' = left \ {i} /\ UNCHANGED pin
      BY <1>7 DEF Register
  <2>5. PinOK' /\ PinsTracked'
      BY <2>1, <2>2, <2>4, <1>1 DEF PinOK, PinsTracked, Attaching
  <2>6. FaultsOK'
      BY <1>7, FaultCounted, Unchanged DEF Register
  <2>7. QED BY <2>2, <2>3, <2>5, <2>6, <1>7, Unchanged, IInvDefPrimed DEF Register
<1>8. CASE NextDetach
  <2>1. PICK i \in task.toDetach : Detach(i) /\ task' = [task EXCEPT !.toDetach = @ \ {i}]
      BY <1>8 DEF NextDetach
  <2>2. i \in Ifaces
      BY <2>1, <1>1 DEF Tasks
  <2>3. /\ TaskOK'
        /\ task'.at = task.at /\ task'.iface = task.iface /\ task'.toAttach = task.toAttach
      BY <2>1, <1>1 DEF TaskOK, Tasks, IfaceHeld
  <2>4. RegistryOK' /\ PinOK' /\ FaultsOK' /\ PinsTracked'
      BY <2>1, <2>2, <2>3, DetachInv
  <2>5. QED BY <2>3, <2>4, <1>8, Unchanged, IInvDefPrimed DEF NextDetach
<1>9. CASE WorkDone
  <2>1. /\ TaskOK' /\ task'.at \in {"loop", "subscribe"}
        /\ task.at = "work" /\ task.toAttach = {}
      BY <1>2, <1>9, GotoOK DEF WorkDone, Running, Attaching
  <2>2. UNCHANGED << pin, left, managed, faults >>
      BY <1>9 DEF WorkDone, registryVars, pinVars
  <2>3. PinsTracked'
      BY <2>1, <2>2, <1>1 DEF PinsTracked, Attaching
  <2>4. QED BY <2>1, <2>3, <1>9, Unchanged, IInvDefPrimed DEF WorkDone
<1>10. ASSUME NEW stage \in Stages, stage \notin Attaching \cup {"delay"},
              task.at \in {"subscribe", "loop"},
              Goto(stage), events' = << >>, subscribed' \in BOOLEAN,
              UNCHANGED << hostVars, pinVars, registryVars, agentVars >>,
              stage # "loop" => Fault /\ stage = "scan",
              stage = "loop" => UNCHANGED faults
       PROVE  IInv'
  <2>1. TaskOK' /\ task'.at = stage
      BY <1>10, GotoOK
  <2>2. SocketOK'
    <3>1. << >> \in Seq(Events)
        OBVIOUS
    <3>2. QED BY <3>1, <1>10 DEF SocketOK
  <2>3. FaultsOK' /\ PinsTracked'
    <3>1. CASE Fault /\ stage = "scan"
        BY <3>1, <2>1, FaultCounted DEF PinsTracked
    <3>2. CASE stage = "loop" /\ UNCHANGED faults
        BY <3>2, <2>1, <1>1, <1>10, Unchanged DEF PinsTracked, Attaching, registryVars, pinVars
    <3>3. QED BY <3>1, <3>2, <1>10
  <2>4. QED BY <2>1, <2>2, <2>3, <1>10, Unchanged, IInvDefPrimed
<1>11. CASE Subscribe
  <2>1. /\ task.at \in {"subscribe", "loop"} /\ events' = << >>
        /\ UNCHANGED << hostVars, pinVars, registryVars, agentVars >>
      BY <1>11 DEF Subscribe, Running
  <2>2. CASE subscribed' = TRUE /\ Goto("loop") /\ UNCHANGED faults
      BY <2>1, <2>2, <1>2, <1>10 DEF Attaching
  <2>3. CASE Fault /\ subscribed' = FALSE /\ Goto("scan")
    <3>1. subscribed' \in BOOLEAN /\ "scan" \notin Attaching \cup {"delay"}
        BY <2>3 DEF Attaching
    <3>2. QED BY <3>1, <2>1, <2>3, <1>2, <1>10
  <2>4. QED BY <2>2, <2>3, <1>11 DEF Subscribe
<1>12. CASE Receive
  <2> DEFINE e == Head(events)
  <2>1. e \in Events /\ Tail(events) \in Seq(Events) /\ task.at = "loop"
      BY <1>1, <1>12 DEF Receive, Running, SocketOK
  <2>2. e[2] \in Ifaces
      BY <2>1 DEF Events
  <2>3. TaskOK' /\ task'.at \in {"delay", "work"}
    <3>1. CASE e[1] = "NewLink"
        BY <3>1, <2>2, <1>1, <1>2, <1>12 DEF Receive, TaskOK, Tasks, IfaceHeld, Attaching
    <3>2. CASE e[1] # "NewLink"
        BY <3>2, <2>2, <1>1, <1>2, <1>12 DEF Receive, TaskOK, Tasks, IfaceHeld, Attaching
    <3>3. QED BY <3>1, <3>2
  <2>4. SocketOK'
      BY <2>1, <1>1, <1>12 DEF Receive, SocketOK
  <2>5. UNCHANGED << pin, left, managed, faults >>
      BY <1>12 DEF Receive, registryVars, pinVars
  <2>6. PinsTracked'
      BY <2>1, <2>5, <1>1 DEF PinsTracked, Attaching
  <2>7. QED BY <2>3, <2>4, <2>6, <1>12, Unchanged, IInvDefPrimed DEF Receive
<1>13. CASE DelayOver
  <2>1. task.iface \in Ifaces /\ task.at = "delay"
      BY <1>1, <1>13 DEF DelayOver, Running, IfaceHeld, Attaching
  <2>2. TaskOK'
      BY <2>1, <1>1, <1>2, <1>13 DEF DelayOver, TaskOK, Tasks, IfaceHeld, Attaching
  <2>3. UNCHANGED << pin, left, managed, faults >>
      BY <1>13 DEF DelayOver, registryVars, pinVars
  <2>4. PinsTracked'
      BY <2>1, <2>3, <1>1 DEF PinsTracked, Attaching
  <2>5. QED BY <2>2, <2>4, <1>13, Unchanged, IInvDefPrimed DEF DelayOver
<1>14. CASE Reconcile
  <2>1. PICK existing \in SUBSET Present :
            /\ Scanned(existing)
            /\ task' = [task EXCEPT !.at = "work", !.toAttach = existing \ managed,
                                    !.toDetach = managed \ existing]
      BY <1>14 DEF Reconcile
  <2>2. TaskOK' /\ task.at = "loop"
      BY <2>1, <1>1, <1>2, <1>14
      DEF Reconcile, Running, TaskOK, Tasks, IfaceHeld, Attaching, Present, RegistryOK
  <2>3. UNCHANGED << pin, left, managed >>
      BY <1>14 DEF Reconcile, registryVars, pinVars
  <2>4. PinsTracked'
      BY <2>2, <2>3, <1>1 DEF PinsTracked, Attaching
  <2>5. FaultsOK'
      BY <2>1, FaultCounted, Unchanged DEF Scanned
  <2>6. QED BY <2>2, <2>4, <2>5, <1>14, Unchanged, IInvDefPrimed DEF Reconcile
<1>15. CASE StreamEnds
  <2>1. subscribed' \in BOOLEAN /\ "scan" \notin Attaching \cup {"delay"}
      BY <1>15 DEF StreamEnds, Attaching
  <2>2. /\ task.at \in {"subscribe", "loop"} /\ events' = << >> /\ Fault /\ Goto("scan")
        /\ UNCHANGED << hostVars, pinVars, registryVars, agentVars >>
      BY <1>15 DEF StreamEnds, Running
  <2>3. QED BY <2>1, <2>2, <1>2, <1>10
<1>16. QED
    BY <1>3, <1>4, <1>5, <1>6, <1>7, <1>8, <1>9, <1>11, <1>12, <1>13, <1>14, <1>15
    DEF NetlinkTask

\* Signals, shutdown, exits, crashes and restarts.
LEMMA AgentInv ==
    ASSUME IInv, Signal \/ Shutdown \/ Exit \/ Restart \/ \E i \in Ifaces : ShutdownDetach(i)
    PROVE  IInv'
<1>1. AgentOK /\ RegistryOK
    BY IInvDef
<1>2. CASE Signal
  <2>1. AgentOK'
      BY <1>1, <1>2 DEF Signal, AgentOK
  <2>2. QED BY <2>1, <1>2, Unchanged, IInvDefPrimed DEF Signal, registryVars
<1>3. CASE Shutdown
  <2>1. AgentOK'
      BY <1>1, <1>3 DEF Shutdown, AgentOK, RegistryOK
  <2>2. QED BY <2>1, <1>3, Unchanged, IInvDefPrimed DEF Shutdown, registryVars
<1>4. CASE Exit
  <2>1. AgentOK' /\ RegistryOK'
      BY <1>1, <1>4 DEF Exit, AgentOK, RegistryOK
  <2>2. SocketOK'
    <3>1. << >> \in Seq(Events)
        OBVIOUS
    <3>2. QED BY <3>1, <1>4 DEF Exit, SocketOK
  <2>3. TaskOK' /\ PinsTracked'
      BY <1>4 DEF Exit, TaskOK, Tasks, Starting, Stages, IfaceHeld, Attaching, PinsTracked
  <2>4. QED BY <2>1, <2>2, <2>3, <1>4, Unchanged, IInvDefPrimed DEF Exit
<1>5. CASE Restart
  <2>1. AgentOK'
      BY <1>1, <1>5, BoundsAssumption DEF Restart, AgentOK
  <2>2. QED BY <2>1, <1>5, Unchanged, IInvDefPrimed DEF Restart, registryVars
<1>6. ASSUME NEW i \in Ifaces, ShutdownDetach(i) PROVE IInv'
  <2>1. AgentOK'
      BY <1>1, <1>6 DEF ShutdownDetach, AgentOK
  <2>2. RegistryOK' /\ PinOK' /\ FaultsOK' /\ PinsTracked'
      BY <1>6, DetachInv DEF ShutdownDetach
  <2>3. QED BY <2>1, <2>2, <1>6, Unchanged, IInvDefPrimed DEF ShutdownDetach
<1>7. QED BY <1>2, <1>3, <1>4, <1>5, <1>6

\* Every step keeps the invariant.
LEMMA StepInv == IInv /\ [Next]_vars => IInv'
<1> SUFFICES ASSUME IInv, [Next]_vars PROVE IInv'
    OBVIOUS
<1>1. CASE UNCHANGED vars
  <2>1. UNCHANGED << hostVars, socketVars, registryVars, pinVars, task, agentVars, faults, managed >>
      BY <1>1 DEF vars, registryVars
  <2>2. QED BY <2>1, Unchanged, IInvDefPrimed
<1>2. CASE NetlinkTask
    BY <1>2, TaskInv
<1>3. QED BY <1>1, <1>2, HostInv, AgentInv DEF Next

\* The inductive invariant holds in every reachable state.
THEOREM Invariant == Spec => []IInv
<1>1. QED BY InitInv, StepInv, PTL DEF Spec

\* The fields keep their types, and the control plane serves no instance that
\* the registry does not have.
THEOREM TypeCorrect == Spec => []TypeOK
<1>1. IInv => TypeOK
    BY DEF IInv
<1>2. QED BY <1>1, Invariant, PTL

\* Once the monitor listens, nothing is enforced on an interface that the
\* registry does not have, unless a failing call has left it so.
THEOREM NoUnmanagedPin == Spec => []PinsAreManaged
<1>1. IInv => PinsAreManaged
    BY DEF IInv, PinsTracked, PinsAreManaged, Attaching
<1>2. QED BY <1>1, Invariant, PTL
=============================================================================
