---------------------------- MODULE TapRegistry ----------------------------
(***************************************************************************)
(* How the agent follows the tap interfaces of the host: the netlink task  *)
(* (agent/src/netlink.rs), the registry it drives (tap_registry.rs), the   *)
(* XDP link each instance pins so that it survives the agent (instance.rs) *)
(* and the shutdown of main.rs, with interfaces that come and go, crashes  *)
(* and restarts of the agent.                                              *)
(*                                                                         *)
(* attach and detach are only called by the netlink task and, once that    *)
(* has been aborted, by the shutdown, so the per-interface locks never     *)
(* make anyone wait and are left out.  An aborted task goes on until it    *)
(* next has to wait.                                                       *)
(*                                                                         *)
(* A link is the generation of its interface, 0 when there is none: an     *)
(* interface created again under the same name is another device.          *)
(***************************************************************************)
EXTENDS Naturals, Sequences, FiniteSets

CONSTANTS Ifaces,       \* names that match iface_pattern
          NoIface,
          MaxLinks,     \* bound: interfaces ever created
          MaxEvents,    \* bound: events waiting in the socket
          MaxRestarts,  \* bound: starts of the agent after the first
          MaxFaults     \* bound: netlink and kernel calls that fail, events lost

ASSUME BoundsAssumption == /\ MaxLinks \in Nat /\ MaxEvents \in Nat
                           /\ MaxRestarts \in Nat /\ MaxFaults \in Nat

VARIABLES
    link,        \* the generation of each interface
    created,     \* interfaces created so far
    events,      \* what waits in the netlink socket
    subscribed,  \* the socket of the event loop is bound
    pin,         \* the generation the pinned xdp_link is attached to, 0: no pin
    left,        \* history: whose pin a failing call has left to nobody
    managed,     \* TapRegistry.instances
    registered,  \* ControlPlane.instances
    task,        \* the netlink task
    agent,       \* "running", "stopping", "draining" or "down"
    draining,    \* the interfaces the shutdown has yet to detach
    restarts, faults

\* The operators named ...Mutant are mistakes in the operator that follows
\* them, kept to see that the properties notice them.

hostVars == << link, created >>
socketVars == << events, subscribed >>
pinVars == << pin, left >>
registryVars == << managed, registered >>
agentVars == << agent, draining, restarts >>
vars == << hostVars, socketVars, pinVars, registryVars, task, agentVars, faults >>

Present == {i \in Ifaces : link[i] # 0}

Starting == [at |-> "scan", iface |-> NoIface, toAttach |-> {}, toDetach |-> {}]

Init ==
    /\ link = [i \in Ifaces |-> 0]
    /\ created = 0
    /\ events = << >>
    /\ subscribed = FALSE
    /\ pin = [i \in Ifaces |-> 0]
    /\ left = {}
    /\ managed = {}
    /\ registered = {}
    /\ task = Starting
    /\ agent = "running"
    /\ draining = {}
    /\ restarts = 0
    /\ faults = 0

Fault == faults < MaxFaults /\ faults' = faults + 1

-----------------------------------------------------------------------------
\* The host.
Notify(kind, i) == events' = IF subscribed THEN Append(events, << kind, i >>) ELSE events

LinkAdded(i) ==
    /\ link[i] = 0
    /\ created < MaxLinks /\ Len(events) < MaxEvents
    /\ created' = created + 1
    /\ link' = [link EXCEPT ![i] = created']
    /\ Notify("NewLink", i)
    /\ UNCHANGED << subscribed, pinVars, registryVars, task, agentVars, faults >>

\* The device takes its XDP program with it; a pin of the link stays.
LinkRemoved(i) ==
    /\ link[i] # 0
    /\ Len(events) < MaxEvents
    /\ link' = [link EXCEPT ![i] = 0]
    /\ Notify("DelLink", i)
    /\ UNCHANGED << created, subscribed, pinVars, registryVars, task, agentVars, faults >>

\* The socket overruns.
EventLost ==
    /\ events # << >>
    /\ Fault
    /\ events' = Tail(events)
    /\ UNCHANGED << hostVars, subscribed, pinVars, registryVars, task, agentVars >>

-----------------------------------------------------------------------------
\* The netlink task.  It runs while the agent does, and after the abort
\* through the stages without a wait.
Running(stage) ==
    /\ task.at = stage
    /\ \/ agent = "running"
       \/ /\ agent \in {"stopping", "draining"}
          /\ stage \in {"cleanup", "work", "attach", "register"}

Goto(stage) == task' = [task EXCEPT !.at = stage]

\* scan_existing_interfaces answers with what it has read when an error ends
\* the dump, possibly nothing.
Scanned(existing) == \/ existing = Present /\ UNCHANGED faults
                     \/ existing \in SUBSET Present /\ Fault

Scan ==
    /\ Running("scan")
    /\ \E existing \in SUBSET Present :
           /\ Scanned(existing)
           /\ task' = [task EXCEPT !.at = "cleanup", !.toAttach = existing]
    /\ UNCHANGED << hostVars, socketVars, pinVars, registryVars, agentVars >>

\* The pin directories of interfaces that were not seen are removed.
CleanupMutant ==
    /\ Running("cleanup")
    /\ left' = {}
    /\ Goto("work")
    /\ UNCHANGED << hostVars, socketVars, pin, registryVars, agentVars, faults >>
CleanupOrphanedPins ==
    /\ Running("cleanup")
    /\ pin' = [i \in Ifaces |-> IF i \in task.toAttach THEN pin[i] ELSE 0]
    /\ left' = {}
    /\ Goto("work")
    /\ UNCHANGED << hostVars, socketVars, registryVars, agentVars, faults >>

\* attach is idempotent: an interface the registry has is skipped.
NextAttach ==
    /\ Running("work")
    /\ \E i \in task.toAttach :
           task' = [task EXCEPT !.toAttach = @ \ {i},
                                !.at = IF i \in managed THEN "work" ELSE "attach",
                                !.iface = IF i \in managed THEN NoIface ELSE i]
    /\ UNCHANGED << hostVars, socketVars, pinVars, registryVars, agentVars, faults >>

AttachEnds(stage) ==
    task' = [task EXCEPT !.at = stage, !.iface = IF stage = "work" THEN NoIface ELSE @]

\* FirewallInstance::attach: a pinned link is taken for a recovery and
\* nothing is attached; otherwise XDP is attached and its link pinned.
AttachXdp ==
    LET i == task.iface
    IN  /\ Running("attach")
        /\ \/ /\ pin[i] # 0
              /\ AttachEnds("register")
              /\ UNCHANGED << pinVars, faults >>
           \/ /\ pin[i] = 0 /\ link[i] # 0
              /\ pin' = [pin EXCEPT ![i] = link[i]]
              /\ AttachEnds("register")
              /\ UNCHANGED << left, faults >>
           \/ /\ pin[i] = 0 /\ link[i] = 0
              /\ AttachEnds("work")
              /\ UNCHANGED << pinVars, faults >>
           \/ /\ Fault               \* loading, attaching or replaying fails
              /\ left' = left \cup {i}
              /\ AttachEnds("work")
              /\ UNCHANGED pin
        /\ UNCHANGED << hostVars, socketVars, registryVars, agentVars >>

\* register_instance gives up silently when it cannot open the log; the
\* registry takes the instance all the same.  An await lies between the two;
\* nobody but a shutdown that lists the instances could look in between.
Register ==
    /\ Running("register")
    /\ \/ registered' = registered \cup {task.iface} /\ UNCHANGED faults
       \/ Fault /\ UNCHANGED registered
    /\ managed' = managed \cup {task.iface}
    /\ left' = left \ {task.iface}
    /\ AttachEnds("work")
    /\ UNCHANGED << hostVars, socketVars, pin, agentVars >>

\* detach: a failure to remove the pinned link leaves it behind.
DetachMutant(i) ==
    /\ managed' = managed \ {i}
    /\ pin' = [pin EXCEPT ![i] = IF i \in managed THEN 0 ELSE @]
    /\ UNCHANGED << registered, left, faults >>
Detach(i) ==
    /\ registered' = registered \ {i}
    /\ managed' = managed \ {i}
    /\ \/ /\ pin' = [pin EXCEPT ![i] = IF i \in managed THEN 0 ELSE @]
          /\ UNCHANGED << left, faults >>
       \/ /\ i \in managed /\ Fault
          /\ left' = left \cup {i}
          /\ UNCHANGED pin

NextDetach ==
    /\ Running("work") /\ task.toAttach = {}
    /\ \E i \in task.toDetach : /\ Detach(i)
                                /\ task' = [task EXCEPT !.toDetach = @ \ {i}]
    /\ UNCHANGED << hostVars, socketVars, agentVars >>

WorkDone ==
    /\ Running("work") /\ task.toAttach = {} /\ task.toDetach = {}
    /\ Goto(IF subscribed THEN "loop" ELSE "subscribe")
    /\ UNCHANGED << hostVars, socketVars, pinVars, registryVars, agentVars, faults >>

\* The new socket knows nothing of what happened before.  When it cannot be
\* bound the monitor starts again, after a pause.
Subscribe ==
    /\ Running("subscribe")
    /\ events' = << >>
    /\ \/ subscribed' = TRUE /\ Goto("loop") /\ UNCHANGED faults
       \/ Fault /\ subscribed' = FALSE /\ Goto("scan")
    /\ UNCHANGED << hostVars, pinVars, registryVars, agentVars >>

\* A new interface is attached after 200 ms.
Receive ==
    /\ Running("loop") /\ events # << >>
    /\ events' = Tail(events)
    /\ LET i == Head(events)[2]
       IN  task' = IF Head(events)[1] = "NewLink"
                   THEN [task EXCEPT !.at = "delay", !.iface = i]
                   ELSE [task EXCEPT !.at = "work", !.toDetach = {i}]
    /\ UNCHANGED << hostVars, subscribed, pinVars, registryVars, agentVars, faults >>

DelayOver ==
    /\ Running("delay")
    /\ task' = [task EXCEPT !.at = "work", !.iface = NoIface, !.toAttach = {task.iface}]
    /\ UNCHANGED << hostVars, socketVars, pinVars, registryVars, agentVars, faults >>

\* Every 60 s.
ReconcileMutant ==
    /\ Running("loop")
    /\ \E existing \in SUBSET Present :
           /\ Scanned(existing)
           /\ task' = [task EXCEPT !.at = "work", !.toDetach = managed \ existing]
    /\ UNCHANGED << hostVars, socketVars, pinVars, registryVars, agentVars >>
Reconcile ==
    /\ Running("loop")
    /\ \E existing \in SUBSET Present :
           /\ Scanned(existing)
           /\ task' = [task EXCEPT !.at = "work", !.toAttach = existing \ managed,
                                   !.toDetach = managed \ existing]
    /\ UNCHANGED << hostVars, socketVars, pinVars, registryVars, agentVars >>

\* The monitor returns and is started again.
StreamEnds ==
    /\ Running("loop")
    /\ Fault
    /\ events' = << >> /\ subscribed' = FALSE
    /\ Goto("scan")
    /\ UNCHANGED << hostVars, pinVars, registryVars, agentVars >>

NetlinkTask == Scan \/ CleanupOrphanedPins \/ NextAttach \/ AttachXdp \/ Register \/ NextDetach
               \/ WorkDone \/ Subscribe \/ Receive \/ DelayOver \/ Reconcile \/ StreamEnds

-----------------------------------------------------------------------------
\* A signal aborts the task; the shutdown then lists the instances and
\* detaches them one by one.
Signal ==
    /\ agent = "running"
    /\ agent' = "stopping"
    /\ UNCHANGED << hostVars, socketVars, pinVars, registryVars, task, draining, restarts, faults >>

Shutdown ==
    /\ agent = "stopping"
    /\ agent' = "draining"
    /\ draining' = managed
    /\ UNCHANGED << hostVars, socketVars, pinVars, registryVars, task, restarts, faults >>

ShutdownDetach(i) ==
    /\ agent = "draining" /\ i \in draining
    /\ draining' = draining \ {i}
    /\ Detach(i)
    /\ UNCHANGED << hostVars, socketVars, task, agent, restarts >>

\* The agent exits, or crashes: the pins stay.
Exit ==
    /\ agent # "down"
    /\ \/ agent = "draining" /\ draining = {}
       \/ restarts < MaxRestarts     \* a crash, only when a restart follows
    /\ agent' = "down"
    /\ draining' = {}
    /\ managed' = {} /\ registered' = {}
    /\ task' = Starting
    /\ events' = << >> /\ subscribed' = FALSE
    /\ UNCHANGED << hostVars, pinVars, restarts, faults >>

Restart ==
    /\ agent = "down"
    /\ restarts < MaxRestarts
    /\ restarts' = restarts + 1
    /\ agent' = "running"
    /\ UNCHANGED << hostVars, socketVars, pinVars, registryVars, task, draining, faults >>

Next ==
    \/ \E i \in Ifaces : LinkAdded(i) \/ LinkRemoved(i)
    \/ EventLost
    \/ NetlinkTask
    \/ Signal \/ Shutdown \/ Exit \/ Restart
    \/ \E i \in Ifaces : ShutdownDetach(i)

\* The runtime keeps polling a task that can go on, and the timers fire.
Fairness == WF_vars(NetlinkTask)

Spec == Init /\ [][Next]_vars /\ Fairness
-----------------------------------------------------------------------------
(***************************************************************************)
(* Properties                                                              *)
(***************************************************************************)
Stages == {"scan", "cleanup", "work", "attach", "register", "subscribe", "loop", "delay"}

\* An instance the control plane serves is one the registry has: requests never
\* reach an interface that was detached.
TypeOK ==
    /\ link \in [Ifaces -> 0 .. MaxLinks]
    /\ created \in 0 .. MaxLinks
    /\ events \in Seq({"NewLink", "DelLink"} \X Ifaces)
    /\ subscribed \in BOOLEAN
    /\ pin \in [Ifaces -> 0 .. MaxLinks]
    /\ left \subseteq Ifaces
    /\ managed \subseteq Ifaces
    /\ registered \subseteq managed
    /\ task \in [at : Stages, iface : Ifaces \cup {NoIface},
                 toAttach : SUBSET Ifaces, toDetach : SUBSET Ifaces]
    /\ agent \in {"running", "stopping", "draining", "down"}
    /\ draining \subseteq Ifaces
    /\ restarts \in 0 .. MaxRestarts
    /\ faults \in 0 .. MaxFaults

\* Once the startup of the monitor is over, a pinned XDP link belongs to an
\* instance the registry has, whatever crashes left behind, whatever came and
\* went, events were lost and scans cut short: nothing is enforced that nobody
\* manages, but for the pin of an interface whose own detach, or attach, has
\* failed since the monitor last started.
PinsAreManaged ==
    task.at = "loop" => {i \in Ifaces : pin[i] # 0} \subseteq managed \cup left

\* shutdown leaves no pin whose removal has not failed.  It does not hold: the
\* aborted task may register an instance after the shutdown has listed them,
\* or not have come to what a crash left.
Unpinned == {i \in Ifaces : pin[i] # 0} \subseteq left
ShutdownUnpins == [][agent = "draining" /\ draining = {} /\ agent' = "down" => Unpinned]_vars

\* When the agent goes on running, the registry comes to hold exactly the
\* interfaces that exist, whatever events were lost or came before the
\* subscription, whatever failed and whatever was left by a crash: the
\* periodic reconciliation is a safety net.
RegistryConverges == <>[](agent = "running") => <>[](managed = Present)

\* When the agent goes on running, every interface that exists comes to be
\* protected by an XDP program of its own.
ProtectionConverges ==
    <>[](agent = "running") => <>[](\A i \in Present : pin[i] = link[i])
=============================================================================
