-------------------------- MODULE ConntrackProofs --------------------------
(***************************************************************************)
(* For every number of CPUs, flows and map elements, all time-outs and any *)
(* length of time: connection tracking keeps its table well-formed and     *)
(* implements the gate of Admission.                                       *)
(***************************************************************************)
EXTENDS Conntrack, TLAPS

Entries == [state : {"new", "established"}, seen_reply : BOOLEAN, last_seen : 0 .. MaxClock]

Packets == [stage : Stages, key : Flows \cup {NoFlow}, now : 0 .. MaxClock,
            slot : Slots \cup {NoSlot}]

\* A CPU that is busy has a packet of the interface.
PacketsHaveFlows == \A c \in Cpus : cpu[c].stage # "idle" => cpu[c].key \in Flows

\* A CPU that is to refresh an entry has a pointer to an element.
PointersHeld ==
    \A c \in Cpus : cpu[c].stage \in {"touchForward", "touchReverse"} => cpu[c].slot \in Slots

\* The inductive invariant.
IInv == TypeOK /\ PacketsHaveFlows /\ PointersHeld

(***************************************************************************)
(* The table and the CPUs are changed through a few operators only, and    *)
(* what the invariant says of each can be kept apart.                      *)
(***************************************************************************)
TableOK == /\ DOMAIN ct \subseteq Flows
           /\ \A j, k \in DOMAIN ct : ct[j] \in Slots /\ (ct[j] = ct[k] => j = k)
           /\ value \in [Slots -> Entries]

CpusOK == /\ cpu \in [Cpus -> Packets]
          /\ PacketsHaveFlows
          /\ PointersHeld

ControlOK == /\ policy \subseteq Flows
             /\ conntrack_enabled \in BOOLEAN
             /\ flushing \subseteq Flows

\* The invariant, part by part.
LEMMA IInvDef == IInv <=> TableOK /\ CpusOK /\ ControlOK /\ clock \in 0 .. MaxClock
                                            /\ passed \in Flows \cup {NoFlow}
BY DEF IInv, TypeOK, TableOK, CpusOK, ControlOK, Entries, Packets

\* The same of the next state.
LEMMA IInvDefPrimed == IInv' <=> TableOK' /\ CpusOK' /\ ControlOK' /\ clock' \in 0 .. MaxClock
                                                     /\ passed' \in Flows \cup {NoFlow}
BY DEF IInv, TypeOK, TableOK, CpusOK, ControlOK, Entries, Packets, PacketsHaveFlows, PointersHeld

\* A new or freed element is blank.
LEMMA BlankType == Blank \in Entries
BY ClockAssumption DEF Blank, Entries

\* Storing a table without shared elements keeps the table well-formed.
LEMMA StoreOK ==
    ASSUME NEW t, DOMAIN t \subseteq Flows,
           \A j, k \in DOMAIN t : t[j] \in Slots /\ (t[j] = t[k] => j = k),
           NEW v \in [Slots -> Entries], Store(t, v)
    PROVE  TableOK'
<1>1. value' \in [Slots -> Entries]
    BY BlankType DEF Store
<1>2. QED BY <1>1 DEF Store, TableOK

\* A removal keeps the table well-formed, also of a key it does not have.
LEMMA RemoveOK ==
    ASSUME TableOK, NEW k, Remove(k)
    PROVE  TableOK' /\ DOMAIN ct' = DOMAIN ct \ {k}
<1> DEFINE t == Restrict(ct, DOMAIN ct \ {k})
<1>1. DOMAIN t = DOMAIN ct \ {k} /\ \A j \in DOMAIN t : t[j] = ct[j]
    BY DEF Restrict
<1>2. Store(t, value)
    BY DEF Remove
<1>3. TableOK'
    BY <1>1, <1>2, StoreOK DEF TableOK
<1>4. QED BY <1>1, <1>2, <1>3 DEF Store

\* So does an insert, which takes the element from the key that has it.
LEMMA InsertOK ==
    ASSUME TableOK, NEW k \in Flows, NEW s \in Slots, NEW now \in 0 .. MaxClock,
           Insert(k, s, now)
    PROVE  TableOK' /\ DOMAIN ct' \subseteq DOMAIN ct \cup {k}
<1> DEFINE others == {j \in DOMAIN ct \ {k} : ct[j] # s}
           t      == [j \in others \cup {k} |-> IF j = k THEN s ELSE ct[j]]
           entry  == [state |-> "new", seen_reply |-> FALSE, last_seen |-> now]
           v      == [value EXCEPT ![s] = entry]
<1>1. Store(t, v)
    BY DEF Insert
<1>2. entry \in Entries
    BY DEF Entries
<1>3. v \in [Slots -> Entries]
    BY <1>2 DEF TableOK
<1>4. DOMAIN t \subseteq DOMAIN ct \cup {k} /\ DOMAIN t \subseteq Flows
    BY DEF TableOK
<1>5. \A i, j \in DOMAIN t : t[i] \in Slots /\ (t[i] = t[j] => i = j)
  <2>1. \A i, j \in others : ct[i] \in Slots /\ ct[i] # s /\ (ct[i] = ct[j] => i = j)
      BY DEF TableOK
  <2>2. t[k] = s /\ \A j \in others : t[j] = ct[j]
      OBVIOUS
  <2>3. DOMAIN t = others \cup {k}
      OBVIOUS
  <2> HIDE DEF others, t
  <2>4. QED BY <2>1, <2>2, <2>3
<1>6. TableOK'
  <2> HIDE DEF others, t, entry, v
  <2>1. QED BY <1>1, <1>3, <1>4, <1>5, StoreOK
<1>7. QED BY <1>1, <1>4, <1>6 DEF Store

\* A packet that goes on, with a pointer when it will refresh an entry.
LEMMA CpuOK ==
    ASSUME CpusOK, NEW c \in Cpus, NEW p \in Packets,
           p.stage # "idle" => p.key \in Flows,
           p.stage \in {"touchForward", "touchReverse"} => p.slot \in Slots,
           cpu' = [cpu EXCEPT ![c] = p]
    PROVE  CpusOK'
<1>1. cpu' \in [Cpus -> Packets] /\ \A d \in Cpus : cpu'[d] = IF d = c THEN p ELSE cpu[d]
    BY DEF CpusOK
<1>2. QED BY <1>1 DEF CpusOK, PacketsHaveFlows, PointersHeld
(***************************************************************************)
(* The invariant, step by step.                                            *)
(***************************************************************************)
\* The maps have just been created and no CPU has a packet.
LEMMA InitInv == Init => IInv
<1> SUFFICES ASSUME Init PROVE IInv
    OBVIOUS
<1>1. TableOK
  <2>1. DOMAIN << >> = {}
      OBVIOUS
  <2>2. QED BY <2>1, BlankType DEF Init, TableOK
<1>2. CpusOK
  <2>1. Idle \in Packets
      BY ClockAssumption DEF Idle, Packets, Stages
  <2>2. QED BY <2>1 DEF Init, CpusOK, PacketsHaveFlows, PointersHeld, Idle
<1>3. ControlOK
    BY DEF Init, ControlOK
<1>4. QED BY <1>1, <1>2, <1>3, IInvDef, ClockAssumption DEF Init

\* A step of a CPU that leaves the policies and switches alone, and either the
\* table alone or well-formed, and after which the CPU is idle or has the
\* packet it had, at another stage.
LEMMA CpuStep ==
    ASSUME IInv, NEW c \in Cpus, NEW p \in Packets, cpu' = [cpu EXCEPT ![c] = p],
           p.stage # "idle" => p.key \in Flows,
           p.stage \in {"touchForward", "touchReverse"} => p.slot \in Slots,
           UNCHANGED << controlVars, clock >>,
           UNCHANGED tableVars \/ TableOK',
           passed' \in Flows \cup {NoFlow}
    PROVE  IInv'
<1>1. TableOK /\ CpusOK /\ ControlOK /\ clock \in 0 .. MaxClock
    BY IInvDef
<1>2. CpusOK'
    BY <1>1, CpuOK
<1>3. ControlOK' /\ TableOK'
    BY <1>1 DEF ControlOK, controlVars, TableOK, tableVars
<1>4. QED BY <1>1, <1>2, <1>3, IInvDefPrimed

\* What a busy CPU holds.
LEMMA BusyCpu ==
    ASSUME IInv, NEW c \in Cpus
    PROVE  /\ cpu[c] \in Packets
           /\ cpu[c].stage # "idle" => cpu[c].key \in Flows
           /\ cpu[c].stage \in {"touchForward", "touchReverse"} => cpu[c].slot \in Slots
           /\ passed \in Flows \cup {NoFlow}
BY IInvDef DEF CpusOK, PacketsHaveFlows, PointersHeld

\* The CPU goes on with its packet, without a pointer to keep.
LEMMA GotoStep ==
    ASSUME IInv, NEW c \in Cpus, cpu[c].stage # "idle",
           NEW stage \in Stages \ {"touchForward", "touchReverse"}, NEW slot,
           slot \in {cpu[c].slot, NoSlot},
           cpu' = [cpu EXCEPT ![c].stage = stage, ![c].slot = slot],
           UNCHANGED << controlVars, clock, passed >>,
           UNCHANGED tableVars \/ TableOK'
    PROVE  IInv'
<1> DEFINE p == [cpu[c] EXCEPT !.stage = stage, !.slot = slot]
<1>1. cpu[c] \in Packets /\ cpu \in [Cpus -> Packets]
    BY IInvDef DEF CpusOK
<1>2. p \in Packets /\ p.stage = stage /\ p.key = cpu[c].key
    BY <1>1 DEF Packets
<1>3. cpu' = [cpu EXCEPT ![c] = p]
    BY <1>1
<1>4. QED BY <1>2, <1>3, BusyCpu, CpuStep

\* The packet is decided.
LEMMA DecideStep ==
    ASSUME IInv, NEW c \in Cpus, NEW result \in Flows \cup {NoFlow}, Decide(c, result),
           UNCHANGED << controlVars, clock >>, UNCHANGED tableVars \/ TableOK'
    PROVE  IInv'
<1>1. Idle \in Packets /\ Idle.stage = "idle"
    BY ClockAssumption DEF Idle, Packets, Stages
<1>2. QED BY <1>1, CpuStep DEF Decide

\* A lookup that finds its key takes the pointer of the entry with it.
LEMMA FoundStep ==
    ASSUME IInv, NEW c \in Cpus, cpu[c].stage # "idle", NEW key \in DOMAIN ct,
           NEW expire \in Stages \ {"touchForward", "touchReverse"},
           NEW touch \in {"touchForward", "touchReverse"}, Found(c, key, expire, touch),
           UNCHANGED << controlVars, clock, passed >>, UNCHANGED tableVars
    PROVE  IInv'
<1> DEFINE stage == IF Expired(value[ct[key]], cpu[c].now) THEN expire ELSE touch
           p     == [cpu[c] EXCEPT !.stage = stage, !.slot = ct[key]]
<1>1. cpu[c] \in Packets /\ cpu \in [Cpus -> Packets] /\ ct[key] \in Slots
    BY IInvDef DEF CpusOK, TableOK
<1>2. stage \in Stages
    BY DEF Stages
<1>3. cpu' = [cpu EXCEPT ![c] = p]
  <2> HIDE DEF stage
  <2>1. Found(c, key, expire, touch) <=>
            cpu' = [cpu EXCEPT ![c].stage = stage, ![c].slot = ct[key]]
      BY DEF Found, stage
  <2>2. QED BY <2>1, <1>1
<1>4. p \in Packets /\ p.key = cpu[c].key /\ p.slot \in Slots
  <2> HIDE DEF stage
  <2>1. QED BY <1>1, <1>2 DEF Packets
<1>5. QED BY <1>3, <1>4, BusyCpu, CpuStep

\* Refreshing an entry keeps the table well-formed.
LEMMA TouchOK ==
    ASSUME TableOK, NEW s \in Slots, NEW v \in Entries, Store(ct, [value EXCEPT ![s] = v])
    PROVE  TableOK'
<1>1. [value EXCEPT ![s] = v] \in [Slots -> Entries]
    BY DEF TableOK
<1>2. QED BY <1>1, StoreOK DEF TableOK

\* What a packet does next keeps the invariant.
LEMMA PacketInv ==
    ASSUME IInv, NEW c \in Cpus, Packet(c)
    PROVE  IInv'
<1>1. TableOK /\ clock \in 0 .. MaxClock /\ cpu \in [Cpus -> Packets]
    BY IInvDef DEF CpusOK
<1>2. /\ cpu[c] \in Packets
      /\ cpu[c].stage # "idle" => cpu[c].key \in Flows
      /\ cpu[c].stage \in {"touchForward", "touchReverse"} => cpu[c].slot \in Slots
      /\ passed \in Flows \cup {NoFlow}
    BY BusyCpu
<1>3. ASSUME NEW stage \in Stages, cpu[c].stage # "idle",
             stage \notin {"touchForward", "touchReverse"},
             Goto(c, stage), UNCHANGED << controlVars, clock, passed >>,
             UNCHANGED tableVars
      PROVE  IInv'
  <2>1. cpu' = [cpu EXCEPT ![c].stage = stage, ![c].slot = cpu[c].slot]
      BY <1>1, <1>2, <1>3 DEF Goto, Packets
  <2>2. QED BY <2>1, <1>3, GotoStep
<1>4. CASE Ingress(c) \/ Egress(c)
  <2>1. PICK k \in Flows : Receive(c, k)
      BY <1>4 DEF Ingress, Egress, Flows
  <2> DEFINE p == [stage |-> "forward", key |-> k, now |-> clock, slot |-> NoSlot]
  <2>2. p \in Packets
      BY <1>1 DEF Packets, Stages
  <2>3. QED BY <2>1, <2>2, <1>2, CpuStep DEF Receive
<1>5. CASE LookupForward(c)
  <2>1. CASE conntrack_enabled /\ cpu[c].key \in DOMAIN ct
      BY <2>1, <1>5, FoundStep DEF LookupForward, Stages
  <2>2. CASE ~conntrack_enabled
      BY <2>2, <1>3, <1>5 DEF LookupForward, Stages
  <2>3. CASE conntrack_enabled /\ cpu[c].key \notin DOMAIN ct
      BY <2>3, <1>3, <1>5 DEF LookupForward, Stages
  <2>4. QED BY <2>1, <2>2, <2>3
<1>6. CASE LookupReverse(c)
  <2>1. CASE ReverseKey(cpu[c].key) \in DOMAIN ct
      BY <2>1, <1>6, FoundStep DEF LookupReverse, Stages
  <2>2. CASE ReverseKey(cpu[c].key) \notin DOMAIN ct
      BY <2>2, <1>3, <1>6 DEF LookupReverse, Stages
  <2>3. QED BY <2>1, <2>2
<1>7. CASE RemoveExpired(c)
  <2>1. TableOK'
      BY <1>1, <1>7, RemoveOK DEF RemoveExpired
  <2>2. QED BY <2>1, <1>7, GotoStep DEF RemoveExpired, Stages
<1>8. CASE TouchForward(c)
  <2> DEFINE v == value[cpu[c].slot]
             w == [v EXCEPT !.last_seen = cpu[c].now,
                            !.state = IF v.seen_reply THEN "established" ELSE @]
  <2>1. w \in Entries
    <3>1. v \in Entries
        BY <1>1, <1>2, <1>8 DEF TouchForward, TableOK
    <3>2. cpu[c].now \in 0 .. MaxClock
        BY <1>2 DEF Packets
    <3>3. \A n \in 0 .. MaxClock, e \in {"new", "established"} :
              [v EXCEPT !.last_seen = n, !.state = e] \in Entries
        BY <3>1 DEF Entries
    <3>4. (IF v.seen_reply THEN "established" ELSE v.state) \in {"new", "established"}
        BY <3>1 DEF Entries
    <3>5. QED BY <3>2, <3>3, <3>4
  <2>2. TableOK'
      BY <2>1, <1>1, <1>2, <1>8, TouchOK DEF TouchForward
  <2>3. QED BY <2>2, <1>8, GotoStep DEF TouchForward, Stages
<1>9. CASE TouchReverse(c)
  <2> DEFINE w == [value[cpu[c].slot] EXCEPT !.last_seen = cpu[c].now, !.seen_reply = TRUE]
  <2>1. w \in Entries
      BY <1>1, <1>2, <1>9 DEF TouchReverse, TableOK, Entries, Packets
  <2>2. TableOK'
    <3>1. Store(ct, [value EXCEPT ![cpu[c].slot] = w])
        BY <1>1, <1>2, <1>9 DEF TouchReverse, TableOK, Entries
    <3>2. QED BY <3>1, <2>1, <1>1, <1>2, <1>9, TouchOK DEF TouchReverse
  <2>3. QED BY <2>2, <1>9, GotoStep DEF TouchReverse, Stages
<1>10. CASE FastPath(c)
    BY <1>2, <1>10, DecideStep DEF FastPath
<1>11. CASE Evaluate(c)
  <2>1. CASE cpu[c].key \in policy
      BY <2>1, <1>3, <1>11 DEF Evaluate, Stages
  <2>2. CASE cpu[c].key \notin policy
      BY <2>2, <1>11, DecideStep DEF Evaluate
  <2>3. QED BY <2>1, <2>2
<1>12. CASE Create(c)
  <2>1. UNCHANGED tableVars \/ TableOK'
      BY <1>1, <1>2, <1>12, InsertOK DEF Create, Packets
  <2>2. \E result \in Flows \cup {NoFlow} : Decide(c, result)
      BY <1>2, <1>12 DEF Create
  <2>3. QED BY <2>1, <2>2, <1>12, DecideStep DEF Create
<1>13. QED
    BY <1>4, <1>5, <1>6, <1>7, <1>8, <1>9, <1>10, <1>11, <1>12 DEF Packet

\* Every step keeps the invariant.
LEMMA StepInv == IInv /\ [Next]_vars => IInv'
<1> SUFFICES ASSUME IInv, [Next]_vars PROVE IInv'
    OBVIOUS
<1>1. TableOK /\ CpusOK /\ ControlOK /\ clock \in 0 .. MaxClock /\ passed \in Flows \cup {NoFlow}
    BY IInvDef
<1>2. ASSUME NEW c \in Cpus, Packet(c) PROVE IInv'
    BY <1>2, PacketInv
<1>3. UNCHANGED cpu => CpusOK'
    BY <1>1 DEF CpusOK, PacketsHaveFlows, PointersHeld
<1>4. UNCHANGED tableVars => TableOK'
    BY <1>1 DEF TableOK, tableVars
<1>5. CASE SetPolicy
    BY <1>1, <1>3, <1>4, <1>5, IInvDefPrimed DEF SetPolicy, ControlOK
<1>6. CASE UpdateConfig
    BY <1>1, <1>3, <1>4, <1>6, IInvDefPrimed DEF UpdateConfig, ControlOK
<1>7. CASE FlushRead
    BY <1>1, <1>3, <1>4, <1>7, IInvDefPrimed DEF FlushRead, ControlOK, TableOK
<1>8. ASSUME NEW k \in Flows, FlushRemove(k) PROVE IInv'
  <2>1. TableOK'
      BY <1>1, <1>8, RemoveOK DEF FlushRemove
  <2>2. QED BY <2>1, <1>1, <1>3, <1>8, IInvDefPrimed DEF FlushRemove, ControlOK
<1>9. CASE Tick
  <2>1. clock' \in 0 .. MaxClock
      BY <1>1, <1>9, ClockAssumption DEF Tick
  <2>2. ControlOK'
      BY <1>1, <1>9 DEF Tick, controlVars, ControlOK
  <2>3. QED BY <2>1, <2>2, <1>1, <1>3, <1>4, <1>9, IInvDefPrimed DEF Tick
<1>10. CASE UNCHANGED vars
    BY <1>1, <1>3, <1>4, <1>10, IInvDefPrimed DEF vars, controlVars, ControlOK
<1>11. QED BY <1>2, <1>5, <1>6, <1>7, <1>8, <1>9, <1>10 DEF Next

\* The inductive invariant holds in every reachable state.
THEOREM Invariant == Spec => []IInv
<1>1. QED BY InitInv, StepInv, PTL DEF Spec

\* No two keys share an element of the map, and the fields keep their types.
THEOREM TypeCorrect == Spec => []TypeOK
<1>1. IInv => TypeOK
    BY DEF IInv
<1>2. QED BY <1>1, Invariant, PTL
(***************************************************************************)
(* The gate.  What a step does to the open connections depends on the keys *)
(* known before and after it.                                              *)
(***************************************************************************)
AdmittedStages == {"touchForward", "touchReverse", "hit", "create"}

\* The reverse of the reverse of a flow is the flow.
LEMMA ReverseTwice ==
    ASSUME NEW k \in Flows
    PROVE  ReverseKey(ReverseKey(k)) = k
BY FlowsAssumption DEF ReverseKey

\* A connection is open that has an entry or an admitted packet.
LEMMA KnownDef ==
    ASSUME NEW k
    PROVE  k \in Known <=> \/ k \in DOMAIN ct
                           \/ \E d \in Cpus : cpu[d].stage \in AdmittedStages /\ cpu[d].key = k
BY DEF Known, Admitted, AdmittedStages

\* The same of the next state.
LEMMA KnownDefPrimed ==
    ASSUME NEW k
    PROVE  k \in Known' <=> \/ k \in DOMAIN ct'
                            \/ \E d \in Cpus : cpu'[d].stage \in AdmittedStages /\ cpu'[d].key = k
BY DEF Known, Admitted, AdmittedStages

\* The flows of a known key are open, in both directions.
LEMMA KnownIsOpen ==
    ASSUME NEW k \in Flows, k \in Known \/ ReverseKey(k) \in Known
    PROVE  k \in OpenFlows
BY DEF OpenFlows

\* Keys of open connections that become known open nothing.
LEMMA NoNewOpen ==
    ASSUME Known' \subseteq Known \cup OpenFlows
    PROVE  OpenFlows' \subseteq OpenFlows
<1> SUFFICES ASSUME NEW k \in Flows, k \in Known' \/ ReverseKey(k) \in Known'
             PROVE  k \in OpenFlows
    BY DEF OpenFlows
<1>1. CASE k \in Known \/ ReverseKey(k) \in Known
    BY <1>1, KnownIsOpen
<1>2. CASE k \in OpenFlows
    BY <1>2
<1>3. CASE ReverseKey(k) \in OpenFlows
  <2>1. ReverseKey(k) \in Known \/ ReverseKey(ReverseKey(k)) \in Known
      BY <1>3 DEF OpenFlows
  <2>2. QED BY <2>1, ReverseTwice, KnownIsOpen
<1>4. QED BY <1>1, <1>2, <1>3

\* A step of a CPU opens nothing when it inserts and admits open flows only.
LEMMA CpuOpensNothing ==
    ASSUME IInv, NEW c \in Cpus, NEW p, cpu' = [cpu EXCEPT ![c] = p],
           DOMAIN ct' \subseteq DOMAIN ct \cup OpenFlows,
           p.stage \in AdmittedStages => p.key \in OpenFlows
    PROVE  OpenFlows' \subseteq OpenFlows
<1>1. \A d \in Cpus : cpu'[d] = IF d = c THEN p ELSE cpu[d]
    BY IInvDef DEF CpusOK
<1>2. ASSUME NEW k \in Known' PROVE k \in Known \cup OpenFlows
    BY <1>1, <1>2, KnownDef, KnownDefPrimed
<1>3. QED BY <1>2, NoNewOpen

\* A step that leaves the CPUs alone and inserts nothing opens nothing.
LEMMA AgentOpensNothing ==
    ASSUME UNCHANGED cpu, DOMAIN ct' \subseteq DOMAIN ct
    PROVE  OpenFlows' \subseteq OpenFlows
<1>1. ASSUME NEW k \in Known' PROVE k \in Known \cup OpenFlows
    BY <1>1, KnownDef, KnownDefPrimed
<1>2. QED BY <1>1, NoNewOpen

\* Steps that decide nothing and open nothing close connections, or none.
LEMMA CloseStep ==
    ASSUME OpenFlows' \subseteq OpenFlows, UNCHANGED << policy, passed >>
    PROVE  Gate!Next
BY DEF Gate!Next, Gate!Close

\* A decision passes a packet of an open connection or drops it.
LEMMA DecisionRefines ==
    ASSUME IInv, NEW c \in Cpus, NEW result \in OpenFlows \cup {NoFlow}, Decide(c, result),
           DOMAIN ct' \subseteq DOMAIN ct \cup OpenFlows, UNCHANGED policy
    PROVE  Gate!Next
<1>1. OpenFlows' \subseteq OpenFlows
  <2>1. Idle.stage \notin AdmittedStages
      BY DEF Idle, AdmittedStages
  <2>2. QED BY <2>1, CpuOpensNothing DEF Decide
<1>2. CASE result = NoFlow
    BY <1>1, <1>2 DEF Decide, Gate!Next, Gate!Drop
<1>3. CASE result \in OpenFlows
  <2>1. result \in Flows
      BY <1>3 DEF OpenFlows
  <2>2. QED BY <1>1, <1>3, <2>1 DEF Decide, Gate!Next, Gate!Pass
<1>4. QED BY <1>2, <1>3

\* A packet that goes on to a stage where it is not admitted opens nothing,
\* nor does one whose connection is open.
LEMMA GotoRefines ==
    ASSUME IInv, NEW c \in Cpus, NEW stage, NEW slot,
           stage \in AdmittedStages => cpu[c].key \in OpenFlows,
           cpu' = [cpu EXCEPT ![c].stage = stage, ![c].slot = slot],
           DOMAIN ct' \subseteq DOMAIN ct, UNCHANGED << policy, passed >>
    PROVE  Gate!Next
<1> DEFINE p == [cpu[c] EXCEPT !.stage = stage, !.slot = slot]
<1>1. cpu[c] \in Packets /\ cpu \in [Cpus -> Packets]
    BY IInvDef DEF CpusOK
<1>2. p.stage = stage /\ p.key = cpu[c].key
    BY <1>1 DEF Packets
<1>3. cpu' = [cpu EXCEPT ![c] = p]
    BY <1>1
<1>4. OpenFlows' \subseteq OpenFlows
  <2> HIDE DEF p
  <2>1. QED BY <1>2, <1>3, CpuOpensNothing
<1>5. QED BY <1>4, CloseStep

\* An admitted packet belongs to an open connection.
LEMMA AdmittedIsOpen ==
    ASSUME IInv, NEW c \in Cpus, cpu[c].stage \in AdmittedStages
    PROVE  cpu[c].key \in OpenFlows
<1>1. cpu[c].key \in Flows
    BY BusyCpu DEF AdmittedStages
<1>2. cpu[c].key \in Known
    BY KnownDef
<1>3. QED BY <1>1, <1>2, KnownIsOpen

\* A flow the policies pass is opened, with its reverse.
LEMMA EvaluateOpens ==
    ASSUME IInv, NEW c \in Cpus, Evaluate(c), cpu[c].key \in policy
    PROVE  Gate!Next
<1> DEFINE k == cpu[c].key
<1>1. k \in Flows /\ cpu \in [Cpus -> Packets]
    BY IInvDef DEF CpusOK, ControlOK
<1>2. /\ \A d \in Cpus : cpu'[d] = IF d = c THEN [cpu[c] EXCEPT !.stage = "create"] ELSE cpu[d]
      /\ cpu'[c].stage = "create" /\ cpu'[c].key = k
    BY <1>1 DEF Evaluate, Goto, Packets
<1>3. DOMAIN ct' = DOMAIN ct /\ UNCHANGED << policy, passed >>
    BY DEF Evaluate, tableVars, controlVars
<1>4. \A j : j \in Known' <=> j \in Known \/ j = k
  <2>1. cpu[c].stage \notin AdmittedStages /\ cpu'[c].stage \in AdmittedStages
      BY <1>2 DEF Evaluate, AdmittedStages
  <2>2. \A d \in Cpus \ {c} : cpu'[d] = cpu[d]
      BY <1>2
  <2>3. QED BY <1>2, <1>3, <2>1, <2>2, KnownDef, KnownDefPrimed
<1>5. \A j \in Flows : j \in {k, ReverseKey(k)} <=> j = k \/ ReverseKey(j) = k
    BY <1>1, ReverseTwice
<1>6. OpenFlows' = OpenFlows \cup ({k, ReverseKey(k)} \cap Flows)
    BY <1>4, <1>5 DEF OpenFlows
<1>7. Gate!Open(k)
    BY <1>3, <1>6 DEF Gate!Open, Gate!Reverse, ReverseKey
<1>8. QED BY <1>1, <1>7 DEF Gate!Next

\* Every step of a packet is a step of the gate.
LEMMA PacketRefines ==
    ASSUME IInv, NEW c \in Cpus, Packet(c)
    PROVE  Gate!Next
<1>1. cpu[c] \in Packets /\ cpu \in [Cpus -> Packets] /\ TableOK
    BY IInvDef DEF CpusOK
<1>2. cpu[c].stage # "idle" => cpu[c].key \in Flows
    BY BusyCpu
<1>3. ASSUME NEW stage, stage \in AdmittedStages => cpu[c].key \in OpenFlows,
             Goto(c, stage), UNCHANGED << policy, passed, ct >>
      PROVE  Gate!Next
  <2>1. cpu' = [cpu EXCEPT ![c].stage = stage, ![c].slot = cpu[c].slot]
      BY <1>1, <1>3 DEF Goto, Packets
  <2>2. QED BY <2>1, <1>3, GotoRefines
<1>4. CASE Ingress(c) \/ Egress(c)
  <2>1. PICK k \in Flows : Receive(c, k)
      BY <1>4 DEF Ingress, Egress, Flows
  <2> DEFINE p == [stage |-> "forward", key |-> k, now |-> clock, slot |-> NoSlot]
  <2>2. p.stage \notin AdmittedStages
      BY DEF AdmittedStages
  <2>3. OpenFlows' \subseteq OpenFlows
      BY <2>1, <2>2, CpuOpensNothing DEF Receive, tableVars
  <2>4. QED BY <2>1, <2>3, CloseStep DEF Receive, controlVars
<1>5. ASSUME NEW key \in DOMAIN ct, key = cpu[c].key \/ key = ReverseKey(cpu[c].key),
             cpu[c].stage # "idle",
             NEW expire, expire \notin AdmittedStages, NEW touch, Found(c, key, expire, touch),
             UNCHANGED << policy, passed, ct >>
      PROVE  Gate!Next
  <2>1. cpu[c].key \in OpenFlows
      BY <1>2, <1>5, KnownDef, KnownIsOpen
  <2> DEFINE stage == IF Expired(value[ct[key]], cpu[c].now) THEN expire ELSE touch
  <2>2. cpu' = [cpu EXCEPT ![c].stage = stage, ![c].slot = ct[key]]
      BY <1>5 DEF Found
  <2> HIDE DEF stage
  <2>3. QED BY <2>1, <2>2, <1>5, GotoRefines
<1>6. CASE LookupForward(c)
  <2>1. "reverse" \notin AdmittedStages /\ "policy" \notin AdmittedStages
            /\ "expireForward" \notin AdmittedStages
      BY DEF AdmittedStages
  <2>2. UNCHANGED << policy, passed, ct >> /\ cpu[c].stage # "idle"
      BY <1>6 DEF LookupForward, tableVars, controlVars
  <2>3. CASE conntrack_enabled /\ cpu[c].key \in DOMAIN ct
      BY <2>1, <2>2, <2>3, <1>5, <1>6 DEF LookupForward
  <2>4. CASE ~conntrack_enabled \/ cpu[c].key \notin DOMAIN ct
      BY <2>1, <2>2, <2>4, <1>3, <1>6 DEF LookupForward
  <2>5. QED BY <2>3, <2>4
<1>7. CASE LookupReverse(c)
  <2>1. "policy" \notin AdmittedStages /\ "expireReverse" \notin AdmittedStages
      BY DEF AdmittedStages
  <2>2. UNCHANGED << policy, passed, ct >> /\ cpu[c].stage # "idle"
      BY <1>7 DEF LookupReverse, tableVars, controlVars
  <2>3. CASE ReverseKey(cpu[c].key) \in DOMAIN ct
      BY <2>1, <2>2, <2>3, <1>5, <1>7 DEF LookupReverse
  <2>4. CASE ReverseKey(cpu[c].key) \notin DOMAIN ct
      BY <2>1, <2>2, <2>4, <1>3, <1>7 DEF LookupReverse
  <2>5. QED BY <2>3, <2>4
<1>8. CASE RemoveExpired(c)
  <2>1. DOMAIN ct' \subseteq DOMAIN ct
      BY <1>1, <1>8, RemoveOK DEF RemoveExpired
  <2>2. "policy" \notin AdmittedStages
      BY DEF AdmittedStages
  <2>3. QED BY <2>1, <2>2, <1>8, GotoRefines DEF RemoveExpired, controlVars
<1>9. CASE TouchForward(c) \/ TouchReverse(c)
  <2>1. cpu[c].key \in OpenFlows
      BY <1>9, AdmittedIsOpen DEF TouchForward, TouchReverse, AdmittedStages
  <2>2. /\ UNCHANGED << policy, passed, ct >>
        /\ cpu' = [cpu EXCEPT ![c].stage = "hit", ![c].slot = NoSlot]
      BY <1>9 DEF TouchForward, TouchReverse, Store, controlVars
  <2>3. QED BY <2>1, <2>2, GotoRefines
<1>10. CASE FastPath(c)
  <2>1. cpu[c].key \in OpenFlows
      BY <1>10, AdmittedIsOpen DEF FastPath, AdmittedStages
  <2>2. QED BY <2>1, <1>10, DecisionRefines DEF FastPath, tableVars, controlVars
<1>11. CASE Evaluate(c)
  <2>1. CASE cpu[c].key \notin policy
      BY <2>1, <1>11, DecisionRefines DEF Evaluate, tableVars, controlVars
  <2>2. QED BY <2>1, <1>11, EvaluateOpens
<1>12. CASE Create(c)
  <2>1. cpu[c].key \in OpenFlows /\ cpu[c].key \in Flows /\ cpu[c].now \in 0 .. MaxClock
      BY <1>1, <1>12, AdmittedIsOpen DEF Create, AdmittedStages, OpenFlows, Packets
  <2>2. DOMAIN ct' \subseteq DOMAIN ct \cup OpenFlows
      BY <1>1, <1>12, <2>1, InsertOK DEF Create, tableVars
  <2>3. \E result \in OpenFlows \cup {NoFlow} : Decide(c, result)
      BY <2>1, <1>12 DEF Create
  <2>4. UNCHANGED policy
      BY <1>12 DEF Create, controlVars
  <2>5. QED BY <2>2, <2>3, <2>4, DecisionRefines
<1>13. QED
    BY <1>4, <1>6, <1>7, <1>8, <1>9, <1>10, <1>11, <1>12 DEF Packet

\* Nothing is open in the beginning.
LEMMA InitRefines == Init => Gate!Init
<1> SUFFICES ASSUME Init PROVE Gate!Init
    OBVIOUS
<1>1. ASSUME NEW k PROVE k \notin Known
    BY KnownDef DEF Init, Idle, AdmittedStages
<1>2. OpenFlows = {}
    BY <1>1 DEF OpenFlows
<1>3. QED BY <1>2 DEF Init, Gate!Init

\* Every step is one of the gate or invisible to it.
LEMMA StepRefines == IInv /\ [Next]_vars => [Gate!Next]_(Gate!vars)
<1> SUFFICES ASSUME IInv, [Next]_vars PROVE Gate!Next \/ UNCHANGED Gate!vars
    OBVIOUS
<1>1. ASSUME NEW c \in Cpus, Packet(c) PROVE Gate!Next
    BY <1>1, PacketRefines
<1>2. CASE SetPolicy
  <2>1. UNCHANGED << cpu, ct >>
      BY <1>2 DEF SetPolicy, tableVars
  <2>2. UNCHANGED OpenFlows
      BY <2>1 DEF OpenFlows, Known, Admitted
  <2>3. Gate!SetPolicy
      BY <2>2, <1>2 DEF SetPolicy, Gate!SetPolicy
  <2>4. QED BY <2>3 DEF Gate!Next
<1>3. CASE UpdateConfig \/ FlushRead \/ Tick
    BY <1>3, AgentOpensNothing, CloseStep DEF UpdateConfig, FlushRead, Tick, tableVars, controlVars
<1>4. ASSUME NEW k \in Flows, FlushRemove(k) PROVE Gate!Next
  <2>1. DOMAIN ct' \subseteq DOMAIN ct
      BY <1>4, IInvDef, RemoveOK DEF FlushRemove
  <2>2. QED BY <2>1, <1>4, AgentOpensNothing, CloseStep DEF FlushRemove
<1>5. CASE UNCHANGED vars
  <2>1. UNCHANGED << cpu, ct, policy, passed >>
      BY <1>5 DEF vars, tableVars, controlVars
  <2>2. UNCHANGED OpenFlows
      BY <2>1 DEF OpenFlows, Known, Admitted
  <2>3. QED BY <2>1, <2>2 DEF Gate!vars
<1>6. QED BY <1>1, <1>2, <1>3, <1>4, <1>5 DEF Next

\* However packets, flushes, evictions, time-outs and policy changes
\* interleave, connection tracking is a gate: a packet passes only when its
\* connection was opened by a policy and has not been closed since.
THEOREM Refinement == Spec => ImplementsAdmission
<1>1. QED BY InitRefines, StepRefines, Invariant, PTL DEF Spec, ImplementsAdmission, Gate!Spec
=============================================================================
