----------------------------- MODULE Conntrack -----------------------------
(***************************************************************************)
(* Packets of one interface on several CPUs, from the XDP ingress and TC   *)
(* egress hooks (ebpf/src/lib.rs) through connection tracking              *)
(* (ebpf/src/conntrack.rs), policy and QoS, while the agent changes the    *)
(* policies, switches connection tracking on and off and flushes the       *)
(* table (core/src/ct_ops.rs).  Nothing is locked: a packet is a sequence  *)
(* of steps, one for each access to the table, and it goes on with what it *)
(* read.                                                                   *)
(*                                                                         *)
(* CT_TABLE_V4 and CT_TABLE_V6 are LRU hash maps: get_ptr_mut returns a    *)
(* pointer into an element, an insert takes another element, evicting a    *)
(* key when there is none, and a removed element is used again at once,    *)
(* while a CPU may still hold the pointer.  Slots are the elements.        *)
(*                                                                         *)
(* A flow is a pair of endpoints, the packet's key; its protocol is TCP,   *)
(* the one with a timeout for each state.  evaluate_policy is one step     *)
(* here and is modelled in Policy; a rate limit may drop any packet.       *)
(***************************************************************************)
EXTENDS Integers, FiniteSets, Functions

CONSTANTS Cpus, Slots,
          IngressFlows, EgressFlows,  \* the flows seen by each hook
          NewTimeout, EstablishedTimeout,
          MaxClock,                   \* bound: the time
          NoFlow, NoSlot

Flows == IngressFlows \cup EgressFlows

ASSUME TimeoutAssumption == NewTimeout \in Nat /\ EstablishedTimeout \in Nat
ASSUME FlowsAssumption == \A k \in Flows : k = << k[1], k[2] >>
ASSUME ClockAssumption == MaxClock \in Nat

VARIABLES
    policy,             \* the flows evaluate_policy passes
    conntrack_enabled,  \* the switch in FIREWALL_CONFIG
    ct,                 \* CT_TABLE: key -> slot
    value,              \* slot -> [state, seen_reply, last_seen]
    clock,              \* bpf_ktime_get_ns
    cpu,                \* the packet on each CPU and how far it is
    flushing,           \* the keys ct_flush has read and not yet removed
    passed              \* the flow of the packet decided last, if it passed

\* The operators named ...Mutant are mistakes in the operator that follows
\* them, kept to see that the properties notice them.

tableVars == << ct, value >>
controlVars == << policy, conntrack_enabled, flushing >>
vars == << tableVars, controlVars, clock, cpu, passed >>

Idle == [stage |-> "idle", key |-> NoFlow, now |-> 0, slot |-> NoSlot]

Blank == [state |-> "new", seen_reply |-> FALSE, last_seen |-> 0]

\* The maps have just been created.
Init ==
    /\ policy \in SUBSET Flows
    /\ conntrack_enabled = TRUE
    /\ ct = << >>
    /\ value = [s \in Slots |-> Blank]
    /\ clock = 0
    /\ cpu = [c \in Cpus |-> Idle]
    /\ flushing = {}
    /\ passed = NoFlow

ReverseKey(k) == << k[2], k[1] >>

Timeout(state) == IF state = "established" THEN EstablishedTimeout ELSE NewTimeout

\* now.wrapping_sub(last_seen) > timeout: a difference below zero wraps to
\* more than any timeout.
Expired(v, now) == now < v.last_seen \/ now - v.last_seen > Timeout(v.state)

\* The table becomes t.  The content of an element without a key cannot be
\* seen again, an insert writes all of it, so it is not kept.
Store(t, v) ==
    /\ ct' = t
    /\ value' = [s \in Slots |-> IF \E k \in DOMAIN t : t[k] = s THEN v[s] ELSE Blank]

Remove(k) == Store(Restrict(ct, DOMAIN ct \ {k}), value)

Goto(c, stage) == cpu' = [cpu EXCEPT ![c].stage = stage]

\* The packet of CPU c is decided.
Decide(c, result) == /\ cpu' = [cpu EXCEPT ![c] = Idle]
                     /\ passed' = result

-----------------------------------------------------------------------------
\* A packet takes its time stamp before the table is looked at.
Receive(c, k) ==
    /\ cpu[c].stage = "idle"
    /\ cpu' = [cpu EXCEPT ![c] = [stage |-> "forward", key |-> k, now |-> clock, slot |-> NoSlot]]
    /\ UNCHANGED << tableVars, controlVars, clock, passed >>

Ingress(c) == \E k \in IngressFlows : Receive(c, k)
Egress(c) == \E k \in EgressFlows : Receive(c, k)

\* What a lookup does with the entry it finds under key: an expired one is
\* removed in a step of its own.
Found(c, key, expire, touch) ==
    cpu' = [cpu EXCEPT ![c].stage = IF Expired(value[ct[key]], cpu[c].now) THEN expire ELSE touch,
                       ![c].slot = ct[key]]

LookupForward(c) ==
    /\ cpu[c].stage = "forward"
    /\ IF ~conntrack_enabled THEN Goto(c, "policy")
       ELSE IF cpu[c].key \in DOMAIN ct
            THEN Found(c, cpu[c].key, "expireForward", "touchForward")
            ELSE Goto(c, "reverse")
    /\ UNCHANGED << tableVars, controlVars, clock, passed >>

LookupReverse(c) ==
    /\ cpu[c].stage = "reverse"
    /\ IF ReverseKey(cpu[c].key) \in DOMAIN ct
       THEN Found(c, ReverseKey(cpu[c].key), "expireReverse", "touchReverse")
       ELSE Goto(c, "policy")
    /\ UNCHANGED << tableVars, controlVars, clock, passed >>

\* The removal is by key: whatever has the key by now is removed.
RemoveExpired(c) ==
    LET key == IF cpu[c].stage = "expireForward" THEN cpu[c].key ELSE ReverseKey(cpu[c].key)
    IN  /\ cpu[c].stage \in {"expireForward", "expireReverse"}
        /\ Remove(key)
        /\ cpu' = [cpu EXCEPT ![c].stage = "policy", ![c].slot = NoSlot]
        /\ UNCHANGED << controlVars, clock, passed >>

\* The entry is refreshed through the pointer, whatever is there by now.  A
\* packet of the forward direction completes the handshake once a reply was
\* seen.
TouchForward(c) ==
    /\ cpu[c].stage = "touchForward"
    /\ LET v == value[cpu[c].slot]
       IN  Store(ct, [value EXCEPT ![cpu[c].slot] =
                          [v EXCEPT !.last_seen = cpu[c].now,
                                    !.state = IF v.seen_reply THEN "established" ELSE @]])
    /\ cpu' = [cpu EXCEPT ![c].stage = "hit", ![c].slot = NoSlot]
    /\ UNCHANGED << controlVars, clock, passed >>

TouchReverse(c) ==
    /\ cpu[c].stage = "touchReverse"
    /\ Store(ct, [value EXCEPT ![cpu[c].slot].last_seen = cpu[c].now,
                               ![cpu[c].slot].seen_reply = TRUE])
    /\ cpu' = [cpu EXCEPT ![c].stage = "hit", ![c].slot = NoSlot]
    /\ UNCHANGED << controlVars, clock, passed >>

\* A packet of a known connection skips the policies.
FastPath(c) ==
    /\ cpu[c].stage = "hit"
    /\ \E result \in {cpu[c].key, NoFlow} : Decide(c, result)
    /\ UNCHANGED << tableVars, controlVars, clock >>

EvaluateMutant(c) ==
    /\ cpu[c].stage = "policy"
    /\ Goto(c, "create")
    /\ UNCHANGED << tableVars, controlVars, clock, passed >>
Evaluate(c) ==
    /\ cpu[c].stage = "policy"
    /\ IF cpu[c].key \in policy THEN Goto(c, "create") /\ UNCHANGED passed
                                ELSE Decide(c, NoFlow)
    /\ UNCHANGED << tableVars, controlVars, clock >>

\* The insert of a new entry replaces the one of the same key.  It takes a
\* free slot or one whose key is evicted.
InsertMutant(k, s, now) ==
    /\ Store([j \in DOMAIN ct \cup {k} |-> IF j = k THEN s ELSE ct[j]],
             [value EXCEPT ![s] = [state |-> "new", seen_reply |-> FALSE, last_seen |-> now]])
Insert(k, s, now) ==
    LET others == {j \in DOMAIN ct \ {k} : ct[j] # s}
    IN  /\ s \notin {ct[j] : j \in DOMAIN ct} \/ {ct[j] : j \in DOMAIN ct} = Slots
        /\ Store([j \in others \cup {k} |-> IF j = k THEN s ELSE ct[j]],
                 [value EXCEPT ![s] =
                     [state |-> "new", seen_reply |-> FALSE, last_seen |-> now]])

\* A packet the rate limit drops creates no entry; a failing insert goes
\* unnoticed.
Create(c) ==
    /\ cpu[c].stage = "create"
    /\ \/ Decide(c, NoFlow) /\ UNCHANGED tableVars
       \/ /\ Decide(c, cpu[c].key)
          /\ \/ conntrack_enabled /\ \E s \in Slots : Insert(cpu[c].key, s, cpu[c].now)
             \/ UNCHANGED tableVars
    /\ UNCHANGED << controlVars, clock >>

-----------------------------------------------------------------------------
\* The handlers of policies and groups.
SetPolicy ==
    /\ policy' \in SUBSET Flows
    /\ UNCHANGED << tableVars, conntrack_enabled, flushing, clock, cpu, passed >>

UpdateConfig ==
    /\ conntrack_enabled' \in BOOLEAN
    /\ UNCHANGED << tableVars, policy, flushing, clock, cpu, passed >>

\* ct_flush reads all keys, then removes them one by one.
FlushRead ==
    /\ flushing = {}
    /\ flushing' = DOMAIN ct
    /\ UNCHANGED << tableVars, policy, conntrack_enabled, clock, cpu, passed >>

FlushRemove(k) ==
    /\ k \in flushing
    /\ flushing' = flushing \ {k}
    /\ Remove(k)
    /\ UNCHANGED << policy, conntrack_enabled, clock, cpu, passed >>

Tick ==
    /\ clock < MaxClock
    /\ clock' = clock + 1
    /\ UNCHANGED << tableVars, controlVars, cpu, passed >>

Packet(c) ==
    \/ Ingress(c) \/ Egress(c)
    \/ LookupForward(c) \/ LookupReverse(c)
    \/ RemoveExpired(c) \/ TouchForward(c) \/ TouchReverse(c) \/ FastPath(c)
    \/ Evaluate(c) \/ Create(c)

Next ==
    \/ \E c \in Cpus : Packet(c)
    \/ SetPolicy \/ UpdateConfig
    \/ FlushRead \/ \E k \in Flows : FlushRemove(k)
    \/ Tick

Spec == Init /\ [][Next]_vars
-----------------------------------------------------------------------------
(***************************************************************************)
(* Properties                                                              *)
(***************************************************************************)
Stages == {"idle", "forward", "reverse", "expireForward", "expireReverse",
           "touchForward", "touchReverse", "hit", "policy", "create"}

\* A packet that is past its lookup or its policy will pass, or be limited.
Admitted(c) == cpu[c].stage \in {"touchForward", "touchReverse", "hit", "create"}

Known == DOMAIN ct \cup {cpu[c].key : c \in {d \in Cpus : Admitted(d)}}

OpenFlows == LET known == Known IN {k \in Flows : k \in known \/ ReverseKey(k) \in known}

\* Whatever CPUs, handlers, flushes and evictions do in between: a connection
\* whose entries and packets in flight are gone stays closed until a policy
\* permits one of its flows, and no packet of a closed connection passes.
Gate == INSTANCE Admission WITH permitted <- policy, open <- OpenFlows

ImplementsAdmission == Gate!Spec

\* No two keys share an element of the map, also while elements are evicted
\* and replaced, and the CPUs hold pointers to elements only.
TypeOK ==
    /\ policy \subseteq Flows
    /\ conntrack_enabled \in BOOLEAN
    /\ DOMAIN ct \subseteq Flows
    /\ \A j, k \in DOMAIN ct : ct[j] \in Slots /\ (ct[j] = ct[k] => j = k)
    /\ value \in [Slots -> [state : {"new", "established"}, seen_reply : BOOLEAN,
                            last_seen : 0 .. MaxClock]]
    /\ clock \in 0 .. MaxClock
    /\ cpu \in [Cpus -> [stage : Stages, key : Flows \cup {NoFlow}, now : 0 .. MaxClock,
                         slot : Slots \cup {NoSlot}]]
    /\ flushing \subseteq Flows
    /\ passed \in Flows \cup {NoFlow}

\* "Not found or expired - needs policy evaluation": a lookup that goes on
\* with the policies leaves entries in place that are not expired.
OnlyExpiredRemoved ==
    [][\A c \in Cpus, k \in DOMAIN ct :
           /\ cpu[c].stage \in {"expireForward", "expireReverse"}
           /\ cpu'[c].stage = "policy"
           /\ k \notin DOMAIN ct'
           => clock - value[ct[k]].last_seen > Timeout(value[ct[k]].state)]_vars
=============================================================================
