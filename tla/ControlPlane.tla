---------------------------- MODULE ControlPlane ----------------------------
(***************************************************************************)
(* The REST handlers of one instance (agent/src/control_plane.rs): each    *)
(* takes the write lock of the instance and keeps it to the end, without   *)
(* an await in between, so a handler is one step.  What it does to the     *)
(* pinned eBPF maps (core/src/ebpf_ops.rs, qos_ops.rs) is a sequence of    *)
(* calls any of which can fail: a full map, a pin that cannot be opened.   *)
(* The disjuncts of an action are the places where its handler can stop.   *)
(*                                                                         *)
(* A policy has the key <<src id, dst id, proto, direction>> and a QoS     *)
(* rule the key <<group id, direction>>, in memory as in the kernel.       *)
(* CIDRs are model values, one for each key of the LPM tries.  The check   *)
(* for an attached XDP program that every handler begins with passes.      *)
(*                                                                         *)
(* The operators named ...Mutant are mistakes in the operator that follows *)
(* them, kept to see that the properties notice them.                      *)
(***************************************************************************)
EXTENDS Policy

CONSTANTS
    GroupRequests,    \* pairs of a group name and a CIDR
    PolicyRequests,   \* quadruples source name, destination name, proto, direction
    PortTexts,        \* their port texts
    QosRequests,      \* pairs of a group name and a direction
    Rates,            \* the limits a QoS rule can ask for
    ConfigRequests,   \* pairs of Option<bool>: conntrack, monitoring
    MaxPortPolicies,  \* max_port_policies
    NumCpus,          \* the CPUs online
    MaxGroupId,       \* bound: group ids handed out
    MaxFaults         \* bound: kernel calls that fail

ASSUME LimitAssumption == MaxPortPolicies \in Nat
ASSUME BoundsAssumption == MaxGroupId \in Nat /\ MaxFaults \in Nat
ASSUME PoliciesAssumption == IsFiniteSet(PolicyRequests)
ASSUME TextsAssumption == PortTexts \subseteq Seq(Nat \X Nat \X Nat)
ASSUME SwitchesAssumption ==
    \A r \in ConfigRequests : r[1] \subseteq BOOLEAN /\ r[2] \subseteq BOOLEAN

VARIABLES
    directory,          \* groups and next_group_id
    table,              \* rules, port_sets, free_bitmap_indices, next_bitmap_idx
    qos_rules,
    flags,              \* conntrack_enabled and monitoring_enabled
    POLICY_TABLE, PORT_BITMAP_POOL,
    SRC_TRIE, DST_TRIE, \* SRC/DST_IPV4_TRIE and SRC/DST_IPV6_TRIE together
    QOS_CONFIG,
    FIREWALL_CONFIG,    \* at most the key 0
    misread,            \* history: a failing read of it was taken for no entry
    faults              \* kernel calls that failed so far

tries == << SRC_TRIE, DST_TRIE >>
groupVars == << directory, SRC_TRIE, DST_TRIE >>
policyVars == << table, POLICY_TABLE, PORT_BITMAP_POOL >>
qosVars == << qos_rules, QOS_CONFIG >>
switchVars == << FIREWALL_CONFIG, misread >>
configVars == << flags, switchVars >>
vars == << groupVars, policyVars, qosVars, configVars, faults >>

\* A fresh instance: replay_state finds nothing to replay, and the maps have
\* just been created.
Init ==
    /\ directory = NoGroups
    /\ table = EmptyTable
    /\ qos_rules = << >>
    /\ flags = [conntrack |-> TRUE, monitoring |-> TRUE]
    /\ POLICY_TABLE = << >>
    /\ PORT_BITMAP_POOL = << >>
    /\ SRC_TRIE = << >>
    /\ DST_TRIE = << >>
    /\ QOS_CONFIG = << >>
    /\ FIREWALL_CONFIG = << >>
    /\ misread = FALSE
    /\ faults = 0

Fail(n) == /\ faults + n <= MaxFaults
           /\ faults' = faults + n

\* What remains of a map after the removal of some keys.
Without(map, keys) == Restrict(map, DOMAIN map \ keys)

-----------------------------------------------------------------------------
(***************************************************************************)
(* Groups                                                                  *)
(***************************************************************************)

\* The name "any" is reserved.  Both tries get the CIDR, the source trie
\* first; a failure is compensated in the kernel and rolled back in memory.
AddGroup(name, cidr) ==
    LET added  == ApplyAddGroup(directory, name, cidr)
        id     == added.groups[name].id
        wasNew == name \notin DOMAIN directory.groups
        undone == RollbackAddGroup(added, name, cidr, wasNew)
    IN  /\ name # "any"
        /\ added.next_group_id <= MaxGroupId + 1
        /\ \/ /\ directory' = added
              /\ SRC_TRIE' = Insert(SRC_TRIE, cidr, id)
              /\ DST_TRIE' = Insert(DST_TRIE, cidr, id)
              /\ UNCHANGED faults
           \/ /\ Fail(1)             \* the source insert
              /\ directory' = undone
              /\ UNCHANGED tries
           \/ /\ Fail(1)             \* the destination insert
              /\ directory' = undone
              /\ SRC_TRIE' = Without(SRC_TRIE, {cidr})
              /\ UNCHANGED DST_TRIE
           \/ /\ Fail(2)             \* and the delete that compensates
              /\ directory' = undone
              /\ SRC_TRIE' = Insert(SRC_TRIE, cidr, id)
              /\ UNCHANGED DST_TRIE
        /\ UNCHANGED << policyVars, qosVars, configVars >>

GroupInUseMutant(id) == \E k \in DOMAIN table.rules : id \in {k[1], k[2]}
GroupInUse(id) == \/ \E k \in DOMAIN table.rules : id \in {k[1], k[2]}
                  \/ \E q \in DOMAIN qos_rules : id = q[1]

\* Every CIDR is deleted from both tries, whatever becomes of the others.
\* The group stays if the map could not be opened for one of the deletions;
\* a removal that fails is taken for an entry that is not there, and does
\* not keep the group, although it leaves the entry.
DeleteGroup(name) ==
    /\ name \in DOMAIN directory.groups
    /\ ~GroupInUse(directory.groups[name].id)
    /\ LET cidrs == directory.groups[name].cidrs
       IN  \E srcKept, dstKept \in SUBSET cidrs :
             /\ Fail(Cardinality(srcKept) + Cardinality(dstKept))
             /\ SRC_TRIE' = Without(SRC_TRIE, cidrs \ srcKept)
             /\ DST_TRIE' = Without(DST_TRIE, cidrs \ dstKept)
             /\ \/ directory' = ApplyDeleteGroup(directory, name)
                \/ srcKept \cup dstKept # {} /\ UNCHANGED directory
    /\ UNCHANGED << policyVars, qosVars, configVars >>

-----------------------------------------------------------------------------
(***************************************************************************)
(* Policies                                                                *)
(***************************************************************************)

Known(name) == name \in DOMAIN directory.groups

\* resolve_group_id, for a name that is "any" or known.
ResolveGroupId(name) == IF name = "any" THEN 0 ELSE directory.groups[name].id

PolicyKey(req) == << ResolveGroupId(req[1]), ResolveGroupId(req[2]), req[3], req[4] >>

Resolvable(req) == \A i \in 1 .. 2 : req[i] = "any" \/ Known(req[i])

PolicyValueMutant(rule) == [action          |-> rule.action,
                            has_port_filter |-> rule.ports # AllPorts,
                            bitmap_idx      |-> rule.bitmap_idx]
PolicyValue(rule) == [action         |-> rule.action,
                      has_port_filter |-> rule.ports # AllPorts,
                      bitmap_idx     |-> IF rule.bitmap_idx = NoIdx THEN 0 ELSE rule.bitmap_idx]

\* The rollback of a failed request puts back the four fields it had saved.
RestoreSnapshotIdxMutant(changed) ==
    [changed EXCEPT !.rules = table.rules, !.port_sets = table.port_sets,
                    !.free_bitmap_indices = table.free_bitmap_indices]
RestoreSnapshotRulesMutant(changed) ==
    [changed EXCEPT !.port_sets = table.port_sets, !.next_bitmap_idx = table.next_bitmap_idx,
                    !.free_bitmap_indices = table.free_bitmap_indices]
RestoreSnapshot(changed) ==
    [changed EXCEPT !.rules = table.rules, !.port_sets = table.port_sets,
                    !.free_bitmap_indices = table.free_bitmap_indices,
                    !.next_bitmap_idx = table.next_bitmap_idx]

\* A released port set leaves the pool, unless the pool cannot be opened:
\* that is only a warning, and a removal that fails not even one.
CleanPortSet(pool, released) ==
    LET cleaned == IF released = {} THEN pool
                   ELSE LET s == CHOOSE s \in released : TRUE
                        IN  DeletePortSet(pool, s[1], s[2])
    IN  \/ PORT_BITMAP_POOL' = cleaned /\ UNCHANGED faults
        \/ /\ Fail(1)
           /\ \E kept \in SUBSET (DOMAIN pool \ DOMAIN cleaned) :
                 /\ kept # {}
                 /\ PORT_BITMAP_POOL' = Restrict(pool, DOMAIN cleaned \cup kept)

\* The ports of a new port set are written first, one by one, then the
\* policy; a failure rolls the table back but not what has been written.
AddPolicy(req, a, p) ==
    LET k     == PolicyKey(req)
        added == ApplyAddRule(table, k, a, p)
        idx   == added.rules[k].bitmap_idx
        isNew == IsNewPortSet(table, p)
        all   == Len(Inserts(p))
        pool  == IF isNew THEN WritePortSet(PORT_BITMAP_POOL, idx, p) ELSE PORT_BITMAP_POOL
    IN  /\ Resolvable(req)
        /\ AddRuleAccepts(table, MaxPortPolicies, p)
        /\ \/ /\ table' = added
              /\ POLICY_TABLE' = Insert(POLICY_TABLE, k, PolicyValue(added.rules[k]))
              /\ CleanPortSet(pool, ReleasedPortSets(table, added))
           \/ /\ Fail(1)             \* opening the pool, or an insert into it
              /\ isNew
              /\ \E n \in 0 .. all - 1 :
                     PORT_BITMAP_POOL' = Written(PORT_BITMAP_POOL, idx, p, n)
              /\ table' = RestoreSnapshot(added)
              /\ UNCHANGED POLICY_TABLE
           \/ /\ Fail(1)             \* the insert of the policy
              /\ PORT_BITMAP_POOL' = pool
              /\ table' = RestoreSnapshot(added)
              /\ UNCHANGED POLICY_TABLE
        /\ UNCHANGED << groupVars, qosVars, configVars >>

\* The policy goes from the kernel first; the kernel's refusal, for a key
\* it does not have either, ends the request.
DeletePolicy(req) ==
    /\ Resolvable(req)
    /\ LET k       == PolicyKey(req)
           removed == ApplyRemoveRule(table, k)
       IN  /\ k \in DOMAIN table.rules
           /\ \/ /\ k \in DOMAIN POLICY_TABLE
                 /\ POLICY_TABLE' = Without(POLICY_TABLE, {k})
                 /\ table' = removed
                 /\ CleanPortSet(PORT_BITMAP_POOL, ReleasedPortSets(table, removed))
              \/ /\ Fail(1)
                 /\ UNCHANGED policyVars
    /\ UNCHANGED << groupVars, qosVars, configVars >>

-----------------------------------------------------------------------------
(***************************************************************************)
(* QoS rules and the feature switches                                      *)
(***************************************************************************)

QosResolvable(name) == name \in {"default", "any"} \/ Known(name)
QosGroupId(name) == IF name \in {"default", "any"} THEN 0 ELSE directory.groups[name].id

\* What a handler takes for the entry of FIREWALL_CONFIG: an entry that is
\* not there, or that it fails to read, gets these values.
ConfigRead(cpus, failed) ==
    IF 0 \in DOMAIN FIREWALL_CONFIG /\ ~failed THEN FIREWALL_CONFIG[0]
    ELSE [conntrack |-> TRUE, monitoring |-> TRUE, num_cpus |-> cpus, qos |-> FALSE]

WriteConfig(cfg, failed) ==
    /\ FIREWALL_CONFIG' = Insert(FIREWALL_CONFIG, 0, cfg)
    /\ misread' = (misread \/ failed)

\* sync_qos_enabled writes back what it has read, with the flag.
SyncQosEnabledResetMutant(on, failed) == WriteConfig([ConfigRead(1, TRUE) EXCEPT !.qos = on], failed)
SyncQosEnabledStickyMutant(on, failed) ==
    WriteConfig([ConfigRead(1, failed) EXCEPT !.qos = @ \/ on], failed)
SyncQosEnabled(on, failed) == WriteConfig([ConfigRead(1, failed) EXCEPT !.qos = on], failed)

AddQos(name, dir, rate) ==
    /\ QosResolvable(name)
    /\ LET q == << QosGroupId(name), dir >>
       IN  \/ /\ QOS_CONFIG' = Insert(QOS_CONFIG, q, rate)
              /\ \E n \in {0, 1} : SyncQosEnabled(TRUE, n = 1) /\ Fail(n)
              /\ qos_rules' = Insert(qos_rules, q, rate)
           \/ /\ Fail(1)             \* the insert of the rule
              /\ UNCHANGED << qosVars, switchVars >>
           \/ /\ Fail(1)             \* the update of the switch
              /\ QOS_CONFIG' = Insert(QOS_CONFIG, q, rate)
              /\ UNCHANGED << qos_rules, switchVars >>
    /\ UNCHANGED << groupVars, policyVars, flags >>

\* has_qos_rules answers false when it cannot read the map.
DeleteQos(name, dir) ==
    /\ QosResolvable(name)
    /\ LET q    == << QosGroupId(name), dir >>
           left == Without(QOS_CONFIG, {q})
       IN  /\ q \in DOMAIN qos_rules
           /\ \/ /\ q \in DOMAIN QOS_CONFIG
                 /\ QOS_CONFIG' = left
                 /\ qos_rules' = Without(qos_rules, {q})
                 /\ \E unread, n \in {0, 1} :
                       /\ SyncQosEnabled(unread = 0 /\ DOMAIN left # {}, n = 1)
                       /\ Fail(unread + n)
              \/ /\ Fail(1)          \* the removal of the rule
                 /\ UNCHANGED << qosVars, switchVars >>
              \/ /\ q \in DOMAIN QOS_CONFIG
                 /\ Fail(1)          \* the update of the switch
                 /\ QOS_CONFIG' = left
                 /\ UNCHANGED << qos_rules, switchVars >>
    /\ UNCHANGED << groupVars, policyVars, flags >>

UpdateConfig(ct, mon) ==
    /\ \/ /\ \E n \in {0, 1} :
                /\ WriteConfig([ConfigRead(NumCpus, n = 1) EXCEPT !.conntrack = Given(ct, @),
                                                                 !.monitoring = Given(mon, @)],
                               n = 1)
                /\ Fail(n)
          /\ flags' = [conntrack  |-> Given(ct, flags.conntrack),
                       monitoring |-> Given(mon, flags.monitoring)]
       \/ /\ Fail(1)
          /\ UNCHANGED configVars
    /\ UNCHANGED << groupVars, policyVars, qosVars >>

Next ==
    \/ \E r \in GroupRequests : AddGroup(r[1], r[2])
    \/ \E r \in GroupRequests : DeleteGroup(r[1])
    \/ \E r \in PolicyRequests, a \in {0, 1}, p \in PortTexts : AddPolicy(r, a, p)
    \/ \E r \in PolicyRequests : DeletePolicy(r)
    \/ \E r \in QosRequests, rate \in Rates : AddQos(r[1], r[2], rate)
    \/ \E r \in QosRequests : DeleteQos(r[1], r[2])
    \/ \E r \in ConfigRequests : UpdateConfig(r[1], r[2])

Spec == Init /\ [][Next]_vars
-----------------------------------------------------------------------------
(***************************************************************************)
(* Properties that hold whatever kernel calls fail                         *)
(***************************************************************************)

RuleKeys == (0 .. MaxGroupId) \X (0 .. MaxGroupId) \X {r[3] : r \in PolicyRequests}
            \X {r[4] : r \in PolicyRequests}

\* The table of the handlers, with their snapshots and rollbacks, is a
\* RuleTable under a fixed limit: what is proved of that one holds here.
Rules == INSTANCE RuleTable WITH max_port_policies <- MaxPortPolicies,
                                 Limits <- {MaxPortPolicies}

ImplementsRuleTable == Rules!Spec

Cidrs == {r[2] : r \in GroupRequests}
GroupInfo == [id : 1 .. MaxGroupId, cidrs : SUBSET Cidrs]
Config == [conntrack : BOOLEAN, monitoring : BOOLEAN, num_cpus : {1, NumCpus}, qos : BOOLEAN]

\* The types of the fields of FirewallState and of the maps' values.
TypeOK ==
    /\ Rules!IsMap(directory.groups, {r[1] : r \in GroupRequests}, GroupInfo)
    /\ directory.next_group_id \in 1 .. MaxGroupId + 1
    /\ Rules!TypeOK
    /\ Rules!IsMap(POLICY_TABLE, RuleKeys,
                   [action : {0, 1}, has_port_filter : BOOLEAN, bitmap_idx : Nat])
    /\ PORT_BITMAP_POOL \in [DOMAIN PORT_BITMAP_POOL -> {1, 2}]
    /\ \A trie \in {SRC_TRIE, DST_TRIE} : Rules!IsMap(trie, Cidrs, 1 .. MaxGroupId)
    /\ \A q \in {QOS_CONFIG, qos_rules} :
           Rules!IsMap(q, (0 .. MaxGroupId) \X {r[2] : r \in QosRequests}, Rates)
    /\ Rules!IsMap(FIREWALL_CONFIG, {0}, Config)
    /\ flags \in [conntrack : BOOLEAN, monitoring : BOOLEAN]
    /\ misread \in BOOLEAN
    /\ faults \in 0 .. MaxFaults

\* POLICY_TABLE has exactly the rules the API lists, with their actions and
\* port set indices: no failure between the two updates of a handler makes
\* the kernel enforce a policy nobody can see, or miss one that is listed.
KernelHasTheRules ==
    POLICY_TABLE = [k \in DOMAIN table.rules |-> PolicyValue(table.rules[k])]

\* Every port of a live port set is in the pool under the set's index with
\* the verdict the set asks for, although indices are recycled, failed
\* requests leave ports behind and deletions are skipped.
LivePortsWritten ==
    \A n \in DOMAIN table.port_sets : \A i \in DOMAIN n : \A port \in n[i][1] .. n[i][2] :
        LET key == << table.port_sets[n].bitmap_idx, port >>
        IN  /\ key \in DOMAIN PORT_BITMAP_POOL
            /\ \E j \in DOMAIN n : /\ port \in n[j][1] .. n[j][2]
                                   /\ PORT_BITMAP_POOL[key] = n[j][3]

\* Two groups never have the same id, and the next id is a fresh one, though
\* a rollback of add_group gives ids back.
GroupIdsDistinct ==
    LET groups == directory.groups
    IN  /\ \A m, n \in DOMAIN groups : groups[m].id = groups[n].id => m = n
        /\ \A n \in DOMAIN groups : groups[n].id \in 1 .. directory.next_group_id - 1

\* The datapath's view of the two switches (an absent entry means enabled)
\* is what the state file would restore, as long as no handler has taken an
\* entry it failed to read for an absent one and written the defaults over
\* it.  Even then no switch is off that the API reports on: connections are
\* never let go untracked by a failing call.
SwitchesInForce ==
    LET seen == IF 0 \in DOMAIN FIREWALL_CONFIG THEN FIREWALL_CONFIG[0]
                ELSE [conntrack |-> TRUE, monitoring |-> TRUE]
    IN  /\ flags.conntrack => seen.conntrack
        /\ flags.monitoring => seen.monitoring
        /\ ~misread => seen.conntrack = flags.conntrack /\ seen.monitoring = flags.monitoring

-----------------------------------------------------------------------------
(***************************************************************************)
(* References between groups, policies, QoS rules and tries.  Those of the *)
(* second half hold as long as no kernel call has failed.                  *)
(***************************************************************************)

GroupIds == {directory.groups[n].id : n \in DOMAIN directory.groups}

\* A group a rule or a QoS rule refers to exists: delete_group's check of
\* both lists leaves no way to a rule about an id nobody owns.
RuleGroupsExist ==
    /\ \A k \in DOMAIN table.rules : {k[1], k[2]} \subseteq GroupIds \cup {0}
    /\ \A q \in DOMAIN qos_rules : q[1] \in GroupIds \cup {0}

\* No request loses a referenced group unless one of its own kernel calls
\* fails: not the deletion of a group, nor of one of two that share a CIDR.
ReferencesKept == [][RuleGroupsExist /\ faults' = faults => RuleGroupsExist']_vars

\* The tries agree with each other, and an address they classify belongs to
\* an existing group that lists the CIDR, also when two groups share one.
TriesNameOwners ==
    faults = 0 =>
        /\ SRC_TRIE = DST_TRIE
        /\ \A c \in DOMAIN SRC_TRIE :
               \E n \in DOMAIN directory.groups :
                   directory.groups[n].id = SRC_TRIE[c] /\ c \in directory.groups[n].cidrs

\* The kernel limits exactly the groups the API lists, and QoS is switched
\* on exactly when there is a rule.
QosFlagInSync ==
    0 \in DOMAIN FIREWALL_CONFIG => (FIREWALL_CONFIG[0].qos <=> DOMAIN QOS_CONFIG # {})
QosInForce ==
    faults = 0 =>
        /\ QOS_CONFIG = qos_rules
        /\ QosFlagInSync
        /\ DOMAIN QOS_CONFIG # {} => 0 \in DOMAIN FIREWALL_CONFIG

\* The pool has no entry of a free index, nor one of a port its set does not
\* name: what a recycled index inherits.
NoStalePortEntries ==
    \A key \in DOMAIN PORT_BITMAP_POOL :
        \E n \in DOMAIN table.port_sets : /\ table.port_sets[n].bitmap_idx = key[1]
                                          /\ key[2] \in PortsOf(n)

Packets == [src : 0 .. MaxGroupId, dst : 0 .. MaxGroupId,
            proto : {r[3] : r \in PolicyRequests} \ {0},
            dir : {r[4] : r \in PolicyRequests},
            port : UNION {PortsOf(p) : p \in PortTexts}]

\* Every packet gets the verdict of the most specific listed rule that
\* matches it, with that rule's own port text, although texts share port
\* sets and indices are recycled.
VerdictsFollowRules ==
    \A pkt \in Packets :
        EvaluatePolicy(POLICY_TABLE, PORT_BITMAP_POOL, pkt) = Intended(table.rules, pkt)

\* Each CPU refills its token bucket at rate / num_cpus.
QuotaSplitOverCpus ==
    DOMAIN QOS_CONFIG # {} => FIREWALL_CONFIG[0].num_cpus = NumCpus
=============================================================================
