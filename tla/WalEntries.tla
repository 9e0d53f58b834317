----------------------------- MODULE WalEntries -----------------------------
(***************************************************************************)
(* The entries of the write-ahead log (core/src/wal.rs, WalEntry), what    *)
(* replaying one does to a FirewallState, and when a handler of            *)
(* agent/src/control_plane.rs produces one.  SetMaxPortPolicies,           *)
(* SetAttachedIface and ClearAttachedIface are left out: nothing in the    *)
(* agent appends them.                                                     *)
(***************************************************************************)
EXTENDS FirewallState

CONSTANTS
    GroupRequests,   \* pairs of a group name and a CIDR
    PolicyRequests,  \* quadruples source name, destination name, proto, direction
    PortTexts,       \* their port texts
    QosRequests,     \* pairs of a group name and a direction
    Rates,           \* the limits of QoS rules
    ConfigRequests,  \* pairs of Option<bool>: conntrack, monitoring
    MaxPortPolicies, \* max_port_policies
    MaxGroupId       \* bound: group ids handed out to requests

\* The fields of FirewallState the entries are about.
DefaultState == [directory |-> NoGroups,
                 table     |-> EmptyTable,
                 qos_rules |-> << >>,
                 flags     |-> [conntrack |-> TRUE, monitoring |-> TRUE]]

\* apply_wal_entry.  An entry that cannot be applied, and a line that does
\* not parse ("corrupt"), is skipped.
ApplyWalEntry(s, e) ==
    CASE e.op = "AddGroup" ->
            [s EXCEPT !.directory = ApplyAddGroup(@, e.name, e.cidr)]
      [] e.op = "DeleteGroup" ->
            [s EXCEPT !.directory = ApplyDeleteGroup(@, e.name)]
      [] e.op = "AddRule" ->
            IF AddRuleAccepts(s.table, MaxPortPolicies, e.ports)
            THEN [s EXCEPT !.table = ApplyAddRule(@, e.key, e.action, e.ports)]
            ELSE s
      [] e.op = "RemoveRule" ->
            IF e.key \in DOMAIN s.table.rules
            THEN [s EXCEPT !.table = ApplyRemoveRule(@, e.key)]
            ELSE s
      [] e.op = "AddQos" ->
            [s EXCEPT !.qos_rules = Insert(@, e.key, e.rate)]
      [] e.op = "DeleteQos" ->
            [s EXCEPT !.qos_rules = Restrict(@, DOMAIN @ \ {e.key})]
      [] e.op = "UpdateConfig" ->
            [s EXCEPT !.flags = [conntrack  |-> Given(e.conntrack, @.conntrack),
                                 monitoring |-> Given(e.monitoring, @.monitoring)]]
      [] OTHER -> s

\* load_with_wal, entry by entry.
Replay(s, log) ==
    LET replayed[n \in 0 .. Len(log)] ==
            IF n = 0 THEN s ELSE ApplyWalEntry(replayed[n - 1], log[n])
    IN  replayed[Len(log)]

-----------------------------------------------------------------------------
Corrupt == [op |-> "corrupt"]

GroupId(s, name) == IF name = "any" THEN 0 ELSE s.directory.groups[name].id
Resolves(s, name) == name = "any" \/ name \in DOMAIN s.directory.groups
QosGroupId(s, name) == IF name = "default" THEN 0 ELSE GroupId(s, name)
QosResolves(s, name) == name = "default" \/ Resolves(s, name)

InUse(s, id) == \/ \E k \in DOMAIN s.table.rules : id \in {k[1], k[2]}
                \/ \E q \in DOMAIN s.qos_rules : id = q[1]

RuleKeyOf(s, r) == << GroupId(s, r[1]), GroupId(s, r[2]), r[3], r[4] >>
ResolvedPolicies(s) == {r \in PolicyRequests : Resolves(s, r[1]) /\ Resolves(s, r[2])}
RequestedRules(s) == {RuleKeyOf(s, r) : r \in ResolvedPolicies(s)}
RequestedQos(s) == {<< QosGroupId(s, r[1]), r[2] >> : r \in {q \in QosRequests : QosResolves(s, q[1])}}

AddGroupEntries(s) ==
    {[op |-> "AddGroup", name |-> r[1], cidr |-> r[2]] :
        r \in {q \in GroupRequests :
                  /\ q[1] # "any"
                  /\ ApplyAddGroup(s.directory, q[1], q[2]).next_group_id <= MaxGroupId + 1}}

DeleteGroupEntries(s) ==
    {[op |-> "DeleteGroup", name |-> n] :
        n \in {n \in DOMAIN s.directory.groups : ~InUse(s, s.directory.groups[n].id)}}

AddRuleEntries(s) ==
    {[op |-> "AddRule", key |-> k, action |-> 0, ports |-> p] :
        k \in RequestedRules(s),
        p \in {p \in PortTexts : AddRuleAccepts(s.table, MaxPortPolicies, p)}}

RemoveRuleEntries(s) ==
    {[op |-> "RemoveRule", key |-> k] : k \in RequestedRules(s) \cap DOMAIN s.table.rules}

AddQosEntries(s) ==
    {[op |-> "AddQos", key |-> q, rate |-> r] : q \in RequestedQos(s), r \in Rates}

DeleteQosEntries(s) ==
    {[op |-> "DeleteQos", key |-> q] : q \in RequestedQos(s) \cap DOMAIN s.qos_rules}

UpdateConfigEntries ==
    {[op |-> "UpdateConfig", conntrack |-> r[1], monitoring |-> r[2]] : r \in ConfigRequests}

\* The entries of the requests the handlers accept in state s.
Accepted(s) == UNION { AddGroupEntries(s), DeleteGroupEntries(s), AddRuleEntries(s),
                       RemoveRuleEntries(s), AddQosEntries(s), DeleteQosEntries(s),
                       UpdateConfigEntries }
=============================================================================
