----------------------------- MODULE RuleTable -----------------------------
(***************************************************************************)
(* The rule table of one instance: rules, the port sets they share by      *)
(* reference counting, and the indices of PORT_BITMAP_POOL handed out to   *)
(* port sets (core/src/state.rs, FirewallState).                           *)
(***************************************************************************)
EXTENDS FirewallState

CONSTANTS RuleKeys,   \* the keys (src id, dst id, proto, direction) in use
          PortTexts,  \* the port texts of the requests, AllPorts among them
          Limits      \* the values max_port_policies may be configured to

ASSUME RuleKeysAssumption == IsFiniteSet(RuleKeys)
ASSUME LimitsAssumption == Limits \subseteq Nat
ASSUME TextsAssumption == PortTexts \subseteq Seq(Nat \X Nat \X Nat)

VARIABLES table,              \* rules, port_sets, free_bitmap_indices, next_bitmap_idx
          max_port_policies

vars == << table, max_port_policies >>

Actions == {0, 1}

Init == /\ table = EmptyTable
        /\ max_port_policies \in Limits

\* apply_add_rule; a request it refuses changes nothing.
AddRule(k, a, p) ==
    /\ AddRuleAccepts(table, max_port_policies, p)
    /\ table' = ApplyAddRule(table, k, a, p)
    /\ UNCHANGED max_port_policies

RemoveRule(k) ==
    /\ k \in DOMAIN table.rules
    /\ table' = ApplyRemoveRule(table, k)
    /\ UNCHANGED max_port_policies

\* The agent stores the limit of its command line each time it attaches.
SetMaxPortPolicies(m) ==
    /\ max_port_policies' = m
    /\ UNCHANGED table

Next ==
    \/ \E k \in RuleKeys, a \in Actions, p \in PortTexts : AddRule(k, a, p)
    \/ \E k \in RuleKeys : RemoveRule(k)
    \/ \E m \in Limits : SetMaxPortPolicies(m)

Spec == Init /\ [][Next]_vars
-----------------------------------------------------------------------------
(***************************************************************************)
(* Properties                                                              *)
(***************************************************************************)
NormalForms == {Normalize(p) : p \in PortTexts}

RuleInfo == [action : Actions, ports : PortTexts, bitmap_idx : Nat \cup {NoIdx}]
PortSetInfo == [bitmap_idx : Nat, ref_count : Nat]

IsMap(f, S, T) == f \in [DOMAIN f -> T] /\ DOMAIN f \subseteq S

\* The types of the fields of FirewallState.
TypeOK ==
    /\ table \in [rules : {table.rules}, port_sets : {table.port_sets},
                  free_bitmap_indices : Seq(Nat), next_bitmap_idx : Nat]
    /\ IsMap(table.rules, RuleKeys, RuleInfo)
    /\ IsMap(table.port_sets, NormalForms, PortSetInfo)
    /\ max_port_policies \in Limits

\* The counter of a port set is the number of rules that use it, never zero:
\* the unsigned decrement of release_port_set cannot wrap, and a set is kept
\* exactly as long as a rule needs it, whatever adds, replacements by the
\* same or another set, and removals came before.
RefCountsExact == CountersMatchUsers(table)

\* No two port sets share an index: a policy would be judged by the port
\* entries of another one.
IndicesDistinct == OneSetPerIdx(table)

\* An index handed out is either held by one port set or once on the free
\* stack, never both, never lost: 0 .. next_bitmap_idx - 1 is partitioned.
IndicesPartitioned == FreeAndLivePartition(table)

\* A rule's index is the one of the normal form of its own port text, and a
\* rule without a text has none: recycling never leaves a rule behind that
\* points at a freed or re-assigned index.
RulesResolve == RulesFindTheirSet(table)

\* "Port set limit reached. Unique port combinations: n" is only answered
\* when n really is at or above the limit: no index leaks, so a deleted port
\* set always makes room for a new one.
LimitMeansFull ==
    \A p \in PortTexts \ {AllPorts} :
        LimitReached(table, max_port_policies, Normalize(p))
            => Cardinality(DOMAIN table.port_sets) >= max_port_policies

\* The inductive invariant.
IInv == TypeOK /\ RefCountsExact /\ IndicesDistinct /\ IndicesPartitioned /\ RulesResolve

\* Lowering the limit takes no index away, but no step hands out a fresh
\* index at or beyond the limit in force.
NewSetsWithinLimit ==
    \A n \in DOMAIN table'.port_sets \ DOMAIN table.port_sets :
        \/ table'.port_sets[n].bitmap_idx < max_port_policies
        \/ table'.port_sets[n].bitmap_idx \in FreeIndices(table)

NoIndexBeyondLimit == [][NewSetsWithinLimit]_vars

\* A step on one rule never changes which port set another rule is judged by.
OtherRulesStay ==
    \A k \in DOMAIN table.rules \cap DOMAIN table'.rules :
        \A n \in DOMAIN table.port_sets :
            /\ table.rules[k] = table'.rules[k]
            /\ table.port_sets[n].bitmap_idx = table.rules[k].bitmap_idx
            => /\ n \in DOMAIN table'.port_sets
               /\ table'.port_sets[n].bitmap_idx = table.rules[k].bitmap_idx

OtherRulesUnmoved == [][OtherRulesStay]_vars

(***************************************************************************)
(* Which rules share a port set.  In the pool they then share its ports,   *)
(* which the first of them has written.                                    *)
(***************************************************************************)
Filtering == {k \in DOMAIN table.rules : table.rules[k].ports # AllPorts}
TextOf(k) == table.rules[k].ports
Share(k, l) == table.rules[k].bitmap_idx = table.rules[l].bitmap_idx

\* Two rules share a port set exactly when their texts have the same parts,
\* each as often, whatever their order and whichever rule came first or was
\* replaced meanwhile.
SameFormSameParts == \A k, l \in Filtering : Share(k, l) <=> SameParts(TextOf(k), TextOf(l))

\* If they name no port twice the texts of rules that share a port set mean
\* the same: the ports written for the first rule are right for the second.
DisjointTextsShareSafely ==
    \A k, l \in Filtering :
        Share(k, l) /\ DisjointParts(TextOf(k)) => Meaning(TextOf(k)) = Meaning(TextOf(l))
=============================================================================
