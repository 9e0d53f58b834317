--------------------------- MODULE FirewallState ---------------------------
(***************************************************************************)
(* The operations of core/src/state.rs on FirewallState, as functions from *)
(* a state to its successor.  They are used by the state machine of the    *)
(* rule table (RuleTable), by the agent's handlers (ControlPlane) and by   *)
(* the replay of the write-ahead log (Wal).                                *)
(*                                                                         *)
(* A table groups the four fields apply_add_rule mutates, the ones         *)
(* control_plane.rs snapshots for its rollback:                            *)
(*   rules                rule key -> [action, ports, bitmap_idx]          *)
(*   port_sets            normal form -> [bitmap_idx, ref_count]           *)
(*   free_bitmap_indices  the recycled indices, a stack                    *)
(*   next_bitmap_idx      the first index never handed out                 *)
(* A rule key is the code's (src_group_id, dst_group_id, proto, direction) *)
(* with which rules are looked up; rules is a Vec there, but no two of its *)
(* elements ever have the same key.                                        *)
(*                                                                         *)
(* The operators named ...Mutant are not the code's: each is a plausible   *)
(* mistake in the operator that follows it, kept to see that the           *)
(* properties notice it.                                                   *)
(***************************************************************************)
EXTENDS Ports

NoIdx == -1

EmptyTable == [rules |-> << >>, port_sets |-> << >>,
               free_bitmap_indices |-> << >>, next_bitmap_idx |-> 0]

\* Option<u32> of the rule under key k, NoIdx too when there is no such rule.
IdxOf(t, k) == IF k \in DOMAIN t.rules THEN t.rules[k].bitmap_idx ELSE NoIdx

\* The key under which an index is found in port_sets.
HasPortSet(t, idx) == \E n \in DOMAIN t.port_sets : t.port_sets[n].bitmap_idx = idx
PortSetAt(t, idx) == CHOOSE n \in DOMAIN t.port_sets : t.port_sets[n].bitmap_idx = idx

(***************************************************************************)
(* Acquiring and releasing the port set of a rule.                         *)
(***************************************************************************)
ReuseIdxMutant(t, n) == t
ReuseIdx(t, n) == [t EXCEPT !.port_sets[n].ref_count = @ + 1]

PopIdxMutant(t, n) ==
    [t EXCEPT !.port_sets = Insert(@, n, [bitmap_idx |-> Last(t.free_bitmap_indices),
                                          ref_count  |-> 1])]
PopIdx(t, n) ==
    LET free == t.free_bitmap_indices
    IN  [t EXCEPT !.port_sets = Insert(@, n, [bitmap_idx |-> free[Len(free)], ref_count |-> 1]),
                  !.free_bitmap_indices = SubSeq(free, 1, Len(free) - 1)]

FreshIdx(t, n) ==
    [t EXCEPT !.port_sets = Insert(@, n, [bitmap_idx |-> t.next_bitmap_idx, ref_count |-> 1]),
              !.next_bitmap_idx = @ + 1]

AcquirePortSet(t, n) ==
    IF n \in DOMAIN t.port_sets THEN ReuseIdx(t, n)
    ELSE IF t.free_bitmap_indices # << >> THEN PopIdx(t, n) ELSE FreshIdx(t, n)

\* "Port set limit reached": no index left for a new port set.
LimitReachedMutant(t, max, n) ==
    n \notin DOMAIN t.port_sets /\ t.free_bitmap_indices = << >> /\ t.next_bitmap_idx > max
LimitReached(t, max, n) ==
    /\ n \notin DOMAIN t.port_sets
    /\ t.free_bitmap_indices = << >>
    /\ t.next_bitmap_idx >= max

\* One user less, and others left.
LowerCount(t, n) == [t EXCEPT !.port_sets[n].ref_count = @ - 1]

\* The last user went: the set is dropped and its index recycled.
FreeSetMutant(t, n, idx) == [t EXCEPT !.port_sets = Restrict(@, DOMAIN @ \ {n})]
FreeSet(t, n, idx) == [t EXCEPT !.port_sets = Restrict(@, DOMAIN @ \ {n}),
                                !.free_bitmap_indices = Append(@, idx)]

ReleasePortSetMutant(t, idx) ==
    IF HasPortSet(t, idx) THEN FreeSet(t, PortSetAt(t, idx), idx) ELSE t
ReleasePortSet(t, idx) ==
    LET n == PortSetAt(t, idx)
    IN  IF ~HasPortSet(t, idx) THEN t
        ELSE IF t.port_sets[n].ref_count = 1 THEN FreeSet(t, n, idx)
        ELSE LowerCount(t, n)

(***************************************************************************)
(* apply_add_rule and apply_remove_rule.                                   *)
(***************************************************************************)
AddRuleAccepts(t, max, p) ==
    p # AllPorts => ValidPorts(p) /\ ~LimitReached(t, max, Normalize(p))

PutRule(t, k, rule) == [t EXCEPT !.rules = Insert(@, k, rule)]

\* The counter of the set just acquired goes back when the rule already
\* had that index; another old index is released.
DropOldIdxMutant(t, old, new) ==
    IF old \in {NoIdx, new} THEN t ELSE ReleasePortSet(t, old)
DropOldIdx(t, old, new) ==
    IF old = NoIdx THEN t
    ELSE IF old = new THEN LowerCount(t, PortSetAt(t, old))
    ELSE ReleasePortSet(t, old)

ApplyAddRule(t, k, a, p) ==
    LET acquired == IF p = AllPorts THEN t ELSE AcquirePortSet(t, Normalize(p))
        idx      == IF p = AllPorts THEN NoIdx ELSE acquired.port_sets[Normalize(p)].bitmap_idx
        rule     == [action |-> a, ports |-> p, bitmap_idx |-> idx]
    IN  DropOldIdx(PutRule(acquired, k, rule), IdxOf(t, k), idx)

RemoveKey(t, k) == [t EXCEPT !.rules = Restrict(@, DOMAIN @ \ {k})]

\* Only for a key that has a rule; otherwise the code returns Err.
ApplyRemoveRuleMutant(t, k) ==
    LET removed == RemoveKey(t, k)
    IN  IF HasPortSet(t, IdxOf(t, k)) THEN ReleasePortSet(removed, IdxOf(t, k))
        ELSE [removed EXCEPT !.free_bitmap_indices = Append(@, IdxOf(t, k))]
ApplyRemoveRule(t, k) ==
    LET removed == RemoveKey(t, k)
    IN  IF IdxOf(t, k) = NoIdx THEN removed ELSE ReleasePortSet(removed, IdxOf(t, k))

\* is_new_port_set: the caller has to write the entries of p.
IsNewPortSetMutant(t, p) ==
    p # AllPorts /\ Normalize(p) \notin DOMAIN t.port_sets /\ t.free_bitmap_indices = << >>
IsNewPortSet(t, p) == p # AllPorts /\ Normalize(p) \notin DOMAIN t.port_sets

\* old_port_set_released, port_set_released: the set freed between t and u,
\* as a set of at most one pair of an index and a normal form.
ReleasedPortSetsMutant(t, u) ==
    {<< t.port_sets[n].bitmap_idx, n >> : n \in
        {n \in DOMAIN t.port_sets \ DOMAIN u.port_sets : DOMAIN t.rules # DOMAIN u.rules}}
ReleasedPortSets(t, u) ==
    {<< t.port_sets[n].bitmap_idx, n >> : n \in DOMAIN t.port_sets \ DOMAIN u.port_sets}

(***************************************************************************)
(* What makes a table consistent, as predicates of a table.                *)
(***************************************************************************)
Users(t, idx) == {k \in DOMAIN t.rules : t.rules[k].bitmap_idx = idx}

CountersMatchUsers(t) ==
    \A n \in DOMAIN t.port_sets :
        /\ t.port_sets[n].ref_count = Cardinality(Users(t, t.port_sets[n].bitmap_idx))
        /\ t.port_sets[n].ref_count > 0

OneSetPerIdx(t) ==
    \A m, n \in DOMAIN t.port_sets :
        t.port_sets[m].bitmap_idx = t.port_sets[n].bitmap_idx => m = n

FreeIndices(t) == {t.free_bitmap_indices[i] : i \in DOMAIN t.free_bitmap_indices}
LiveIndices(t) == {t.port_sets[n].bitmap_idx : n \in DOMAIN t.port_sets}

FreeAndLivePartition(t) ==
    /\ FreeIndices(t) \cap LiveIndices(t) = {}
    /\ FreeIndices(t) \cup LiveIndices(t) = 0 .. t.next_bitmap_idx - 1
    /\ \A i, j \in DOMAIN t.free_bitmap_indices :
           t.free_bitmap_indices[i] = t.free_bitmap_indices[j] => i = j

RulesFindTheirSet(t) ==
    \A k \in DOMAIN t.rules :
        LET r == t.rules[k]
        IN  IF r.ports = AllPorts THEN r.bitmap_idx = NoIdx
            ELSE /\ ValidPorts(r.ports)
                 /\ Normalize(r.ports) \in DOMAIN t.port_sets
                 /\ r.bitmap_idx = t.port_sets[Normalize(r.ports)].bitmap_idx

Consistent(t) == /\ CountersMatchUsers(t)
                 /\ OneSetPerIdx(t)
                 /\ FreeAndLivePartition(t)
                 /\ RulesFindTheirSet(t)

(***************************************************************************)
(* Groups: groups maps a name to [id, cidrs]; id 0 is the wildcard "any".  *)
(* g is a pair of the map and the next id.                                 *)
(***************************************************************************)
NoGroups == [groups |-> << >>, next_group_id |-> 1]

ApplyAddGroupMutant(g, name, cidr) ==
    IF name \in DOMAIN g.groups THEN g
    ELSE [g EXCEPT !.groups = Insert(@, name, [id |-> g.next_group_id, cidrs |-> {cidr}]),
                   !.next_group_id = @ + 1]
ApplyAddGroup(g, name, cidr) ==
    IF name \in DOMAIN g.groups
    THEN [g EXCEPT !.groups[name].cidrs = @ \cup {cidr}]
    ELSE [g EXCEPT !.groups = Insert(@, name, [id |-> g.next_group_id, cidrs |-> {cidr}]),
                   !.next_group_id = @ + 1]

ApplyDeleteGroup(g, name) == [g EXCEPT !.groups = Restrict(@, DOMAIN @ \ {name})]

RollbackAddGroupMutant(g, name, cidr, wasNew) ==
    IF g.groups[name].cidrs \subseteq {cidr}
    THEN [ApplyDeleteGroup(g, name) EXCEPT !.next_group_id = @ - 1]
    ELSE [g EXCEPT !.groups[name].cidrs = @ \ {cidr}]
RollbackAddGroup(g, name, cidr, wasNew) ==
    IF g.groups[name].cidrs \subseteq {cidr}
    THEN [ApplyDeleteGroup(g, name) EXCEPT !.next_group_id = IF wasNew THEN @ - 1 ELSE @]
    ELSE [g EXCEPT !.groups[name].cidrs = @ \ {cidr}]

(***************************************************************************)
(* Switches: an Option<bool> is a set of at most one Boolean.              *)
(***************************************************************************)
Given(option, otherwise) == IF option = {} THEN otherwise ELSE CHOOSE b \in option : TRUE
=============================================================================
