-------------------------- MODULE RuleTableProofs --------------------------
(***************************************************************************)
(* The rule table stays consistent for every finite set of rule keys,      *)
(* every set of port texts and all limits.                                 *)
(***************************************************************************)
EXTENDS RuleTable, FiniteSetTheorems, SequenceTheorems, WellFoundedInduction, TLAPS

(***************************************************************************)
(* Partial maps, and the set of tables they form.                          *)
(***************************************************************************)
PartialMaps(S, T) == UNION {[D -> T] : D \in SUBSET S}

Tables == [rules : PartialMaps(RuleKeys, RuleInfo),
           port_sets : PartialMaps(NormalForms, PortSetInfo),
           free_bitmap_indices : Seq(Nat),
           next_bitmap_idx : Nat]

\* A partial map is a function on some of the keys.
LEMMA PartialMapDef ==
    ASSUME NEW S, NEW T, NEW f
    PROVE  f \in PartialMaps(S, T) <=> DOMAIN f \subseteq S /\ f \in [DOMAIN f -> T]
BY DEF PartialMaps

\* Inserting keeps a partial map one.
LEMMA InsertType ==
    ASSUME NEW S, NEW T, NEW f \in PartialMaps(S, T), NEW x \in S, NEW v \in T
    PROVE  Insert(f, x, v) \in PartialMaps(S, T)
<1>1. DOMAIN Insert(f, x, v) \subseteq S
    BY PartialMapDef DEF Insert
<1>2. Insert(f, x, v) \in [DOMAIN Insert(f, x, v) -> T]
    BY PartialMapDef DEF Insert
<1>3. QED BY <1>1, <1>2, PartialMapDef

\* Overwriting the value of a key keeps a partial map one.
LEMMA ExceptType ==
    ASSUME NEW S, NEW T, NEW f \in PartialMaps(S, T), NEW x \in DOMAIN f, NEW v \in T
    PROVE  [f EXCEPT ![x] = v] \in PartialMaps(S, T)
<1>1. DOMAIN f \subseteq S /\ f \in [DOMAIN f -> T]
    BY PartialMapDef
<1>2. [f EXCEPT ![x] = v] \in [DOMAIN f -> T]
    BY <1>1
<1>3. QED BY <1>1, <1>2 DEF PartialMaps

\* Removing keys keeps a partial map one.
LEMMA RestrictType ==
    ASSUME NEW S, NEW T, NEW f \in PartialMaps(S, T), NEW D, D \subseteq DOMAIN f
    PROVE  Restrict(f, D) \in PartialMaps(S, T)
<1>1. DOMAIN f \subseteq S /\ f \in [DOMAIN f -> T]
    BY PartialMapDef
<1>2. Restrict(f, D) \in [D -> T]
    BY <1>1 DEF Restrict
<1>3. QED BY <1>1, <1>2 DEF PartialMaps

(***************************************************************************)
(* What the operators of FirewallState do to the four fields of a table.   *)
(***************************************************************************)
\* The fields of a table, and of the rules and port sets in it, have their types.
LEMMA TableFields ==
    ASSUME NEW t \in Tables
    PROVE  /\ t.rules \in PartialMaps(RuleKeys, RuleInfo)
           /\ t.port_sets \in PartialMaps(NormalForms, PortSetInfo)
           /\ t.free_bitmap_indices \in Seq(Nat)
           /\ t.next_bitmap_idx \in Nat
           /\ DOMAIN t.rules \subseteq RuleKeys
           /\ \A k \in DOMAIN t.rules : t.rules[k] \in RuleInfo
           /\ DOMAIN t.port_sets \subseteq NormalForms
           /\ \A n \in DOMAIN t.port_sets : t.port_sets[n] \in PortSetInfo
<1>1. /\ t.rules \in PartialMaps(RuleKeys, RuleInfo)
      /\ t.port_sets \in PartialMaps(NormalForms, PortSetInfo)
      /\ t.free_bitmap_indices \in Seq(Nat)
      /\ t.next_bitmap_idx \in Nat
    BY DEF Tables
<1>2. QED BY <1>1, PartialMapDef

\* Reusing a port set raises its counter and nothing else.
LEMMA ReuseIdxFields ==
    ASSUME NEW t \in Tables, NEW n \in DOMAIN t.port_sets
    PROVE  /\ ReuseIdx(t, n) \in Tables
           /\ ReuseIdx(t, n).rules = t.rules
           /\ ReuseIdx(t, n).port_sets
                = [t.port_sets EXCEPT ![n] = [bitmap_idx |-> @.bitmap_idx,
                                              ref_count |-> @.ref_count + 1]]
           /\ ReuseIdx(t, n).free_bitmap_indices = t.free_bitmap_indices
           /\ ReuseIdx(t, n).next_bitmap_idx = t.next_bitmap_idx
<1> DEFINE v == [bitmap_idx |-> t.port_sets[n].bitmap_idx,
                 ref_count |-> t.port_sets[n].ref_count + 1]
<1>1. t.port_sets[n] \in PortSetInfo
    BY TableFields
<1>2. v = [t.port_sets[n] EXCEPT !.ref_count = @ + 1]
    BY <1>1 DEF PortSetInfo
<1>3. v \in PortSetInfo
    BY <1>1 DEF PortSetInfo
<1>4. [t.port_sets EXCEPT ![n] = v] \in PartialMaps(NormalForms, PortSetInfo)
    BY <1>3, TableFields, ExceptType
<1>5. ReuseIdx(t, n) = [t EXCEPT !.port_sets = [t.port_sets EXCEPT ![n] = v]]
    BY <1>2 DEF ReuseIdx
<1>6. QED BY <1>4, <1>5 DEF Tables

\* A new port set may take the index on top of the stack.
LEMMA PopIdxFields ==
    ASSUME NEW t \in Tables, NEW n \in NormalForms, t.free_bitmap_indices # << >>
    PROVE  LET free == t.free_bitmap_indices
               idx  == free[Len(free)]
           IN  /\ PopIdx(t, n) \in Tables
               /\ PopIdx(t, n).rules = t.rules
               /\ PopIdx(t, n).port_sets
                    = Insert(t.port_sets, n, [bitmap_idx |-> idx, ref_count |-> 1])
               /\ PopIdx(t, n).free_bitmap_indices = SubSeq(free, 1, Len(free) - 1)
               /\ PopIdx(t, n).next_bitmap_idx = t.next_bitmap_idx
<1> DEFINE free == t.free_bitmap_indices
           v    == [bitmap_idx |-> free[Len(free)], ref_count |-> 1]
<1>1. /\ free \in Seq(Nat) /\ free[Len(free)] \in Nat
      /\ SubSeq(free, 1, Len(free) - 1) \in Seq(Nat)
    BY TableFields
<1>2. v \in PortSetInfo
    BY <1>1 DEF PortSetInfo
<1>3. Insert(t.port_sets, n, v) \in PartialMaps(NormalForms, PortSetInfo)
    BY <1>2, TableFields, InsertType
<1>4. QED BY <1>1, <1>3 DEF Tables, PopIdx

\* A new port set may take the next index never handed out.
LEMMA FreshIdxFields ==
    ASSUME NEW t \in Tables, NEW n \in NormalForms
    PROVE  /\ FreshIdx(t, n) \in Tables
           /\ FreshIdx(t, n).rules = t.rules
           /\ FreshIdx(t, n).port_sets
                = Insert(t.port_sets, n, [bitmap_idx |-> t.next_bitmap_idx, ref_count |-> 1])
           /\ FreshIdx(t, n).free_bitmap_indices = t.free_bitmap_indices
           /\ FreshIdx(t, n).next_bitmap_idx = t.next_bitmap_idx + 1
<1> DEFINE v == [bitmap_idx |-> t.next_bitmap_idx, ref_count |-> 1]
<1>1. t.next_bitmap_idx \in Nat /\ t.next_bitmap_idx + 1 \in Nat
    BY TableFields
<1>2. v \in PortSetInfo
    BY <1>1 DEF PortSetInfo
<1>3. Insert(t.port_sets, n, v) \in PartialMaps(NormalForms, PortSetInfo)
    BY <1>2, TableFields, InsertType
<1>4. QED BY <1>1, <1>3 DEF Tables, FreshIdx

\* Writing a rule changes the rules only.
LEMMA PutRuleFields ==
    ASSUME NEW t \in Tables, NEW k \in RuleKeys, NEW r \in RuleInfo
    PROVE  /\ PutRule(t, k, r) \in Tables
           /\ PutRule(t, k, r).rules = Insert(t.rules, k, r)
           /\ PutRule(t, k, r).port_sets = t.port_sets
           /\ PutRule(t, k, r).free_bitmap_indices = t.free_bitmap_indices
           /\ PutRule(t, k, r).next_bitmap_idx = t.next_bitmap_idx
<1>1. Insert(t.rules, k, r) \in PartialMaps(RuleKeys, RuleInfo)
    BY TableFields, InsertType
<1>2. QED BY <1>1 DEF Tables, PutRule

\* Removing a rule changes the rules only.
LEMMA RemoveKeyFields ==
    ASSUME NEW t \in Tables, NEW k
    PROVE  /\ RemoveKey(t, k) \in Tables
           /\ RemoveKey(t, k).rules = Restrict(t.rules, DOMAIN t.rules \ {k})
           /\ RemoveKey(t, k).port_sets = t.port_sets
           /\ RemoveKey(t, k).free_bitmap_indices = t.free_bitmap_indices
           /\ RemoveKey(t, k).next_bitmap_idx = t.next_bitmap_idx
<1>1. Restrict(t.rules, DOMAIN t.rules \ {k}) \in PartialMaps(RuleKeys, RuleInfo)
    BY TableFields, RestrictType
<1>2. QED BY <1>1 DEF Tables, RemoveKey

\* PortSetAt finds a port set with the index, if there is one.
LEMMA PortSetAtDef ==
    ASSUME NEW t \in Tables, NEW idx, HasPortSet(t, idx)
    PROVE  /\ PortSetAt(t, idx) \in DOMAIN t.port_sets
           /\ t.port_sets[PortSetAt(t, idx)].bitmap_idx = idx
BY DEF HasPortSet, PortSetAt

\* Lowering a counter changes that counter only.
LEMMA LowerCountFields ==
    ASSUME NEW t \in Tables, NEW n \in DOMAIN t.port_sets, t.port_sets[n].ref_count > 0
    PROVE  /\ LowerCount(t, n) \in Tables
           /\ LowerCount(t, n).rules = t.rules
           /\ LowerCount(t, n).port_sets
                = [t.port_sets EXCEPT ![n] = [bitmap_idx |-> @.bitmap_idx,
                                              ref_count |-> @.ref_count - 1]]
           /\ LowerCount(t, n).free_bitmap_indices = t.free_bitmap_indices
           /\ LowerCount(t, n).next_bitmap_idx = t.next_bitmap_idx
<1> DEFINE v == [bitmap_idx |-> t.port_sets[n].bitmap_idx,
                 ref_count |-> t.port_sets[n].ref_count - 1]
<1>1. t.port_sets[n] \in PortSetInfo
    BY TableFields
<1>2. v = [t.port_sets[n] EXCEPT !.ref_count = @ - 1]
    BY <1>1 DEF PortSetInfo
<1>3. v \in PortSetInfo
    BY <1>1 DEF PortSetInfo
<1>4. [t.port_sets EXCEPT ![n] = v] \in PartialMaps(NormalForms, PortSetInfo)
    BY <1>3, TableFields, ExceptType
<1>5. LowerCount(t, n) = [t EXCEPT !.port_sets = [t.port_sets EXCEPT ![n] = v]]
    BY <1>2 DEF LowerCount
<1>6. QED BY <1>4, <1>5 DEF Tables

\* Freeing a port set removes it and pushes its index.
LEMMA FreeSetFields ==
    ASSUME NEW t \in Tables, NEW n \in DOMAIN t.port_sets, NEW idx \in Nat
    PROVE  /\ FreeSet(t, n, idx) \in Tables
           /\ FreeSet(t, n, idx).rules = t.rules
           /\ FreeSet(t, n, idx).port_sets = Restrict(t.port_sets, DOMAIN t.port_sets \ {n})
           /\ FreeSet(t, n, idx).free_bitmap_indices = Append(t.free_bitmap_indices, idx)
           /\ FreeSet(t, n, idx).next_bitmap_idx = t.next_bitmap_idx
<1>1. Restrict(t.port_sets, DOMAIN t.port_sets \ {n}) \in PartialMaps(NormalForms, PortSetInfo)
    BY TableFields, RestrictType
<1>2. Append(t.free_bitmap_indices, idx) \in Seq(Nat)
    BY TableFields
<1>3. QED BY <1>1, <1>2 DEF Tables, FreeSet

(***************************************************************************)
(* Between the two halves of an operation one reference is on its way: the *)
(* set was acquired and no rule uses it yet, or the rule is gone and its   *)
(* set not released.  Balanced(t, idx) is consistency up to that one       *)
(* reference, to the set of index idx; there is none when idx = NoIdx.     *)
(***************************************************************************)
InFlight(t, n, idx) == IF t.port_sets[n].bitmap_idx = idx THEN 1 ELSE 0

CountersBalanced(t, idx) ==
    \A n \in DOMAIN t.port_sets :
        /\ t.port_sets[n].ref_count
             = Cardinality(Users(t, t.port_sets[n].bitmap_idx)) + InFlight(t, n, idx)
        /\ t.port_sets[n].ref_count > 0

Balanced(t, idx) == /\ CountersBalanced(t, idx)
                    /\ idx # NoIdx => HasPortSet(t, idx)
                    /\ OneSetPerIdx(t)
                    /\ FreeAndLivePartition(t)
                    /\ RulesFindTheirSet(t)

\* With no reference in flight, balanced means consistent.
LEMMA BalancedNoIdx ==
    ASSUME NEW t \in Tables
    PROVE  Balanced(t, NoIdx) <=> Consistent(t)
<1>1. \A n \in DOMAIN t.port_sets : t.port_sets[n].bitmap_idx \in Nat
    BY TableFields DEF PortSetInfo
<1>2. \A n \in DOMAIN t.port_sets :
          /\ InFlight(t, n, NoIdx) = 0
          /\ t.port_sets[n].ref_count \in Nat
    BY <1>1, TableFields DEF InFlight, NoIdx, PortSetInfo
<1>3. \A i : Cardinality(Users(t, i)) \in Nat
    BY TableFields, RuleKeysAssumption, FS_Subset, FS_CardinalityType DEF Users
<1>4. CountersBalanced(t, NoIdx) <=> CountersMatchUsers(t)
    BY <1>2, <1>3 DEF CountersBalanced, CountersMatchUsers
<1>5. QED BY <1>4 DEF Balanced, Consistent

\* A port set has finitely many users, so they can be counted.
LEMMA UsersFinite ==
    ASSUME NEW t \in Tables, NEW idx
    PROVE  IsFiniteSet(Users(t, idx)) /\ Cardinality(Users(t, idx)) \in Nat
BY TableFields, RuleKeysAssumption, FS_Subset, FS_CardinalityType DEF Users

\* The index of a rule is always that of a live port set.
LEMMA RuleIdxIsLive ==
    ASSUME NEW t \in Tables, RulesFindTheirSet(t), NEW k \in DOMAIN t.rules,
           t.rules[k].bitmap_idx # NoIdx
    PROVE  t.rules[k].bitmap_idx \in LiveIndices(t)
BY DEF RulesFindTheirSet, LiveIndices

(***************************************************************************)
(* Acquiring a port set.                                                   *)
(***************************************************************************)
\* Reusing a live port set puts one reference to it in flight.
LEMMA ReuseBalanced ==
    ASSUME NEW t \in Tables, Balanced(t, NoIdx), NEW n \in DOMAIN t.port_sets
    PROVE  Balanced(ReuseIdx(t, n), t.port_sets[n].bitmap_idx)
<1> DEFINE u   == ReuseIdx(t, n)
           idx == t.port_sets[n].bitmap_idx
<1>1. /\ u.rules = t.rules
      /\ u.port_sets = [t.port_sets EXCEPT ![n] = [bitmap_idx |-> @.bitmap_idx,
                                                   ref_count |-> @.ref_count + 1]]
      /\ u.free_bitmap_indices = t.free_bitmap_indices
      /\ u.next_bitmap_idx = t.next_bitmap_idx
    BY ReuseIdxFields
<1>2. /\ DOMAIN u.port_sets = DOMAIN t.port_sets
      /\ \A m \in DOMAIN t.port_sets :
             /\ u.port_sets[m].bitmap_idx = t.port_sets[m].bitmap_idx
             /\ u.port_sets[m].ref_count = IF m = n THEN t.port_sets[m].ref_count + 1
                                                    ELSE t.port_sets[m].ref_count
    BY <1>1
<1>3. \A i : Users(u, i) = Users(t, i)
    BY <1>1 DEF Users
<1>4. \A m \in DOMAIN t.port_sets :
          /\ t.port_sets[m].ref_count = Cardinality(Users(t, t.port_sets[m].bitmap_idx))
          /\ t.port_sets[m].ref_count > 0
          /\ t.port_sets[m].ref_count \in Nat
    BY BalancedNoIdx, TableFields DEF Consistent, CountersMatchUsers, PortSetInfo
<1>5. OneSetPerIdx(t)
    BY DEF Balanced
<1>6. CountersBalanced(u, idx)
  <2> SUFFICES ASSUME NEW m \in DOMAIN u.port_sets
               PROVE  /\ u.port_sets[m].ref_count
                           = Cardinality(Users(u, u.port_sets[m].bitmap_idx)) + InFlight(u, m, idx)
                      /\ u.port_sets[m].ref_count > 0
      BY DEF CountersBalanced
  <2>1. CASE m = n
      BY <2>1, <1>2, <1>3, <1>4 DEF InFlight
  <2>2. CASE m # n
    <3>1. u.port_sets[m].bitmap_idx # idx
        BY <2>2, <1>2, <1>5 DEF OneSetPerIdx
    <3>2. QED BY <3>1, <2>2, <1>2, <1>3, <1>4 DEF InFlight
  <2>3. QED BY <2>1, <2>2
<1>7. HasPortSet(u, idx)
    BY <1>2 DEF HasPortSet
<1>8. OneSetPerIdx(u)
    BY <1>2, <1>5 DEF OneSetPerIdx
<1>9. FreeAndLivePartition(u)
  <2>1. LiveIndices(u) = LiveIndices(t)
      BY <1>2 DEF LiveIndices
  <2>2. FreeIndices(u) = FreeIndices(t)
      BY <1>1 DEF FreeIndices
  <2>3. FreeAndLivePartition(t)
      BY DEF Balanced
  <2>4. QED BY <1>1, <2>1, <2>2, <2>3 DEF FreeAndLivePartition
<1>10. RulesFindTheirSet(u)
  <2>1. RulesFindTheirSet(t)
      BY DEF Balanced
  <2>2. QED BY <1>1, <1>2, <2>1 DEF RulesFindTheirSet
<1>11. QED BY <1>6, <1>7, <1>8, <1>9, <1>10 DEF Balanced

\* A new port set under an index that no port set holds.
LEMMA NewSetBalanced ==
    ASSUME NEW t \in Tables, Balanced(t, NoIdx),
           NEW n \in NormalForms \ DOMAIN t.port_sets,
           NEW u \in Tables, NEW idx \in Nat \ LiveIndices(t),
           u.rules = t.rules,
           u.port_sets = Insert(t.port_sets, n, [bitmap_idx |-> idx, ref_count |-> 1]),
           FreeAndLivePartition(u)
    PROVE  Balanced(u, idx)
<1>1. /\ DOMAIN u.port_sets = DOMAIN t.port_sets \cup {n}
      /\ u.port_sets[n].bitmap_idx = idx /\ u.port_sets[n].ref_count = 1
      /\ \A m \in DOMAIN t.port_sets : u.port_sets[m] = t.port_sets[m]
    BY DEF Insert
<1>2. /\ OneSetPerIdx(t) /\ RulesFindTheirSet(t)
      /\ \A m \in DOMAIN t.port_sets :
             /\ t.port_sets[m].ref_count = Cardinality(Users(t, t.port_sets[m].bitmap_idx))
             /\ t.port_sets[m].ref_count > 0
             /\ t.port_sets[m].ref_count \in Nat
    BY BalancedNoIdx, TableFields DEF Balanced, Consistent, CountersMatchUsers, PortSetInfo
<1>3. \A m \in DOMAIN t.port_sets : t.port_sets[m].bitmap_idx # idx
    BY DEF LiveIndices
<1>4. \A i : Users(u, i) = Users(t, i)
    BY DEF Users
<1>5. Users(t, idx) = {}
    BY <1>2, RuleIdxIsLive DEF Users, NoIdx
<1>6. CountersBalanced(u, idx)
  <2> SUFFICES ASSUME NEW m \in DOMAIN u.port_sets
               PROVE  /\ u.port_sets[m].ref_count
                           = Cardinality(Users(u, u.port_sets[m].bitmap_idx)) + InFlight(u, m, idx)
                      /\ u.port_sets[m].ref_count > 0
      BY DEF CountersBalanced
  <2>1. CASE m = n
    <3>1. Cardinality(Users(u, idx)) = 0
        BY <1>4, <1>5, FS_EmptySet
    <3>2. QED BY <3>1, <2>1, <1>1 DEF InFlight
  <2>2. CASE m # n
    <3>1. m \in DOMAIN t.port_sets /\ InFlight(u, m, idx) = 0
        BY <2>2, <1>1, <1>3 DEF InFlight
    <3>2. QED BY <3>1, <1>1, <1>2, <1>4
  <2>3. QED BY <2>1, <2>2
<1>7. HasPortSet(u, idx)
    BY <1>1 DEF HasPortSet
<1>8. OneSetPerIdx(u)
    BY <1>1, <1>2, <1>3 DEF OneSetPerIdx
<1>9. RulesFindTheirSet(u)
    BY <1>1, <1>2 DEF RulesFindTheirSet
<1>10. QED BY <1>6, <1>7, <1>8, <1>9 DEF Balanced

\* A port set with a recycled index starts with one reference in flight.
LEMMA PopBalanced ==
    ASSUME NEW t \in Tables, Balanced(t, NoIdx), NEW n \in NormalForms \ DOMAIN t.port_sets,
           t.free_bitmap_indices # << >>
    PROVE  Balanced(PopIdx(t, n), PopIdx(t, n).port_sets[n].bitmap_idx)
<1> DEFINE u    == PopIdx(t, n)
           free == t.free_bitmap_indices
           idx  == free[Len(free)]
<1>1. /\ u \in Tables
      /\ u.rules = t.rules
      /\ u.port_sets = Insert(t.port_sets, n, [bitmap_idx |-> idx, ref_count |-> 1])
      /\ u.free_bitmap_indices = SubSeq(free, 1, Len(free) - 1)
      /\ u.next_bitmap_idx = t.next_bitmap_idx
    BY PopIdxFields
<1>2. u.port_sets[n].bitmap_idx = idx
    BY <1>1 DEF Insert
<1>3. /\ free \in Seq(Nat) /\ Len(free) \in DOMAIN free /\ Len(free) \in Nat \ {0}
      /\ DOMAIN free = 1 .. Len(free) /\ idx \in Nat
    BY TableFields
<1>4. FreeAndLivePartition(t)
    BY DEF Balanced
<1>5. idx \in FreeIndices(t)
    BY <1>3 DEF FreeIndices
<1>6. idx \notin LiveIndices(t)
    BY <1>4, <1>5 DEF FreeAndLivePartition
<1>7. /\ DOMAIN u.free_bitmap_indices = 1 .. Len(free) - 1
      /\ \A i \in 1 .. Len(free) - 1 : u.free_bitmap_indices[i] = free[i]
    BY <1>1, <1>3
<1>8. FreeIndices(u) = FreeIndices(t) \ {idx}
  <2>1. ASSUME NEW i \in 1 .. Len(free) - 1 PROVE free[i] \in FreeIndices(t) /\ free[i] # idx
    <3>1. i \in DOMAIN free /\ i # Len(free)
        BY <1>3
    <3>2. \A a, b \in DOMAIN free : free[a] = free[b] => a = b
        BY <1>4 DEF FreeAndLivePartition
    <3>3. free[i] # idx
        BY <3>1, <3>2, <1>3
    <3>4. QED BY <3>1, <3>3 DEF FreeIndices
  <2>2. ASSUME NEW i \in DOMAIN free, free[i] # idx PROVE i \in 1 .. Len(free) - 1
    <3>1. i # Len(free) /\ i \in 1 .. Len(free)
        BY <2>2, <1>3, Zenon
    <3>2. \A L \in Nat \ {0} : i \in 1 .. L /\ i # L => i \in 1 .. L - 1
        OBVIOUS
    <3>3. QED BY <1>3, <3>1, <3>2, Zenon
  <2>3. ASSUME NEW x \in FreeIndices(u)
        PROVE  x \in FreeIndices(t) \ {idx}
    <3>1. PICK i \in 1 .. Len(free) - 1 : x = free[i]
        BY <1>7 DEF FreeIndices
    <3>2. QED BY <2>1, <3>1, Zenon
  <2>4. ASSUME NEW x \in FreeIndices(t), x # idx
        PROVE  x \in FreeIndices(u)
    <3>1. PICK i \in DOMAIN free : x = free[i]
        BY DEF FreeIndices
    <3>2. i \in DOMAIN u.free_bitmap_indices /\ x = u.free_bitmap_indices[i]
        BY <1>7, <2>2, <2>4, <3>1, Zenon
    <3>3. QED BY <3>2 DEF FreeIndices
  <2>5. QED BY <2>3, <2>4
<1>9. LiveIndices(u) = LiveIndices(t) \cup {idx}
    BY <1>1, <1>2 DEF LiveIndices, Insert
<1>10. FreeAndLivePartition(u)
  <2>1. \A i, j \in DOMAIN u.free_bitmap_indices :
            u.free_bitmap_indices[i] = u.free_bitmap_indices[j] => i = j
    <3>1. \A L \in Nat \ {0} : \A i \in 1 .. L - 1 : i \in 1 .. L
        OBVIOUS
    <3>2. \A i \in DOMAIN u.free_bitmap_indices :
              i \in DOMAIN free /\ u.free_bitmap_indices[i] = free[i]
        BY <1>3, <1>7, <3>1, Zenon
    <3>3. \A i, j \in DOMAIN free : free[i] = free[j] => i = j
        BY <1>4, Zenon DEF FreeAndLivePartition
    <3>4. QED BY <3>2, <3>3, Zenon
  <2>2. QED BY <2>1, <1>1, <1>4, <1>5, <1>8, <1>9 DEF FreeAndLivePartition
<1>11. QED BY <1>1, <1>2, <1>3, <1>6, <1>10, NewSetBalanced

\* A port set with a fresh index starts with one reference in flight.
LEMMA FreshBalanced ==
    ASSUME NEW t \in Tables, Balanced(t, NoIdx), NEW n \in NormalForms \ DOMAIN t.port_sets
    PROVE  Balanced(FreshIdx(t, n), FreshIdx(t, n).port_sets[n].bitmap_idx)
<1> DEFINE u   == FreshIdx(t, n)
           idx == t.next_bitmap_idx
<1>1. /\ u \in Tables
      /\ u.rules = t.rules
      /\ u.port_sets = Insert(t.port_sets, n, [bitmap_idx |-> idx, ref_count |-> 1])
      /\ u.free_bitmap_indices = t.free_bitmap_indices
      /\ u.next_bitmap_idx = idx + 1
    BY FreshIdxFields
<1>2. u.port_sets[n].bitmap_idx = idx /\ idx \in Nat
    BY <1>1, TableFields DEF Insert
<1>3. FreeAndLivePartition(t)
    BY DEF Balanced
<1>4. idx \notin LiveIndices(t) /\ idx \notin FreeIndices(t)
    BY <1>2, <1>3 DEF FreeAndLivePartition
<1>5. FreeIndices(u) = FreeIndices(t)
    BY <1>1 DEF FreeIndices
<1>6. LiveIndices(u) = LiveIndices(t) \cup {idx}
    BY <1>1, <1>2 DEF LiveIndices, Insert
<1>7. FreeAndLivePartition(u)
  <2>1. FreeIndices(u) \cup LiveIndices(u) = 0 .. u.next_bitmap_idx - 1
      BY <1>1, <1>2, <1>3, <1>5, <1>6 DEF FreeAndLivePartition
  <2>2. FreeIndices(u) \cap LiveIndices(u) = {}
      BY <1>3, <1>4, <1>5, <1>6 DEF FreeAndLivePartition
  <2>3. QED BY <2>1, <2>2, <1>1, <1>3 DEF FreeAndLivePartition
<1>8. QED BY <1>1, <1>2, <1>4, <1>7, NewSetBalanced

\* However apply_add_rule gets its port set, one reference is in flight.
LEMMA AcquireBalanced ==
    ASSUME NEW t \in Tables, Balanced(t, NoIdx), NEW n \in NormalForms
    PROVE  LET u == AcquirePortSet(t, n)
           IN  /\ u \in Tables
               /\ u.rules = t.rules
               /\ n \in DOMAIN u.port_sets
               /\ Balanced(u, u.port_sets[n].bitmap_idx)
<1>1. CASE n \in DOMAIN t.port_sets
  <2>1. AcquirePortSet(t, n) = ReuseIdx(t, n)
      BY <1>1 DEF AcquirePortSet
  <2>2. /\ DOMAIN ReuseIdx(t, n).port_sets = DOMAIN t.port_sets
        /\ ReuseIdx(t, n).port_sets[n].bitmap_idx = t.port_sets[n].bitmap_idx
    <3>1. ReuseIdx(t, n).port_sets
            = [t.port_sets EXCEPT ![n] = [bitmap_idx |-> t.port_sets[n].bitmap_idx,
                                          ref_count |-> t.port_sets[n].ref_count + 1]]
        BY <1>1, ReuseIdxFields
    <3>2. QED BY <3>1, <1>1
  <2>3. Balanced(ReuseIdx(t, n), t.port_sets[n].bitmap_idx)
      BY <1>1, ReuseBalanced, Zenon
  <2>4. ReuseIdx(t, n) \in Tables /\ ReuseIdx(t, n).rules = t.rules
      BY <1>1, ReuseIdxFields, Zenon
  <2>5. QED BY <2>1, <2>2, <2>3, <2>4, <1>1, Zenon
<1>2. CASE n \notin DOMAIN t.port_sets /\ t.free_bitmap_indices # << >>
  <2>1. AcquirePortSet(t, n) = PopIdx(t, n)
      BY <1>2 DEF AcquirePortSet
  <2>2. \E v : PopIdx(t, n).port_sets = Insert(t.port_sets, n, v)
      BY <1>2, PopIdxFields, Zenon
  <2>3. n \in DOMAIN PopIdx(t, n).port_sets
      BY <2>2 DEF Insert
  <2>4. PopIdx(t, n) \in Tables /\ PopIdx(t, n).rules = t.rules
      BY <1>2, PopIdxFields, Zenon
  <2>5. Balanced(PopIdx(t, n), PopIdx(t, n).port_sets[n].bitmap_idx)
      BY <1>2, PopBalanced, Zenon
  <2>6. QED BY <2>1, <2>3, <2>4, <2>5, Zenon
<1>3. CASE n \notin DOMAIN t.port_sets /\ t.free_bitmap_indices = << >>
  <2>1. AcquirePortSet(t, n) = FreshIdx(t, n)
      BY <1>3 DEF AcquirePortSet
  <2>2. n \in DOMAIN FreshIdx(t, n).port_sets
    <3>1. FreshIdx(t, n).port_sets
            = Insert(t.port_sets, n, [bitmap_idx |-> t.next_bitmap_idx, ref_count |-> 1])
        BY FreshIdxFields
    <3>2. QED BY <3>1 DEF Insert
  <2>3. QED BY <2>1, <2>2, <1>3, FreshIdxFields, FreshBalanced
<1>4. QED BY <1>1, <1>2, <1>3

(***************************************************************************)
(* Changing the rule under a key.  Whether it is replaced or removed, the  *)
(* reference to its old index is in flight afterwards.                     *)
(***************************************************************************)
\* The rule takes the reference in flight; that of its predecessor is in flight then.
LEMMA PutBalanced ==
    ASSUME NEW t \in Tables, NEW k \in RuleKeys, NEW r \in RuleInfo,
           Balanced(t, r.bitmap_idx),
           r.ports = AllPorts => r.bitmap_idx = NoIdx,
           r.ports # AllPorts => /\ ValidPorts(r.ports)
                                 /\ Normalize(r.ports) \in DOMAIN t.port_sets
                                 /\ r.bitmap_idx = t.port_sets[Normalize(r.ports)].bitmap_idx
    PROVE  Balanced(PutRule(t, k, r), IdxOf(t, k))
<1> DEFINE u   == PutRule(t, k, r)
           old == IdxOf(t, k)
           new == r.bitmap_idx
<1>1. /\ u.rules = Insert(t.rules, k, r)
      /\ u.port_sets = t.port_sets
      /\ u.free_bitmap_indices = t.free_bitmap_indices
      /\ u.next_bitmap_idx = t.next_bitmap_idx
    BY PutRuleFields
<1>2. /\ DOMAIN u.rules = DOMAIN t.rules \cup {k}
      /\ u.rules[k] = r
      /\ \A j \in DOMAIN t.rules \ {k} : u.rules[j] = t.rules[j]
    BY <1>1 DEF Insert
<1>3. RulesFindTheirSet(t) /\ OneSetPerIdx(t) /\ FreeAndLivePartition(t)
    BY DEF Balanced
<1>4. CountersBalanced(u, old)
  <2> SUFFICES ASSUME NEW m \in DOMAIN t.port_sets
               PROVE  /\ t.port_sets[m].ref_count
                           = Cardinality(Users(u, t.port_sets[m].bitmap_idx)) + InFlight(t, m, old)
                      /\ t.port_sets[m].ref_count > 0
      BY <1>1 DEF CountersBalanced, InFlight
  <2> DEFINE i == t.port_sets[m].bitmap_idx
  <2>1. i \in Nat /\ i # NoIdx
      BY TableFields DEF PortSetInfo, NoIdx
  <2>2. /\ t.port_sets[m].ref_count = Cardinality(Users(t, i)) + (IF i = new THEN 1 ELSE 0)
        /\ t.port_sets[m].ref_count > 0
      BY DEF Balanced, CountersBalanced, InFlight
  <2>3. IsFiniteSet(Users(t, i)) /\ Cardinality(Users(t, i)) \in Nat
      BY UsersFinite
  <2>4. k \in Users(t, i) <=> i = old
      BY <2>1 DEF Users, IdxOf
  <2>5. CASE i = new /\ i = old
    <3>1. Users(u, i) = Users(t, i)
        BY <2>4, <2>5, <1>2 DEF Users
    <3>2. QED BY <3>1, <2>2, <2>5 DEF InFlight
  <2>6. CASE i = new /\ i # old
    <3>1. Users(u, i) = Users(t, i) \cup {k} /\ k \notin Users(t, i)
        BY <2>4, <2>6, <1>2 DEF Users
    <3>2. Cardinality(Users(u, i)) = Cardinality(Users(t, i)) + 1
        BY <3>1, <2>3, FS_AddElement
    <3>3. QED BY <3>2, <2>2, <2>3, <2>6 DEF InFlight
  <2>7. CASE i # new /\ i = old
    <3>1. Users(u, i) = Users(t, i) \ {k} /\ k \in Users(t, i)
        BY <2>4, <2>7, <1>2 DEF Users
    <3>2. Cardinality(Users(u, i)) = Cardinality(Users(t, i)) - 1
        BY <3>1, <2>3, FS_RemoveElement
    <3>3. QED BY <3>2, <2>2, <2>3, <2>7 DEF InFlight
  <2>8. CASE i # new /\ i # old
    <3>1. Users(u, i) = Users(t, i)
        BY <2>4, <2>8, <1>2 DEF Users
    <3>2. QED BY <3>1, <2>2, <2>3, <2>8 DEF InFlight
  <2>9. QED BY <2>5, <2>6, <2>7, <2>8
<1>5. old # NoIdx => HasPortSet(u, old)
  <2>1. old # NoIdx => k \in DOMAIN t.rules /\ old = t.rules[k].bitmap_idx
      BY DEF IdxOf
  <2>2. old # NoIdx => old \in LiveIndices(t)
      BY <2>1, <1>3, RuleIdxIsLive
  <2>3. QED BY <2>2, <1>1 DEF LiveIndices, HasPortSet
<1>6. OneSetPerIdx(u)
    BY <1>1, <1>3 DEF OneSetPerIdx
<1>7. FreeAndLivePartition(u)
  <2>1. LiveIndices(u) = LiveIndices(t) /\ FreeIndices(u) = FreeIndices(t)
      BY <1>1 DEF LiveIndices, FreeIndices
  <2>2. QED BY <2>1, <1>1, <1>3 DEF FreeAndLivePartition
<1>8. RulesFindTheirSet(u)
    BY <1>1, <1>2, <1>3 DEF RulesFindTheirSet
<1>9. QED BY <1>4, <1>5, <1>6, <1>7, <1>8 DEF Balanced

\* The reference of a removed rule is in flight.
LEMMA RemoveKeyBalanced ==
    ASSUME NEW t \in Tables, Balanced(t, NoIdx), NEW k \in DOMAIN t.rules
    PROVE  Balanced(RemoveKey(t, k), IdxOf(t, k))
<1> DEFINE u   == RemoveKey(t, k)
           old == IdxOf(t, k)
<1>1. /\ u.rules = Restrict(t.rules, DOMAIN t.rules \ {k})
      /\ u.port_sets = t.port_sets
      /\ u.free_bitmap_indices = t.free_bitmap_indices
      /\ u.next_bitmap_idx = t.next_bitmap_idx
    BY RemoveKeyFields
<1>2. /\ DOMAIN u.rules = DOMAIN t.rules \ {k}
      /\ \A j \in DOMAIN t.rules \ {k} : u.rules[j] = t.rules[j]
    BY <1>1 DEF Restrict
<1>3. RulesFindTheirSet(t) /\ OneSetPerIdx(t) /\ FreeAndLivePartition(t)
    BY DEF Balanced
<1>4. CountersBalanced(u, old)
  <2> SUFFICES ASSUME NEW m \in DOMAIN t.port_sets
               PROVE  /\ t.port_sets[m].ref_count
                           = Cardinality(Users(u, t.port_sets[m].bitmap_idx)) + InFlight(t, m, old)
                      /\ t.port_sets[m].ref_count > 0
      BY <1>1 DEF CountersBalanced, InFlight
  <2> DEFINE i == t.port_sets[m].bitmap_idx
  <2>1. t.port_sets[m].ref_count = Cardinality(Users(t, i)) /\ t.port_sets[m].ref_count > 0
      BY BalancedNoIdx DEF Consistent, CountersMatchUsers
  <2>2. IsFiniteSet(Users(t, i)) /\ Cardinality(Users(t, i)) \in Nat
      BY UsersFinite
  <2>3. CASE i = old
    <3>1. Users(u, i) = Users(t, i) \ {k} /\ k \in Users(t, i)
        BY <2>3, <1>2 DEF Users, IdxOf
    <3>2. Cardinality(Users(u, i)) = Cardinality(Users(t, i)) - 1
      <4>1. \A S : IsFiniteSet(S) /\ k \in S => Cardinality(S \ {k}) = Cardinality(S) - 1
          BY FS_RemoveElement
      <4>2. QED BY <3>1, <2>2, <4>1, Zenon
    <3>3. QED BY <3>2, <2>1, <2>2, <2>3 DEF InFlight
  <2>4. CASE i # old
    <3>1. Users(u, i) = Users(t, i)
        BY <2>4, <1>2 DEF Users, IdxOf
    <3>2. QED BY <3>1, <2>1, <2>2, <2>4 DEF InFlight
  <2>5. QED BY <2>3, <2>4
<1>5. old # NoIdx => HasPortSet(u, old)
  <2>1. old # NoIdx => old \in LiveIndices(t)
      BY <1>3, RuleIdxIsLive DEF IdxOf
  <2>2. QED BY <2>1, <1>1 DEF LiveIndices, HasPortSet
<1>6. OneSetPerIdx(u)
    BY <1>1, <1>3 DEF OneSetPerIdx
<1>7. FreeAndLivePartition(u)
  <2>1. LiveIndices(u) = LiveIndices(t) /\ FreeIndices(u) = FreeIndices(t)
      BY <1>1 DEF LiveIndices, FreeIndices
  <2>2. QED BY <2>1, <1>1, <1>3 DEF FreeAndLivePartition
<1>8. RulesFindTheirSet(u)
    BY <1>1, <1>2, <1>3 DEF RulesFindTheirSet
<1>9. QED BY <1>4, <1>5, <1>6, <1>7, <1>8 DEF Balanced

(***************************************************************************)
(* Releasing the reference in flight.                                      *)
(***************************************************************************)
\* A set with further users gives the reference back by its counter.
LEMMA LowerBalanced ==
    ASSUME NEW t \in Tables, NEW idx \in Nat, Balanced(t, idx),
           t.port_sets[PortSetAt(t, idx)].ref_count # 1
    PROVE  /\ LowerCount(t, PortSetAt(t, idx)) \in Tables
           /\ Balanced(LowerCount(t, PortSetAt(t, idx)), NoIdx)
<1> DEFINE n == PortSetAt(t, idx)
           u == LowerCount(t, n)
<1>1. n \in DOMAIN t.port_sets /\ t.port_sets[n].bitmap_idx = idx
    BY PortSetAtDef DEF Balanced, NoIdx
<1>2. t.port_sets[n].ref_count > 0
    BY <1>1 DEF Balanced, CountersBalanced
<1>3. /\ u \in Tables
      /\ u.rules = t.rules
      /\ u.port_sets = [t.port_sets EXCEPT ![n] = [bitmap_idx |-> t.port_sets[n].bitmap_idx,
                                                   ref_count |-> t.port_sets[n].ref_count - 1]]
      /\ u.free_bitmap_indices = t.free_bitmap_indices
      /\ u.next_bitmap_idx = t.next_bitmap_idx
    BY <1>1, <1>2, LowerCountFields
<1>4. /\ DOMAIN u.port_sets = DOMAIN t.port_sets
      /\ \A m \in DOMAIN t.port_sets :
             /\ u.port_sets[m].bitmap_idx = t.port_sets[m].bitmap_idx
             /\ u.port_sets[m].ref_count = IF m = n THEN t.port_sets[m].ref_count - 1
                                                    ELSE t.port_sets[m].ref_count
    BY <1>3
<1>5. RulesFindTheirSet(t) /\ OneSetPerIdx(t) /\ FreeAndLivePartition(t)
    BY DEF Balanced
<1>6. CountersMatchUsers(u)
  <2> SUFFICES ASSUME NEW m \in DOMAIN t.port_sets
               PROVE  /\ u.port_sets[m].ref_count = Cardinality(Users(u, t.port_sets[m].bitmap_idx))
                      /\ u.port_sets[m].ref_count > 0
      BY <1>4 DEF CountersMatchUsers
  <2> DEFINE i == t.port_sets[m].bitmap_idx
  <2>1. Users(u, i) = Users(t, i)
      BY <1>3 DEF Users
  <2>2. Cardinality(Users(t, i)) \in Nat /\ t.port_sets[m].ref_count \in Nat
      BY UsersFinite, TableFields DEF PortSetInfo
  <2>3. /\ t.port_sets[m].ref_count = Cardinality(Users(t, i)) + (IF i = idx THEN 1 ELSE 0)
        /\ t.port_sets[m].ref_count > 0
      BY DEF Balanced, CountersBalanced, InFlight
  <2>4. i = idx <=> m = n
      BY <1>1, <1>5 DEF OneSetPerIdx
  <2>5. QED BY <2>1, <2>2, <2>3, <2>4, <1>4
<1>7. OneSetPerIdx(u)
    BY <1>4, <1>5 DEF OneSetPerIdx
<1>8. FreeAndLivePartition(u)
  <2>1. LiveIndices(u) = LiveIndices(t) /\ FreeIndices(u) = FreeIndices(t)
      BY <1>3, <1>4 DEF LiveIndices, FreeIndices
  <2>2. QED BY <2>1, <1>3, <1>5 DEF FreeAndLivePartition
<1>9. RulesFindTheirSet(u)
    BY <1>3, <1>4, <1>5 DEF RulesFindTheirSet
<1>10. QED BY <1>3, <1>6, <1>7, <1>8, <1>9, BalancedNoIdx DEF Consistent

\* A set without further users gives it back with its index.
LEMMA FreeBalanced ==
    ASSUME NEW t \in Tables, NEW idx \in Nat, Balanced(t, idx),
           t.port_sets[PortSetAt(t, idx)].ref_count = 1
    PROVE  /\ FreeSet(t, PortSetAt(t, idx), idx) \in Tables
           /\ Balanced(FreeSet(t, PortSetAt(t, idx), idx), NoIdx)
<1> DEFINE n    == PortSetAt(t, idx)
           u    == FreeSet(t, n, idx)
           free == t.free_bitmap_indices
<1>1. n \in DOMAIN t.port_sets /\ t.port_sets[n].bitmap_idx = idx
    BY PortSetAtDef DEF Balanced, NoIdx
<1>2. /\ u \in Tables
      /\ u.rules = t.rules
      /\ u.port_sets = Restrict(t.port_sets, DOMAIN t.port_sets \ {n})
      /\ u.free_bitmap_indices = Append(free, idx)
      /\ u.next_bitmap_idx = t.next_bitmap_idx
    BY <1>1, FreeSetFields
<1>3. /\ DOMAIN u.port_sets = DOMAIN t.port_sets \ {n}
      /\ \A m \in DOMAIN t.port_sets \ {n} : u.port_sets[m] = t.port_sets[m]
    BY <1>2 DEF Restrict
<1>4. RulesFindTheirSet(t) /\ OneSetPerIdx(t) /\ FreeAndLivePartition(t)
    BY DEF Balanced
<1>5. \A m \in DOMAIN t.port_sets \ {n} : t.port_sets[m].bitmap_idx # idx
    BY <1>1, <1>4 DEF OneSetPerIdx
<1>6. Users(t, idx) = {}
  <2>1. 1 = Cardinality(Users(t, idx)) + 1
      BY <1>1 DEF Balanced, CountersBalanced, InFlight
  <2>2. Cardinality(Users(t, idx)) = 0
      BY <2>1, UsersFinite
  <2>3. QED BY <2>2, UsersFinite, FS_EmptySet
<1>7. CountersMatchUsers(u)
  <2> SUFFICES ASSUME NEW m \in DOMAIN t.port_sets \ {n}
               PROVE  /\ t.port_sets[m].ref_count = Cardinality(Users(u, t.port_sets[m].bitmap_idx))
                      /\ t.port_sets[m].ref_count > 0
      BY <1>3 DEF CountersMatchUsers
  <2> DEFINE i == t.port_sets[m].bitmap_idx
  <2>1. Users(u, i) = Users(t, i)
      BY <1>2 DEF Users
  <2>2. t.port_sets[m].ref_count = Cardinality(Users(t, i)) + 0 /\ t.port_sets[m].ref_count > 0
      BY <1>5 DEF Balanced, CountersBalanced, InFlight
  <2>3. QED BY <2>1, <2>2, UsersFinite
<1>8. OneSetPerIdx(u)
    BY <1>3, <1>4 DEF OneSetPerIdx
<1>9. FreeAndLivePartition(u)
  <2>1. free \in Seq(Nat)
      BY TableFields
  <2>2. /\ DOMAIN Append(free, idx) = DOMAIN free \cup {Len(free) + 1}
        /\ Append(free, idx)[Len(free) + 1] = idx
        /\ \A i \in DOMAIN free : Append(free, idx)[i] = free[i]
      BY <2>1
  <2>3. FreeIndices(u) = FreeIndices(t) \cup {idx}
      BY <2>2, <1>2 DEF FreeIndices
  <2>4. LiveIndices(u) = LiveIndices(t) \ {idx} /\ idx \in LiveIndices(t)
      BY <1>1, <1>3, <1>5 DEF LiveIndices
  <2>5. \A i \in DOMAIN free : free[i] # idx
      BY <2>4, <1>4 DEF FreeAndLivePartition, FreeIndices
  <2>6. \A i, j \in DOMAIN u.free_bitmap_indices :
            u.free_bitmap_indices[i] = u.free_bitmap_indices[j] => i = j
    <3>1. \A i, j \in DOMAIN free : free[i] = free[j] => i = j
        BY <1>4 DEF FreeAndLivePartition
    <3>2. QED BY <3>1, <2>2, <2>5, <1>2
  <2>7. QED BY <2>3, <2>4, <2>6, <1>2, <1>4 DEF FreeAndLivePartition
<1>10. RulesFindTheirSet(u)
  <2> SUFFICES ASSUME NEW k \in DOMAIN t.rules, t.rules[k].ports # AllPorts
               PROVE  /\ Normalize(t.rules[k].ports) \in DOMAIN u.port_sets
                      /\ t.rules[k].bitmap_idx = u.port_sets[Normalize(t.rules[k].ports)].bitmap_idx
      BY <1>2, <1>4 DEF RulesFindTheirSet
  <2>1. t.rules[k].bitmap_idx # idx
      BY <1>6 DEF Users
  <2>2. /\ Normalize(t.rules[k].ports) \in DOMAIN t.port_sets
        /\ t.rules[k].bitmap_idx = t.port_sets[Normalize(t.rules[k].ports)].bitmap_idx
      BY <1>4 DEF RulesFindTheirSet
  <2>3. QED BY <2>1, <2>2, <1>1, <1>3
<1>11. QED BY <1>2, <1>7, <1>8, <1>9, <1>10, BalancedNoIdx DEF Consistent

\* release_port_set consumes the reference in flight.
LEMMA ReleaseBalanced ==
    ASSUME NEW t \in Tables, NEW idx \in Nat, Balanced(t, idx)
    PROVE  ReleasePortSet(t, idx) \in Tables /\ Balanced(ReleasePortSet(t, idx), NoIdx)
<1> DEFINE n == PortSetAt(t, idx)
<1>1. HasPortSet(t, idx)
    BY DEF Balanced, NoIdx
<1>2. CASE t.port_sets[n].ref_count = 1
  <2>1. ReleasePortSet(t, idx) = FreeSet(t, n, idx)
      BY <1>1, <1>2 DEF ReleasePortSet
  <2>2. QED BY <2>1, <1>2, FreeBalanced
<1>3. CASE t.port_sets[n].ref_count # 1
  <2>1. ReleasePortSet(t, idx) = LowerCount(t, n)
      BY <1>1, <1>3 DEF ReleasePortSet
  <2>2. QED BY <2>1, <1>3, LowerBalanced
<1>4. QED BY <1>2, <1>3

(***************************************************************************)
(* The operations.                                                         *)
(***************************************************************************)
\* apply_add_rule keeps a table consistent, whatever rule it replaces.
LEMMA AddRuleConsistent ==
    ASSUME NEW t \in Tables, Consistent(t), NEW k \in RuleKeys, NEW a \in Actions,
           NEW p \in PortTexts, p # AllPorts => ValidPorts(p)
    PROVE  ApplyAddRule(t, k, a, p) \in Tables /\ Consistent(ApplyAddRule(t, k, a, p))
<1> DEFINE acq == IF p = AllPorts THEN t ELSE AcquirePortSet(t, Normalize(p))
           idx == IF p = AllPorts THEN NoIdx ELSE acq.port_sets[Normalize(p)].bitmap_idx
           r   == [action |-> a, ports |-> p, bitmap_idx |-> idx]
           u   == PutRule(acq, k, r)
           old == IdxOf(t, k)
<1>1. Balanced(t, NoIdx)
    BY BalancedNoIdx
<1>2. /\ acq \in Tables /\ acq.rules = t.rules /\ Balanced(acq, idx)
      /\ p # AllPorts => Normalize(p) \in DOMAIN acq.port_sets
  <2>1. CASE p = AllPorts
      BY <2>1, <1>1
  <2>2. CASE p # AllPorts
    <3>1. Normalize(p) \in NormalForms
        BY DEF NormalForms
    <3>2. QED BY <3>1, <2>2, <1>1, AcquireBalanced
  <2>3. QED BY <2>1, <2>2
<1>3. r \in RuleInfo
  <2>1. idx \in Nat \cup {NoIdx}
      BY <1>2, TableFields DEF PortSetInfo
  <2>2. QED BY <2>1 DEF RuleInfo
<1>4. u \in Tables
    BY <1>2, <1>3, PutRuleFields
<1>5. Balanced(u, old)
  <2>1. Balanced(u, IdxOf(acq, k))
      BY <1>2, <1>3, PutBalanced
  <2>2. IdxOf(acq, k) = old
      BY <1>2 DEF IdxOf
  <2>3. QED BY <2>1, <2>2
<1>6. old = NoIdx \/ old \in Nat
    BY TableFields DEF IdxOf, RuleInfo
<1>7. ApplyAddRule(t, k, a, p) = DropOldIdx(u, old, idx)
    BY DEF ApplyAddRule
<1>8. CASE old = NoIdx
    BY <1>4, <1>5, <1>7, <1>8, BalancedNoIdx DEF DropOldIdx
<1>9. CASE old \in Nat /\ old # idx
  <2>1. DropOldIdx(u, old, idx) = ReleasePortSet(u, old)
      BY <1>9 DEF DropOldIdx, NoIdx
  <2>2. QED BY <2>1, <1>4, <1>5, <1>7, <1>9, ReleaseBalanced, BalancedNoIdx
<1>10. CASE old \in Nat /\ old = idx
  <2> DEFINE n == PortSetAt(u, old)
  <2>1. DropOldIdx(u, old, idx) = LowerCount(u, n)
      BY <1>10 DEF DropOldIdx, NoIdx
  <2>2. n \in DOMAIN u.port_sets /\ u.port_sets[n].bitmap_idx = old
      BY <1>4, <1>5, <1>10, PortSetAtDef DEF Balanced, NoIdx
  <2>3. k \in Users(u, old)
    <3>1. u.rules = Insert(acq.rules, k, r)
        BY <1>2, <1>3, PutRuleFields
    <3>2. k \in DOMAIN u.rules /\ u.rules[k] = r
        BY <3>1 DEF Insert
    <3>3. r.bitmap_idx = old
        BY <1>10
    <3>4. QED BY <3>2, <3>3 DEF Users
  <2>4. Cardinality(Users(u, old)) \in Nat \ {0}
      BY <2>3, <1>4, UsersFinite, FS_EmptySet
  <2>5. u.port_sets[n].ref_count = Cardinality(Users(u, old)) + 1
      BY <2>2, <1>5 DEF Balanced, CountersBalanced, InFlight
  <2>6. u.port_sets[n].ref_count # 1
      BY <2>4, <2>5
  <2>7. QED BY <2>1, <2>6, <1>4, <1>5, <1>7, <1>10, LowerBalanced, BalancedNoIdx
<1>11. QED BY <1>6, <1>8, <1>9, <1>10

\* apply_remove_rule keeps a table consistent.
LEMMA RemoveRuleConsistent ==
    ASSUME NEW t \in Tables, Consistent(t), NEW k \in DOMAIN t.rules
    PROVE  ApplyRemoveRule(t, k) \in Tables /\ Consistent(ApplyRemoveRule(t, k))
<1> DEFINE u   == RemoveKey(t, k)
           old == IdxOf(t, k)
<1>1. u \in Tables /\ Balanced(u, old)
    BY BalancedNoIdx, RemoveKeyFields, RemoveKeyBalanced
<1>2. old = NoIdx \/ old \in Nat
    BY TableFields DEF IdxOf, RuleInfo
<1>3. CASE old = NoIdx
    BY <1>1, <1>3, BalancedNoIdx DEF ApplyRemoveRule
<1>4. CASE old \in Nat
  <2>1. ApplyRemoveRule(t, k) = ReleasePortSet(u, old)
      BY <1>4 DEF ApplyRemoveRule, NoIdx
  <2>2. QED BY <2>1, <1>1, <1>4, ReleaseBalanced, BalancedNoIdx
<1>5. QED BY <1>2, <1>3, <1>4

\* Releasing a port set or lowering its counter leaves the rules alone.
LEMMA DropKeepsRules ==
    ASSUME NEW t \in Tables, NEW old, NEW new
    PROVE  DropOldIdx(t, old, new).rules = t.rules
<1>1. \A n, idx : LowerCount(t, n).rules = t.rules /\ FreeSet(t, n, idx).rules = t.rules
    BY DEF LowerCount, FreeSet, Tables
<1>2. ReleasePortSet(t, old).rules = t.rules
    BY <1>1 DEF ReleasePortSet
<1>3. QED BY <1>1, <1>2 DEF DropOldIdx

\* apply_add_rule writes the one rule, and apply_remove_rule removes the one.
LEMMA AddRuleRules ==
    ASSUME NEW t \in Tables, Consistent(t), NEW k \in RuleKeys, NEW a \in Actions,
           NEW p \in PortTexts
    PROVE  LET u == ApplyAddRule(t, k, a, p)
           IN  /\ DOMAIN u.rules = DOMAIN t.rules \cup {k}
               /\ \A l \in DOMAIN t.rules \ {k} : u.rules[l] = t.rules[l]
               /\ u.rules[k].action = a /\ u.rules[k].ports = p
<1> DEFINE acq == IF p = AllPorts THEN t ELSE AcquirePortSet(t, Normalize(p))
           idx == IF p = AllPorts THEN NoIdx ELSE acq.port_sets[Normalize(p)].bitmap_idx
           r   == [action |-> a, ports |-> p, bitmap_idx |-> idx]
           u   == PutRule(acq, k, r)
<1>1. /\ acq \in Tables /\ acq.rules = t.rules
      /\ p # AllPorts => Normalize(p) \in DOMAIN acq.port_sets
  <2>1. CASE p = AllPorts
      BY <2>1
  <2>2. CASE p # AllPorts
    <3>1. Normalize(p) \in NormalForms
        BY DEF NormalForms
    <3>2. QED BY <3>1, <2>2, BalancedNoIdx, AcquireBalanced
  <2>3. QED BY <2>1, <2>2
<1>2. r \in RuleInfo
  <2>1. idx \in Nat \cup {NoIdx}
      BY <1>1, TableFields DEF PortSetInfo
  <2>2. QED BY <2>1 DEF RuleInfo
<1>3. u \in Tables /\ u.rules = Insert(t.rules, k, r)
    BY <1>1, <1>2, PutRuleFields
<1>4. ApplyAddRule(t, k, a, p).rules = Insert(t.rules, k, r)
    BY <1>3, DropKeepsRules DEF ApplyAddRule
<1>5. QED BY <1>4 DEF Insert

\* The same of removing a rule.
LEMMA RemoveRuleRules ==
    ASSUME NEW t \in Tables, NEW k \in DOMAIN t.rules
    PROVE  ApplyRemoveRule(t, k).rules = Restrict(t.rules, DOMAIN t.rules \ {k})
<1> DEFINE u == RemoveKey(t, k)
<1>1. u \in Tables /\ u.rules = Restrict(t.rules, DOMAIN t.rules \ {k})
    BY RemoveKeyFields
<1> HIDE DEF u
<1>2. \A n, idx : LowerCount(u, n).rules = u.rules /\ FreeSet(u, n, idx).rules = u.rules
    BY <1>1 DEF LowerCount, FreeSet, Tables
<1>3. \A idx : ReleasePortSet(u, idx).rules = u.rules
    BY <1>2 DEF ReleasePortSet
<1>4. QED BY <1>1, <1>3 DEF ApplyRemoveRule, u

\* When the stack is empty, there are as many port sets as indices handed out.
LEMMA FullPool ==
    ASSUME NEW t \in Tables, OneSetPerIdx(t), FreeAndLivePartition(t),
           t.free_bitmap_indices = << >>
    PROVE  Cardinality(DOMAIN t.port_sets) = t.next_bitmap_idx
<1> DEFINE S == DOMAIN t.port_sets
           T == 0 .. t.next_bitmap_idx - 1
           f == [n \in S |-> t.port_sets[n].bitmap_idx]
<1>1. t.next_bitmap_idx \in Nat
    BY TableFields
<1>2. LiveIndices(t) = T
  <2>1. FreeIndices(t) = {}
      BY DEF FreeIndices
  <2>2. QED BY <2>1 DEF FreeAndLivePartition
<1>3. f \in Injection(S, T)
    BY <1>2 DEF LiveIndices, OneSetPerIdx, Injection, IsInjective
<1>4. f \in Surjection(S, T)
    BY <1>2, <1>3 DEF LiveIndices, Surjection, Injection
<1>5. IsFiniteSet(T) /\ Cardinality(T) = t.next_bitmap_idx
  <2>1. \A n \in Nat : n - 1 \in Int /\ IsFiniteSet(0 .. n - 1) /\ Cardinality(0 .. n - 1) = n
      BY FS_Interval
  <2>2. QED BY <1>1, <2>1
<1>6. Cardinality(S) = Cardinality(T)
    BY <1>3, <1>4, <1>5, FS_Injection
<1>7. QED BY <1>5, <1>6

(***************************************************************************)
(* The machine.                                                            *)
(***************************************************************************)
\* Being a table, in the terms of TypeOK.
LEMMA TablesDef ==
    ASSUME NEW t
    PROVE  t \in Tables
             <=> /\ t \in [rules : {t.rules}, port_sets : {t.port_sets},
                           free_bitmap_indices : Seq(Nat), next_bitmap_idx : Nat]
                 /\ IsMap(t.rules, RuleKeys, RuleInfo)
                 /\ IsMap(t.port_sets, NormalForms, PortSetInfo)
<1>1. IsMap(t.rules, RuleKeys, RuleInfo) <=> t.rules \in PartialMaps(RuleKeys, RuleInfo)
    BY PartialMapDef DEF IsMap
<1>2. IsMap(t.port_sets, NormalForms, PortSetInfo)
          <=> t.port_sets \in PartialMaps(NormalForms, PortSetInfo)
    BY PartialMapDef DEF IsMap
<1>3. QED BY <1>1, <1>2 DEF Tables

\* The invariant, in the terms of the lemmas on tables.
LEMMA IInvDef == IInv <=> /\ table \in Tables
                          /\ Consistent(table)
                          /\ max_port_policies \in Limits
BY TablesDef DEF IInv, TypeOK, Consistent, RefCountsExact, IndicesDistinct,
                 IndicesPartitioned, RulesResolve

\* The same of the next state.
LEMMA IInvDefPrimed == IInv' <=> /\ table' \in Tables
                                 /\ Consistent(table')
                                 /\ max_port_policies' \in Limits
BY TablesDef DEF IInv, TypeOK, Consistent, RefCountsExact, IndicesDistinct,
                 IndicesPartitioned, RulesResolve

\* The empty table is consistent.
LEMMA EmptyTableConsistent == EmptyTable \in Tables /\ Consistent(EmptyTable)
<1>1. EmptyTable \in Tables
  <2>1. << >> \in PartialMaps(RuleKeys, RuleInfo) /\ << >> \in PartialMaps(NormalForms, PortSetInfo)
    <3>1. DOMAIN << >> = {}
        OBVIOUS
    <3>2. \A S, T : << >> \in [{} -> T] /\ {} \in SUBSET S
        OBVIOUS
    <3>3. QED BY <3>2 DEF PartialMaps
  <2>2. << >> \in Seq(Nat) /\ 0 \in Nat
      OBVIOUS
  <2>3. QED BY <2>1, <2>2 DEF EmptyTable, Tables
<1>2. Consistent(EmptyTable)
  <2>1. FreeIndices(EmptyTable) = {} /\ LiveIndices(EmptyTable) = {}
      BY DEF EmptyTable, FreeIndices, LiveIndices
  <2>2. FreeAndLivePartition(EmptyTable)
      BY <2>1 DEF EmptyTable, FreeAndLivePartition
  <2>3. QED BY <2>2 DEF EmptyTable, Consistent, CountersMatchUsers, OneSetPerIdx, RulesFindTheirSet
<1>3. QED BY <1>1, <1>2

\* It satisfies the invariant.
LEMMA InitConsistent == Init => IInv
BY EmptyTableConsistent, IInvDef DEF Init

\* Every step keeps the invariant.
LEMMA StepConsistent == IInv /\ [Next]_vars => IInv'
<1> SUFFICES ASSUME IInv, [Next]_vars PROVE IInv'
    OBVIOUS
<1>1. table \in Tables /\ Consistent(table) /\ max_port_policies \in Limits
    BY IInvDef
<1>2. SUFFICES table' \in Tables /\ Consistent(table') /\ max_port_policies' \in Limits
    BY IInvDefPrimed
<1>3. ASSUME NEW k \in RuleKeys, NEW a \in Actions, NEW p \in PortTexts, AddRule(k, a, p)
      PROVE  table' \in Tables /\ Consistent(table') /\ max_port_policies' \in Limits
    BY <1>1, <1>3, AddRuleConsistent DEF AddRule, AddRuleAccepts
<1>4. ASSUME NEW k \in RuleKeys, RemoveRule(k)
      PROVE  table' \in Tables /\ Consistent(table') /\ max_port_policies' \in Limits
    BY <1>1, <1>4, RemoveRuleConsistent DEF RemoveRule
<1>5. ASSUME NEW m \in Limits, SetMaxPortPolicies(m)
      PROVE  table' \in Tables /\ Consistent(table') /\ max_port_policies' \in Limits
    BY <1>1, <1>5 DEF SetMaxPortPolicies
<1>6. CASE UNCHANGED vars
    BY <1>1, <1>6 DEF vars
<1>7. QED BY <1>3, <1>4, <1>5, <1>6 DEF Next

\* The inductive invariant holds in every reachable state of the rule table:
\* the field types, and the four parts of consistency, which only together
\* survive a step of core/src/state.rs.
THEOREM TableConsistent == Spec => []IInv
<1>1. QED BY InitConsistent, StepConsistent, PTL DEF Spec

\* Type correctness of the fields of FirewallState.
THEOREM TypeCorrect == Spec => []TypeOK
<1>1. IInv => TypeOK
    BY DEF IInv
<1>2. QED BY <1>1, TableConsistent, PTL

\* A port set counts exactly the rules that use it.
THEOREM CountersExact == Spec => []RefCountsExact
<1>1. IInv => RefCountsExact
    BY DEF IInv
<1>2. QED BY <1>1, TableConsistent, PTL

\* Indices are never shared by two port sets.
THEOREM NoSharedIndex == Spec => []IndicesDistinct
<1>1. IInv => IndicesDistinct
    BY DEF IInv
<1>2. QED BY <1>1, TableConsistent, PTL

\* No index is lost or both free and in use.
THEOREM NoIndexLost == Spec => []IndicesPartitioned
<1>1. IInv => IndicesPartitioned
    BY DEF IInv
<1>2. QED BY <1>1, TableConsistent, PTL

\* A rule points at the index of its own normal form.
THEOREM RulesPointHome == Spec => []RulesResolve
<1>1. IInv => RulesResolve
    BY DEF IInv
<1>2. QED BY <1>1, TableConsistent, PTL

\* A step on one rule never moves another rule to a different port set.
THEOREM OtherRulesKeepTheirSet == Spec => OtherRulesUnmoved
<1>1. IInv /\ IInv' => OtherRulesStay
  <2> SUFFICES ASSUME IInv, IInv',
                      NEW k \in DOMAIN table.rules \cap DOMAIN table'.rules,
                      NEW n \in DOMAIN table.port_sets,
                      table.rules[k] = table'.rules[k],
                      table.port_sets[n].bitmap_idx = table.rules[k].bitmap_idx
               PROVE  /\ n \in DOMAIN table'.port_sets
                      /\ table'.port_sets[n].bitmap_idx = table.rules[k].bitmap_idx
      BY DEF OtherRulesStay
  <2>1. table \in Tables /\ OneSetPerIdx(table) /\ RulesFindTheirSet(table)
      BY IInvDef DEF Consistent
  <2>2. RulesFindTheirSet(table')
      BY IInvDefPrimed DEF Consistent
  <2>3. table.rules[k].bitmap_idx # NoIdx
      BY <2>1, TableFields DEF PortSetInfo, NoIdx
  <2>4. n = Normalize(table.rules[k].ports)
      BY <2>1, <2>3 DEF RulesFindTheirSet, OneSetPerIdx
  <2>5. QED BY <2>2, <2>3, <2>4 DEF RulesFindTheirSet
<1>2. QED BY <1>1, TableConsistent, PTL DEF OtherRulesUnmoved

\* A request is refused for lack of an index only when as many port sets exist
\* as the limit admits: no index leaks.
THEOREM RefusedOnlyWhenFull == Spec => []LimitMeansFull
<1>1. IInv => LimitMeansFull
  <2> SUFFICES ASSUME IInv, NEW p \in PortTexts \ {AllPorts},
                      LimitReached(table, max_port_policies, Normalize(p))
               PROVE  Cardinality(DOMAIN table.port_sets) >= max_port_policies
      BY DEF LimitMeansFull
  <2>1. table \in Tables /\ OneSetPerIdx(table) /\ FreeAndLivePartition(table)
      BY IInvDef DEF Consistent
  <2>2. Cardinality(DOMAIN table.port_sets) = table.next_bitmap_idx
      BY <2>1, FullPool DEF LimitReached
  <2>3. QED BY <2>2 DEF LimitReached
<1>2. QED BY <1>1, TableConsistent, PTL

(***************************************************************************)
(* Port sets keep their index for as long as they live.                    *)
(***************************************************************************)
\* The port sets of u are among those of t, with the indices they have there.
NoNewSets(t, u) == \A n \in DOMAIN u.port_sets :
                       /\ n \in DOMAIN t.port_sets
                       /\ u.port_sets[n].bitmap_idx = t.port_sets[n].bitmap_idx

\* Lowering a counter or freeing a set adds no set and moves none.
LEMMA LessSets ==
    ASSUME NEW t \in Tables, NEW n, NEW idx
    PROVE  NoNewSets(t, LowerCount(t, n)) /\ NoNewSets(t, FreeSet(t, n, idx))
<1>1. /\ \A m \in DOMAIN t.port_sets : t.port_sets[m] \in PortSetInfo
      /\ t.port_sets \in [DOMAIN t.port_sets -> PortSetInfo]
    BY TableFields, PartialMapDef
<1>2. NoNewSets(t, LowerCount(t, n))
  <2> DEFINE u == [t.port_sets EXCEPT ![n] = [t.port_sets[n] EXCEPT !.ref_count = @ - 1]]
  <2>1. LowerCount(t, n).port_sets = u
      BY DEF LowerCount, Tables
  <2>2. \A m \in DOMAIN u : m \in DOMAIN t.port_sets /\ u[m].bitmap_idx = t.port_sets[m].bitmap_idx
      BY <1>1 DEF PortSetInfo
  <2>3. QED BY <2>1, <2>2 DEF NoNewSets
<1>3. NoNewSets(t, FreeSet(t, n, idx))
  <2>1. FreeSet(t, n, idx).port_sets = [m \in DOMAIN t.port_sets \ {n} |-> t.port_sets[m]]
      BY DEF FreeSet, Tables, Restrict
  <2>2. QED BY <2>1 DEF NoNewSets
<1>4. QED BY <1>2, <1>3

\* Neither does giving back the reference of the old index of a rule.
LEMMA DropLessSets ==
    ASSUME NEW t \in Tables, NEW old, NEW new
    PROVE  NoNewSets(t, ReleasePortSet(t, old)) /\ NoNewSets(t, DropOldIdx(t, old, new))
<1>1. NoNewSets(t, t)
    BY DEF NoNewSets
<1>2. QED BY <1>1, LessSets DEF ReleasePortSet, DropOldIdx

\* A request within the limit gets a recycled index or one below the limit.
LEMMA AcquireWithinLimit ==
    ASSUME NEW t \in Tables, NEW n \in NormalForms, NEW max \in Nat, ~LimitReached(t, max, n),
           NEW m \in DOMAIN AcquirePortSet(t, n).port_sets, m \notin DOMAIN t.port_sets
    PROVE  \/ AcquirePortSet(t, n).port_sets[m].bitmap_idx < max
           \/ AcquirePortSet(t, n).port_sets[m].bitmap_idx \in FreeIndices(t)
<1>1. n \notin DOMAIN t.port_sets
  <2>1. n \in DOMAIN t.port_sets => AcquirePortSet(t, n) = ReuseIdx(t, n)
      BY DEF AcquirePortSet
  <2>2. n \in DOMAIN t.port_sets => DOMAIN ReuseIdx(t, n).port_sets = DOMAIN t.port_sets
      BY DEF ReuseIdx, Tables
  <2>3. QED BY <2>1, <2>2
<1>2. CASE t.free_bitmap_indices # << >>
  <2> DEFINE free == t.free_bitmap_indices
             set  == [bitmap_idx |-> free[Len(free)], ref_count |-> 1]
  <2>1. AcquirePortSet(t, n).port_sets = Insert(t.port_sets, n, set)
      BY <1>1, <1>2, PopIdxFields DEF AcquirePortSet
  <2>2. AcquirePortSet(t, n).port_sets[m] = set
      BY <2>1 DEF Insert
  <2>3. free[Len(free)] \in FreeIndices(t)
    <3>1. free \in Seq(Nat)
        BY TableFields
    <3>2. Len(free) \in DOMAIN free
        BY <3>1, <1>2
    <3>3. QED BY <3>2 DEF FreeIndices
  <2>4. QED BY <2>2, <2>3
<1>3. CASE t.free_bitmap_indices = << >>
  <2> DEFINE set == [bitmap_idx |-> t.next_bitmap_idx, ref_count |-> 1]
  <2>1. AcquirePortSet(t, n).port_sets = Insert(t.port_sets, n, set)
      BY <1>1, <1>3, FreshIdxFields DEF AcquirePortSet
  <2>2. AcquirePortSet(t, n).port_sets[m] = set
      BY <2>1 DEF Insert
  <2>3. t.next_bitmap_idx < max
      BY <1>1, <1>3, TableFields DEF LimitReached
  <2>4. QED BY <2>2, <2>3
<1>4. QED BY <1>2, <1>3

\* Nor does the rest of apply_add_rule change where the index came from.
LEMMA AddWithinLimit ==
    ASSUME NEW t \in Tables, Consistent(t), NEW k \in RuleKeys, NEW a \in Actions,
           NEW p \in PortTexts, NEW max \in Nat, AddRuleAccepts(t, max, p),
           NEW m \in DOMAIN ApplyAddRule(t, k, a, p).port_sets, m \notin DOMAIN t.port_sets
    PROVE  \/ ApplyAddRule(t, k, a, p).port_sets[m].bitmap_idx < max
           \/ ApplyAddRule(t, k, a, p).port_sets[m].bitmap_idx \in FreeIndices(t)
<1> DEFINE n   == Normalize(p)
           acq == IF p = AllPorts THEN t ELSE AcquirePortSet(t, n)
           idx == IF p = AllPorts THEN NoIdx ELSE acq.port_sets[n].bitmap_idx
           r   == [action |-> a, ports |-> p, bitmap_idx |-> idx]
           u   == PutRule(acq, k, r)
           old == IdxOf(t, k)
<1>1. n \in NormalForms
    BY DEF NormalForms
<1>2. /\ acq \in Tables
      /\ p # AllPorts => n \in DOMAIN acq.port_sets
    BY <1>1, AcquireBalanced, BalancedNoIdx
<1>3. r \in RuleInfo
  <2>1. idx \in Nat \cup {NoIdx}
      BY <1>2, TableFields DEF PortSetInfo
  <2>2. QED BY <2>1 DEF RuleInfo
<1>4. u \in Tables /\ u.port_sets = acq.port_sets
    BY <1>2, <1>3, PutRuleFields
<1>5. NoNewSets(u, ApplyAddRule(t, k, a, p))
    BY <1>4, DropLessSets DEF ApplyAddRule
<1>6. /\ m \in DOMAIN acq.port_sets
      /\ ApplyAddRule(t, k, a, p).port_sets[m].bitmap_idx = acq.port_sets[m].bitmap_idx
    BY <1>4, <1>5 DEF NoNewSets
<1>7. p # AllPorts /\ acq = AcquirePortSet(t, n)
    BY <1>6
<1>8. ~LimitReached(t, max, n)
    BY <1>7 DEF AddRuleAccepts
<1>9. QED BY <1>1, <1>6, <1>7, <1>8, AcquireWithinLimit

\* A port set that is new after acquiring n is that of n, under an index no
\* set had.
LEMMA AcquireSets ==
    ASSUME NEW t \in Tables, FreeAndLivePartition(t), NEW n \in NormalForms,
           NEW m \in DOMAIN AcquirePortSet(t, n).port_sets
    PROVE  LET i == AcquirePortSet(t, n).port_sets[m].bitmap_idx
           IN  IF m \in DOMAIN t.port_sets THEN i = t.port_sets[m].bitmap_idx
               ELSE m = n /\ i \notin LiveIndices(t)
<1> DEFINE u == AcquirePortSet(t, n)
           free == t.free_bitmap_indices
<1>1. /\ \A l \in DOMAIN t.port_sets : t.port_sets[l] \in PortSetInfo
      /\ t.port_sets \in [DOMAIN t.port_sets -> PortSetInfo]
      /\ free \in Seq(Nat) /\ t.next_bitmap_idx \in Nat
    BY TableFields, PartialMapDef
<1>2. CASE n \in DOMAIN t.port_sets
  <2> DEFINE s == [t.port_sets EXCEPT ![n] = [bitmap_idx |-> @.bitmap_idx,
                                              ref_count |-> @.ref_count + 1]]
  <2>1. u.port_sets = s
      BY <1>2, ReuseIdxFields DEF AcquirePortSet
  <2>2. DOMAIN s = DOMAIN t.port_sets
        /\ \A l \in DOMAIN t.port_sets : s[l].bitmap_idx = t.port_sets[l].bitmap_idx
      BY <1>1 DEF PortSetInfo
  <2>3. QED BY <2>1, <2>2
<1>3. ASSUME NEW idx, n \notin DOMAIN t.port_sets, idx \notin LiveIndices(t),
             u.port_sets = Insert(t.port_sets, n, [bitmap_idx |-> idx, ref_count |-> 1])
      PROVE  IF m \in DOMAIN t.port_sets
             THEN u.port_sets[m].bitmap_idx = t.port_sets[m].bitmap_idx
             ELSE m = n /\ u.port_sets[m].bitmap_idx \notin LiveIndices(t)
    BY <1>3 DEF Insert
<1>4. CASE n \notin DOMAIN t.port_sets /\ free # << >>
  <2>1. u.port_sets = Insert(t.port_sets, n, [bitmap_idx |-> free[Len(free)], ref_count |-> 1])
      BY <1>4, PopIdxFields DEF AcquirePortSet
  <2>2. Len(free) \in DOMAIN free
      BY <1>1, <1>4
  <2>3. free[Len(free)] \notin LiveIndices(t)
      BY <2>2 DEF FreeAndLivePartition, FreeIndices
  <2>4. QED BY <1>3, <1>4, <2>1, <2>3
<1>5. CASE n \notin DOMAIN t.port_sets /\ free = << >>
  <2>1. u.port_sets = Insert(t.port_sets, n,
                             [bitmap_idx |-> t.next_bitmap_idx, ref_count |-> 1])
      BY <1>5, FreshIdxFields DEF AcquirePortSet
  <2>2. t.next_bitmap_idx \notin LiveIndices(t)
    <3>1. LiveIndices(t) \subseteq 0 .. t.next_bitmap_idx - 1
        BY DEF FreeAndLivePartition
    <3>2. t.next_bitmap_idx \notin 0 .. t.next_bitmap_idx - 1
        BY <1>1
    <3>3. QED BY <3>1, <3>2
  <2>3. QED BY <1>3, <1>5, <2>1, <2>2
<1>6. QED BY <1>2, <1>4, <1>5

\* apply_add_rule makes at most the port set of its rule, under an index no
\* set had, and leaves the others their indices.
LEMMA AddRuleSets ==
    ASSUME NEW t \in Tables, Consistent(t), NEW k \in RuleKeys, NEW a \in Actions,
           NEW p \in PortTexts,
           NEW m \in DOMAIN ApplyAddRule(t, k, a, p).port_sets
    PROVE  LET i == ApplyAddRule(t, k, a, p).port_sets[m].bitmap_idx
           IN  IF m \in DOMAIN t.port_sets THEN i = t.port_sets[m].bitmap_idx
               ELSE m = Normalize(p) /\ p # AllPorts /\ i \notin LiveIndices(t)
<1> DEFINE n   == Normalize(p)
           acq == IF p = AllPorts THEN t ELSE AcquirePortSet(t, n)
           idx == IF p = AllPorts THEN NoIdx ELSE acq.port_sets[n].bitmap_idx
           r   == [action |-> a, ports |-> p, bitmap_idx |-> idx]
           u   == PutRule(acq, k, r)
           old == IdxOf(t, k)
<1>1. n \in NormalForms
    BY DEF NormalForms
<1>2. /\ acq \in Tables
      /\ p # AllPorts => n \in DOMAIN acq.port_sets
    BY <1>1, AcquireBalanced, BalancedNoIdx
<1>3. r \in RuleInfo
  <2>1. idx \in Nat \cup {NoIdx}
      BY <1>2, TableFields DEF PortSetInfo
  <2>2. QED BY <2>1 DEF RuleInfo
<1>4. u \in Tables /\ u.port_sets = acq.port_sets
    BY <1>2, <1>3, PutRuleFields
<1>5. NoNewSets(u, ApplyAddRule(t, k, a, p))
    BY <1>4, DropLessSets DEF ApplyAddRule
<1>6. /\ m \in DOMAIN acq.port_sets
      /\ ApplyAddRule(t, k, a, p).port_sets[m].bitmap_idx = acq.port_sets[m].bitmap_idx
    BY <1>4, <1>5 DEF NoNewSets
<1> HIDE DEF n, u
<1>7. CASE p = AllPorts
    BY <1>6, <1>7
<1>8. CASE p # AllPorts
    BY <1>1, <1>6, <1>8, AcquireSets DEF n, Consistent
<1>9. QED BY <1>7, <1>8

\* apply_remove_rule makes no port set and moves none.
LEMMA RemoveRuleSets ==
    ASSUME NEW t \in Tables, NEW k \in DOMAIN t.rules
    PROVE  NoNewSets(t, ApplyRemoveRule(t, k))
<1> DEFINE u == RemoveKey(t, k)
<1>1. u \in Tables /\ u.port_sets = t.port_sets
    BY RemoveKeyFields
<1> HIDE DEF u
<1>2. NoNewSets(u, u)
    BY DEF NoNewSets
<1>3. NoNewSets(u, ApplyRemoveRule(t, k))
    BY <1>1, <1>2, DropLessSets DEF ApplyRemoveRule, u
<1>4. QED BY <1>1, <1>3 DEF NoNewSets

\* No request is given an index at or beyond the limit in force, unless one
\* that was given out before under a higher limit is recycled.
THEOREM LimitObeyed == Spec => NoIndexBeyondLimit
<1>1. IInv /\ [Next]_vars => [NewSetsWithinLimit]_vars
  <2> SUFFICES ASSUME IInv, Next,
                      NEW m \in DOMAIN table'.port_sets, m \notin DOMAIN table.port_sets
               PROVE  \/ table'.port_sets[m].bitmap_idx < max_port_policies
                      \/ table'.port_sets[m].bitmap_idx \in FreeIndices(table)
      BY DEF NewSetsWithinLimit
  <2>1. table \in Tables /\ Consistent(table) /\ max_port_policies \in Nat
      BY IInvDef, LimitsAssumption
  <2>2. ASSUME NEW k \in RuleKeys, NEW a \in Actions, NEW p \in PortTexts, AddRule(k, a, p)
        PROVE  \/ table'.port_sets[m].bitmap_idx < max_port_policies
               \/ table'.port_sets[m].bitmap_idx \in FreeIndices(table)
      BY <2>1, <2>2, AddWithinLimit DEF AddRule
  <2>3. ASSUME NEW k \in RuleKeys, RemoveRule(k)
        PROVE  FALSE
      BY <2>1, <2>3, RemoveRuleSets DEF RemoveRule, NoNewSets
  <2>4. ASSUME NEW l \in Limits, SetMaxPortPolicies(l)
        PROVE  FALSE
      BY <2>4 DEF SetMaxPortPolicies
  <2>5. QED BY <2>2, <2>3, <2>4 DEF Next
<1>2. QED BY <1>1, TableConsistent, PTL DEF Spec, NoIndexBeyondLimit

(***************************************************************************)
(* Recursion over a text.                                                  *)
(***************************************************************************)
\* A set of naturals that is not empty has a least element.
LEMMA LeastNat ==
    ASSUME NEW T \in SUBSET Nat, T # {}
    PROVE  \E n \in T : \A m \in T : n <= m
<1>1. PICK n \in T : \A m \in T : ~(<< m, n >> \in OpToRel(<, Nat))
    BY NatLessThanWellFounded, WFMin, Zenon
<1>2. \A m \in T : ~(m < n)
    BY <1>1 DEF OpToRel
<1>3. QED BY <1>2

\* Induction up to n, for the set T of the numbers a property holds of.
LEMMA Induction ==
    ASSUME NEW n \in Nat, NEW T, 0 \in T, \A i \in 1 .. n : i - 1 \in T => i \in T
    PROVE  \A i \in 0 .. n : i \in T
<1> DEFINE Left == {i \in 0 .. n : i \notin T}
<1>1. SUFFICES ASSUME Left # {} PROVE FALSE
    OBVIOUS
<1>2. PICK i \in Left : \A j \in Left : i <= j
  <2>1. Left \in SUBSET Nat
      OBVIOUS
  <2> HIDE DEF Left
  <2>2. QED BY <1>1, <2>1, LeastNat
<1>3. i \in 1 .. n /\ i - 1 \in 0 .. n
  <2>1. i \in 0 .. n /\ i # 0
      OBVIOUS
  <2>2. QED BY <2>1
<1>4. i - 1 \notin Left
    BY <1>2, <1>3
<1>5. QED BY <1>3, <1>4

\* f is what G makes of a, one step after the other.
Iterates(f, n, S, a, G) ==
    f \in [0 .. n -> S] /\ f[0] = a /\ \A i \in 1 .. n : f[i] = G[i][f[i - 1]]

\* A function on 0 .. n may be defined by recursion from a, with steps in S.
LEMMA Recursion ==
    ASSUME NEW n \in Nat, NEW S, NEW a \in S, NEW G \in [1 .. n -> [S -> S]]
    PROVE  \E f : Iterates(f, n, S, a, G)
<1> DEFINE Upto(m, f) == f[0] = a /\ \A i \in 1 .. m : f[i] = G[i][f[i - 1]]
           T == {m \in 0 .. n : \E f \in [0 .. n -> S] : Upto(m, f)}
<1>1. 0 \in T
  <2>1. Upto(0, [i \in 0 .. n |-> a])
      OBVIOUS
  <2>2. [i \in 0 .. n |-> a] \in [0 .. n -> S] /\ 0 \in 0 .. n
      OBVIOUS
  <2> HIDE DEF Upto
  <2>3. QED BY <2>1, <2>2
<1>2. ASSUME NEW m \in 1 .. n, m - 1 \in T
      PROVE  m \in T
  <2>1. PICK f \in [0 .. n -> S] : Upto(m - 1, f)
      BY <1>2
  <2> DEFINE g == [f EXCEPT ![m] = G[m][f[m - 1]]]
  <2>2. g \in [0 .. n -> S]
      OBVIOUS
  <2>3. Upto(m, g)
      BY <2>1
  <2> HIDE DEF Upto, g
  <2>4. QED BY <2>2, <2>3
<1> HIDE DEF T
<1>3. \A m \in 0 .. n : m \in T
    BY <1>1, <1>2, Induction
<1>4. n \in T
    BY <1>3
<1>5. QED BY <1>4 DEF T, Iterates

(***************************************************************************)
(* Normal forms: Normalize sorts the entries of a text.                    *)
(***************************************************************************)
Entry == Nat \X Nat \X {1, 2}

Sorted(s) == \A i, j \in DOMAIN s : i < j => ~EntryBefore(s[j], s[i])

\* Where InsertSorted puts an entry.
Place(s, entry) == Cardinality({i \in DOMAIN s : ~EntryBefore(entry, s[i])})

\* An entry goes to a place in the sequence, or to its end.
LEMMA PlaceType ==
    ASSUME NEW s \in Seq(Entry), NEW entry
    PROVE  Place(s, entry) \in 0 .. Len(s)
<1> DEFINE J == {i \in DOMAIN s : ~EntryBefore(entry, s[i])}
<1>1. Len(s) \in Nat /\ DOMAIN s = 1 .. Len(s)
    OBVIOUS
<1>2. IsFiniteSet(1 .. Len(s)) /\ Cardinality(1 .. Len(s)) = Len(s)
    BY <1>1, FS_Interval
<1>3. J \in SUBSET (1 .. Len(s))
    BY <1>1
<1> HIDE DEF J
<1>4. IsFiniteSet(J) /\ Cardinality(J) <= Len(s)
    BY <1>2, <1>3, FS_Subset
<1>5. Cardinality(J) \in Nat
    BY <1>4, FS_CardinalityType
<1>6. QED BY <1>1, <1>4, <1>5 DEF Place, J

\* The entry goes there, and those behind it move up.
LEMMA InsertSortedPlaces ==
    ASSUME NEW s \in Seq(Entry), NEW entry \in Entry
    PROVE  LET c == Place(s, entry)
               t == InsertSorted(s, entry)
           IN  /\ t \in Seq(Entry)
               /\ Len(t) = Len(s) + 1
               /\ t[c + 1] = entry
               /\ \A i \in 1 .. c : t[i] = s[i]
               /\ \A i \in c + 2 .. Len(s) + 1 : t[i] = s[i - 1]
<1> DEFINE c == Place(s, entry)
           t == InsertSorted(s, entry)
           front == SubSeq(s, 1, c)
           back  == SubSeq(s, c + 1, Len(s))
<1>1. c \in 0 .. Len(s) /\ Len(s) \in Nat /\ \A i \in 1 .. Len(s) : s[i] \in Entry
    BY PlaceType
<1>2. t = front \o << entry >> \o back
    BY DEF InsertSorted, Place
<1> HIDE DEF c, t
<1>3. front \in Seq(Entry) /\ Len(front) = c /\ \A i \in 1 .. c : front[i] = s[i]
    BY <1>1, SubSeqProperties
<1>4. /\ back \in Seq(Entry) /\ Len(back) = Len(s) - c
      /\ \A i \in 1 .. Len(s) - c : back[i] = s[c + i]
    BY <1>1, SubSeqProperties
<1> HIDE DEF front, back
<1> DEFINE head == front \o << entry >>
<1>5. /\ head \in Seq(Entry) /\ Len(head) = c + 1 /\ head[c + 1] = entry
      /\ \A i \in 1 .. c : head[i] = front[i]
    BY <1>1, <1>3
<1> HIDE DEF head
<1>6. /\ head \o back \in Seq(Entry)
      /\ Len(head \o back) = Len(s) + 1
      /\ \A i \in 1 .. Len(s) + 1 :
             (head \o back)[i] = IF i <= c + 1 THEN head[i] ELSE back[i - (c + 1)]
    BY <1>1, <1>4, <1>5, ConcatProperties
<1>7. t = head \o back
    BY <1>2 DEF head
<1>11. \A i \in 1 .. Len(s) + 1 :
          t[i] = IF i <= c + 1 THEN head[i] ELSE back[i - (c + 1)]
    BY <1>6, <1>7
<1>8. \A i \in c + 2 .. Len(s) + 1 : t[i] = s[i - 1]
  <2>1. TAKE i \in c + 2 .. Len(s) + 1
  <2>2. i \in 1 .. Len(s) + 1 /\ ~(i <= c + 1)
      BY <1>1
  <2>3. t[i] = back[i - (c + 1)]
      BY <1>11, <2>2
  <2>4. i - (c + 1) \in 1 .. Len(s) - c /\ c + (i - (c + 1)) = i - 1
      BY <1>1
  <2>5. back[i - (c + 1)] = s[i - 1]
      BY <1>4, <2>4
  <2>6. QED BY <2>3, <2>5
<1>9. t[c + 1] = entry /\ \A i \in 1 .. c : t[i] = s[i]
    BY <1>1, <1>3, <1>5, <1>6, <1>7
<1>10. QED BY <1>6, <1>7, <1>8, <1>9 DEF c, t

\* Entries are totally ordered.
LEMMA EntryOrder ==
    ASSUME NEW a \in Entry, NEW b \in Entry, NEW c \in Entry
    PROVE  /\ ~EntryBefore(a, b) \/ ~EntryBefore(b, a)
           /\ ~EntryBefore(b, a) /\ ~EntryBefore(c, b) => ~EntryBefore(c, a)
           /\ ~EntryBefore(a, b) /\ ~EntryBefore(b, a) => a = b
<1>1. \A e \in Entry : e[1] \in Nat /\ e[2] \in Nat /\ e[3] \in Nat /\ e = << e[1], e[2], e[3] >>
    BY DEF Entry
<1>2. /\ a[1] \in Nat /\ a[2] \in Nat /\ a[3] \in Nat
      /\ b[1] \in Nat /\ b[2] \in Nat /\ b[3] \in Nat
      /\ c[1] \in Nat /\ c[2] \in Nat /\ c[3] \in Nat
    BY <1>1
<1>3. ~EntryBefore(a, b) \/ ~EntryBefore(b, a)
    BY <1>2 DEF EntryBefore
<1>4. ~EntryBefore(b, a) /\ ~EntryBefore(c, b) => ~EntryBefore(c, a)
    BY <1>2 DEF EntryBefore
<1>5. ~EntryBefore(a, b) /\ ~EntryBefore(b, a) => a[1] = b[1] /\ a[2] = b[2] /\ a[3] = b[3]
    BY <1>2 DEF EntryBefore
<1>6. QED BY <1>1, <1>3, <1>4, <1>5

\* In a sorted sequence those that do not come after an entry are in front.
LEMMA SortedPlace ==
    ASSUME NEW s \in Seq(Entry), NEW entry \in Entry, Sorted(s)
    PROVE  \A i \in 1 .. Len(s) : i <= Place(s, entry) <=> ~EntryBefore(entry, s[i])
<1> DEFINE N == Len(s)
           J == {i \in DOMAIN s : ~EntryBefore(entry, s[i])}
           T == {m \in 0 .. N : \E c \in 0 .. m : J \cap (1 .. m) = 1 .. c}
<1>1. N \in Nat /\ DOMAIN s = 1 .. N /\ \A i \in 1 .. N : s[i] \in Entry
    OBVIOUS
<1>2. \A i, j \in 1 .. N : i < j /\ j \in J => i \in J
    BY <1>1, EntryOrder DEF Sorted
<1>3. 0 \in T
    BY <1>1
<1>4. ASSUME NEW m \in 1 .. N, m - 1 \in T
      PROVE  m \in T
  <2>1. PICK c \in 0 .. m - 1 : J \cap (1 .. m - 1) = 1 .. c
      BY <1>4
  <2>2. CASE m \in J
    <3>1. J \cap (1 .. m) = 1 .. m
        BY <1>1, <1>2, <2>2
    <3>2. QED BY <3>1
  <2>3. CASE m \notin J
    <3>1. J \cap (1 .. m) = J \cap (1 .. m - 1)
        BY <2>3
    <3>2. QED BY <2>1, <3>1
  <2>4. QED BY <2>2, <2>3
<1> HIDE DEF T
<1>5. \A m \in 0 .. N : m \in T
    BY <1>1, <1>3, <1>4, Induction
<1>6. PICK c \in 0 .. N : J \cap (1 .. N) = 1 .. c
    BY <1>1, <1>5 DEF T
<1>7. J = 1 .. c
    BY <1>1, <1>6
<1>8. Cardinality(1 .. c) = c
    BY <1>1, FS_Interval
<1>9. Place(s, entry) = c
    BY <1>7, <1>8 DEF Place
<1>10. QED BY <1>1, <1>6, <1>7, <1>9

\* Hence a sorted sequence stays sorted.
LEMMA InsertSortedSorts ==
    ASSUME NEW s \in Seq(Entry), NEW entry \in Entry, Sorted(s)
    PROVE  Sorted(InsertSorted(s, entry))
<1> DEFINE c == Place(s, entry)
           t == InsertSorted(s, entry)
           N == Len(s)
<1>1. /\ t \in Seq(Entry) /\ DOMAIN t = 1 .. N + 1
      /\ t[c + 1] = entry
      /\ \A i \in 1 .. c : t[i] = s[i]
      /\ \A i \in c + 2 .. N + 1 : t[i] = s[i - 1]
  <2>1. t \in Seq(Entry) /\ Len(t) = N + 1
      BY InsertSortedPlaces
  <2>2. /\ t[c + 1] = entry
        /\ \A i \in 1 .. c : t[i] = s[i]
        /\ \A i \in c + 2 .. N + 1 : t[i] = s[i - 1]
      BY InsertSortedPlaces
  <2> HIDE DEF t
  <2>3. QED BY <2>1, <2>2
<1>2. /\ N \in Nat /\ c \in 0 .. N /\ \A i \in 1 .. N : s[i] \in Entry
    BY PlaceType
<1>3. \A i \in 1 .. N : i <= c <=> ~EntryBefore(entry, s[i])
    BY SortedPlace
<1>4. \A i, j \in 1 .. N : i < j => ~EntryBefore(s[j], s[i])
    BY <1>2 DEF Sorted
<1> HIDE DEF c, t, N
<1>5. ASSUME NEW i \in 1 .. N + 1, NEW j \in 1 .. N + 1, i < j
      PROVE  ~EntryBefore(t[j], t[i])
  <2>1. CASE j <= c
      BY <1>1, <1>2, <1>4, <1>5, <2>1
  <2>2. CASE j = c + 1
      BY <1>1, <1>2, <1>3, <1>5, <2>2
  <2>3. CASE c + 1 < j
    <3>1. j - 1 \in 1 .. N /\ t[j] = s[j - 1] /\ ~(j - 1 <= c)
        BY <1>1, <1>2, <2>3
    <3>2. CASE i <= c
        BY <1>1, <1>2, <1>4, <3>1, <3>2
    <3>3. CASE i = c + 1
        BY <1>1, <1>2, <1>3, <3>1, <3>3, EntryOrder
    <3>4. CASE c + 1 < i
      <4>1. i - 1 \in 1 .. N /\ t[i] = s[i - 1] /\ i - 1 < j - 1
          BY <1>1, <1>2, <1>5, <3>4
      <4>2. QED BY <4>1, <3>1, <1>4
    <3>5. QED BY <1>2, <3>2, <3>3, <3>4
  <2>4. QED BY <1>2, <2>1, <2>2, <2>3
<1>6. QED BY <1>1, <1>5 DEF Sorted, t

\* The first n elements of t are those of s in another order.
Rearranged(s, t, n) ==
    \E f \in [1 .. n -> 1 .. n] :
        /\ \A i, j \in 1 .. n : f[i] = f[j] => i = j
        /\ \A m \in 1 .. n : \E i \in 1 .. n : f[i] = m
        /\ \A i \in 1 .. n : s[i] = t[f[i]]

\* Putting the next element somewhere in between rearranges one more.
LEMMA OneMoreRearranged ==
    ASSUME NEW n \in Nat, NEW s, NEW t, NEW e, Rearranged(s, e, n),
           NEW c \in 0 .. n, t[c + 1] = e[n + 1],
           \A i \in 1 .. c : t[i] = s[i],
           \A i \in c + 2 .. n + 1 : t[i] = s[i - 1]
    PROVE  Rearranged(t, e, n + 1)
<1>1. PICK f \in [1 .. n -> 1 .. n] :
          /\ \A i, j \in 1 .. n : f[i] = f[j] => i = j
          /\ \A m \in 1 .. n : \E i \in 1 .. n : f[i] = m
          /\ \A i \in 1 .. n : s[i] = e[f[i]]
    BY DEF Rearranged
<1> DEFINE g == [i \in 1 .. n + 1 |->
                    IF i <= c THEN f[i] ELSE IF i = c + 1 THEN n + 1 ELSE f[i - 1]]
<1>2. /\ \A i \in 1 .. c : i \in 1 .. n /\ g[i] = f[i] /\ f[i] \in 1 .. n
      /\ c + 1 \in 1 .. n + 1 /\ g[c + 1] = n + 1
    OBVIOUS
<1>3. ASSUME NEW i \in c + 2 .. n + 1
      PROVE  i \in 1 .. n + 1 /\ i - 1 \in c + 1 .. n /\ g[i] = f[i - 1] /\ f[i - 1] \in 1 .. n
  <2>1. i \in 1 .. n + 1 /\ ~(i <= c) /\ i # c + 1 /\ i - 1 \in 1 .. n /\ i - 1 \in c + 1 .. n
      OBVIOUS
  <2>2. QED BY <2>1
<1>4. \A i \in 1 .. n + 1 : i \in 1 .. c \/ i = c + 1 \/ i \in c + 2 .. n + 1
    OBVIOUS
<1>5. g \in [1 .. n + 1 -> 1 .. n + 1]
  <2>1. \A i \in 1 .. n + 1 : g[i] \in 1 .. n + 1
      BY <1>2, <1>3, <1>4
  <2>2. QED BY <2>1
<1> HIDE DEF g
<1>6. ASSUME NEW i \in 1 .. n + 1, NEW j \in 1 .. n + 1, g[i] = g[j]
      PROVE  i = j
  <2>1. CASE i \in 1 .. c
    <3>1. CASE j \in 1 .. c
        BY <1>1, <1>2, <1>6, <2>1, <3>1
    <3>2. CASE j = c + 1
        BY <1>2, <1>6, <2>1, <3>2
    <3>3. CASE j \in c + 2 .. n + 1
      <4>1. f[i] = f[j - 1] /\ i \in 1 .. n /\ j - 1 \in c + 1 .. n /\ j - 1 \in 1 .. n
          BY <1>2, <1>3, <1>6, <2>1, <3>3
      <4>2. i = j - 1
          BY <1>1, <4>1
      <4>3. QED BY <2>1, <4>1, <4>2
    <3>4. QED BY <3>1, <3>2, <3>3, <1>4
  <2>2. CASE i = c + 1
    <3>1. CASE j \in 1 .. c
        BY <1>2, <1>6, <2>2, <3>1
    <3>2. CASE j \in c + 2 .. n + 1
        BY <1>2, <1>3, <1>6, <2>2, <3>2
    <3>3. QED BY <3>1, <3>2, <2>2, <1>4
  <2>3. CASE i \in c + 2 .. n + 1
    <3>1. CASE j \in 1 .. c
      <4>1. f[j] = f[i - 1] /\ j \in 1 .. n /\ i - 1 \in c + 1 .. n /\ i - 1 \in 1 .. n
          BY <1>2, <1>3, <1>6, <2>3, <3>1
      <4>2. j = i - 1
          BY <1>1, <4>1
      <4>3. QED BY <3>1, <4>1, <4>2
    <3>2. CASE j = c + 1
        BY <1>2, <1>3, <1>6, <2>3, <3>2
    <3>3. CASE j \in c + 2 .. n + 1
      <4>1. f[i - 1] = f[j - 1] /\ i - 1 \in 1 .. n /\ j - 1 \in 1 .. n
          BY <1>3, <1>6, <2>3, <3>3
      <4>2. i - 1 = j - 1
          BY <1>1, <4>1
      <4>3. QED BY <4>2
    <3>4. QED BY <3>1, <3>2, <3>3, <1>4
  <2>4. QED BY <2>1, <2>2, <2>3, <1>4
<1>7. ASSUME NEW m \in 1 .. n + 1
      PROVE  \E i \in 1 .. n + 1 : g[i] = m
  <2>1. CASE m = n + 1
      BY <1>2, <2>1
  <2>2. CASE m \in 1 .. n
    <3>1. PICK i \in 1 .. n : f[i] = m
        BY <1>1, <2>2
    <3>2. CASE i <= c
      <4>1. i \in 1 .. c /\ i \in 1 .. n + 1
          BY <3>2
      <4>2. QED BY <1>2, <3>1, <4>1
    <3>3. CASE i > c
      <4>1. i + 1 \in c + 2 .. n + 1 /\ (i + 1) - 1 = i
          BY <3>3
      <4>2. g[i + 1] = f[i] /\ i + 1 \in 1 .. n + 1
          BY <1>3, <4>1
      <4>3. QED BY <3>1, <4>2
    <3>4. QED BY <3>2, <3>3
  <2>3. QED BY <2>1, <2>2
<1>8. ASSUME NEW i \in 1 .. n + 1
      PROVE  t[i] = e[g[i]]
  <2>1. CASE i \in 1 .. c
    <3>1. i \in 1 .. n
        BY <2>1
    <3>2. t[i] = s[i] /\ s[i] = e[f[i]] /\ g[i] = f[i]
        BY <1>1, <1>2, <2>1, <3>1
    <3>3. QED BY <3>2
  <2>2. CASE i = c + 1
      BY <1>2, <2>2
  <2>3. CASE i \in c + 2 .. n + 1
    <3>1. i - 1 \in 1 .. n
        BY <2>3
    <3>2. t[i] = s[i - 1] /\ s[i - 1] = e[f[i - 1]] /\ g[i] = f[i - 1]
        BY <1>1, <1>3, <2>3, <3>1
    <3>3. QED BY <3>2
  <2>4. QED BY <2>1, <2>2, <2>3, <1>4
<1>9. QED BY <1>5, <1>6, <1>7, <1>8 DEF Rearranged

\* Inserting the next element rearranges one more.
LEMMA InsertSortedRearranges ==
    ASSUME NEW n \in Nat, NEW s \in Seq(Entry), Len(s) = n,
           NEW e, e[n + 1] \in Entry, Rearranged(s, e, n)
    PROVE  Rearranged(InsertSorted(s, e[n + 1]), e, n + 1)
<1> DEFINE entry == e[n + 1]
           c == Place(s, entry)
           t == InsertSorted(s, entry)
<1>1. c \in 0 .. n
    BY PlaceType
<1>2. /\ t[c + 1] = entry
      /\ \A i \in 1 .. c : t[i] = s[i]
      /\ \A i \in c + 2 .. Len(s) + 1 : t[i] = s[i - 1]
  <2> HIDE DEF entry
  <2>1. QED BY InsertSortedPlaces DEF entry
<1> HIDE DEF c, t
<1>3. \A i \in c + 2 .. n + 1 : t[i] = s[i - 1]
    BY <1>2
<1>4. Rearranged(t, e, n + 1)
    BY <1>1, <1>2, <1>3, OneMoreRearranged
<1>5. QED BY <1>4 DEF t

\* The texts of requests: u16 ports and a digit.
Text == Seq(Nat \X Nat \X Nat)

\* normalize_ports returns the entries of parse_ports in ascending order.
LEMMA NormalizeSorts ==
    ASSUME NEW text \in Text
    PROVE  /\ Normalize(text) \in Seq(Entry)
           /\ Len(Normalize(text)) = Len(text)
           /\ Sorted(Normalize(text))
           /\ Rearranged(Normalize(text), ParsePorts(text), Len(text))
<1> DEFINE n == Len(text)
           e == ParsePorts(text)
<1>1. n \in Nat /\ \A i \in 1 .. n : e[i] \in Entry
    BY DEF Text, ParsePorts, BpfAction, Entry
<1> HIDE DEF n, e
<1> DEFINE S == Seq(Entry)
           G == [i \in 1 .. n |-> [s \in S |-> InsertSorted(s, e[i])]]
           Run(f) == f = [i \in 0 .. n |-> IF i = 0 THEN << >> ELSE InsertSorted(f[i - 1], e[i])]
<1>2. G \in [1 .. n -> [S -> S]] /\ << >> \in S
    BY <1>1, InsertSortedPlaces
<1>3. \E f : Run(f)
  <2>1. PICK f \in [0 .. n -> S] : f[0] = << >> /\ \A i \in 1 .. n : f[i] = G[i][f[i - 1]]
    <3> DEFINE none == << >>
    <3>1. none \in S /\ n \in Nat /\ G \in [1 .. n -> [S -> S]]
        BY <1>1, <1>2
    <3> HIDE DEF S, G, none
    <3>2. \E f : Iterates(f, n, S, none, G)
        BY <3>1, Recursion
    <3>3. QED BY <3>2 DEF none, Iterates
  <2>2. ASSUME NEW i \in 1 .. n
        PROVE  f[i] = InsertSorted(f[i - 1], e[i])
    <3>1. i - 1 \in 0 .. n
        BY <1>1
    <3> HIDE DEF S, G
    <3>2. f[i - 1] \in S /\ f[i] = G[i][f[i - 1]]
        BY <2>1, <3>1
    <3>3. QED BY <3>2 DEF G
  <2>3. Run(f)
      BY <1>1, <2>1, <2>2
  <2> HIDE DEF Run
  <2>4. QED BY <2>3
<1>4. PICK f : Run(f) /\ Normalize(text) = f[n]
    BY <1>3 DEF Normalize, n, e
<1>5. f[0] = << >> /\ \A i \in 1 .. n : f[i] = InsertSorted(f[i - 1], e[i])
    BY <1>1, <1>4
<1> DEFINE Good(s, i) == s \in S /\ Len(s) = i /\ Sorted(s) /\ Rearranged(s, e, i)
           T == {i \in 0 .. n : Good(f[i], i)}
<1>6. 0 \in T
  <2>1. Rearranged(<< >>, e, 0)
    <3>1. [i \in 1 .. 0 |-> i] \in [1 .. 0 -> 1 .. 0] /\ \A i \in 1 .. 0 : FALSE
        OBVIOUS
    <3>2. QED BY <3>1 DEF Rearranged
  <2>2. << >> \in S /\ Len(<< >>) = 0 /\ Sorted(<< >>)
      BY DEF Sorted
  <2>3. Good(<< >>, 0)
      BY <2>1, <2>2
  <2> HIDE DEF Good
  <2>4. QED BY <1>1, <1>5, <2>3
<1>7. ASSUME NEW i \in 1 .. n, i - 1 \in T
      PROVE  i \in T
  <2>1. Good(f[i - 1], i - 1) /\ f[i] = InsertSorted(f[i - 1], e[i]) /\ e[i] \in Entry
      BY <1>1, <1>5, <1>7
  <2>2. f[i] \in S /\ Len(f[i]) = i
    <3> DEFINE s == f[i - 1]
    <3>1. InsertSorted(s, e[i]) \in Seq(Entry) /\ Len(InsertSorted(s, e[i])) = Len(s) + 1
      <4>1. s \in Seq(Entry) /\ e[i] \in Entry
          BY <2>1
      <4> HIDE DEF s
      <4>2. QED BY <4>1, InsertSortedPlaces
    <3>2. QED BY <2>1, <3>1
  <2>3. Sorted(f[i])
      BY <2>1, InsertSortedSorts
  <2>4. Rearranged(f[i], e, i)
    <3>1. i - 1 \in Nat /\ (i - 1) + 1 = i
        BY <1>1
    <3>2. QED BY <2>1, <3>1, InsertSortedRearranges
  <2>5. QED BY <2>2, <2>3, <2>4
<1> HIDE DEF T
<1>8. \A i \in 0 .. n : i \in T
    BY <1>1, <1>6, <1>7, Induction
<1>9. Good(f[n], n)
    BY <1>1, <1>8 DEF T
<1>10. QED BY <1>4, <1>9 DEF n, e

\* Rearranging can be undone,
LEMMA RearrangedBack ==
    ASSUME NEW n \in Nat, NEW s, NEW t, Rearranged(s, t, n)
    PROVE  Rearranged(t, s, n)
<1>1. PICK f \in [1 .. n -> 1 .. n] :
          /\ \A i, j \in 1 .. n : f[i] = f[j] => i = j
          /\ \A m \in 1 .. n : \E i \in 1 .. n : f[i] = m
          /\ \A i \in 1 .. n : s[i] = t[f[i]]
    BY DEF Rearranged
<1> DEFINE g == [m \in 1 .. n |-> CHOOSE i \in 1 .. n : f[i] = m]
<1>2. \A m \in 1 .. n : g[m] \in 1 .. n /\ f[g[m]] = m
    BY <1>1
<1>3. g \in [1 .. n -> 1 .. n]
    BY <1>2
<1> HIDE DEF g
<1>4. \A i \in 1 .. n : f[i] \in 1 .. n /\ g[f[i]] = i
    BY <1>1, <1>2
<1>5. \A i \in 1 .. n : t[i] = s[g[i]]
    BY <1>1, <1>2
<1>6. ASSUME NEW i \in 1 .. n, NEW j \in 1 .. n, g[i] = g[j]
      PROVE  i = j
  <2>1. f[g[i]] = i /\ f[g[j]] = j
      BY <1>2
  <2>2. QED BY <1>6, <2>1
<1>7. ASSUME NEW i \in 1 .. n
      PROVE  \E m \in 1 .. n : g[m] = i
    BY <1>4
<1>8. QED BY <1>3, <1>5, <1>6, <1>7 DEF Rearranged

\* and be repeated.
LEMMA RearrangedTwice ==
    ASSUME NEW n \in Nat, NEW s, NEW t, NEW u, Rearranged(s, t, n), Rearranged(t, u, n)
    PROVE  Rearranged(s, u, n)
<1>1. PICK f \in [1 .. n -> 1 .. n] :
          /\ \A i, j \in 1 .. n : f[i] = f[j] => i = j
          /\ \A m \in 1 .. n : \E i \in 1 .. n : f[i] = m
          /\ \A i \in 1 .. n : s[i] = t[f[i]]
    BY DEF Rearranged
<1>2. PICK g \in [1 .. n -> 1 .. n] :
          /\ \A i, j \in 1 .. n : g[i] = g[j] => i = j
          /\ \A m \in 1 .. n : \E i \in 1 .. n : g[i] = m
          /\ \A i \in 1 .. n : t[i] = u[g[i]]
    BY DEF Rearranged
<1> DEFINE h == [i \in 1 .. n |-> g[f[i]]]
<1>3. h \in [1 .. n -> 1 .. n] /\ \A i \in 1 .. n : f[i] \in 1 .. n /\ h[i] = g[f[i]]
    OBVIOUS
<1> HIDE DEF h
<1>4. ASSUME NEW i \in 1 .. n, NEW j \in 1 .. n, h[i] = h[j]
      PROVE  i = j
  <2>1. g[f[i]] = g[f[j]] /\ f[i] \in 1 .. n /\ f[j] \in 1 .. n
      BY <1>3, <1>4
  <2>2. f[i] = f[j]
      BY <1>2, <2>1
  <2>3. QED BY <1>1, <2>2
<1>5. ASSUME NEW m \in 1 .. n
      PROVE  \E i \in 1 .. n : h[i] = m
  <2>1. PICK j \in 1 .. n : g[j] = m
      BY <1>2
  <2>2. PICK i \in 1 .. n : f[i] = j
      BY <1>1
  <2>3. QED BY <1>3, <2>1, <2>2
<1>6. ASSUME NEW i \in 1 .. n
      PROVE  s[i] = u[h[i]]
  <2>1. s[i] = t[f[i]] /\ f[i] \in 1 .. n
      BY <1>1
  <2>2. t[f[i]] = u[g[f[i]]]
      BY <1>2, <2>1
  <2>3. QED BY <1>3, <2>1, <2>2
<1>7. QED BY <1>3, <1>4, <1>5, <1>6 DEF Rearranged

\* There are m numbers up to m.
LEMMA CountUpTo == \A m \in Nat : IsFiniteSet(1 .. m) /\ Cardinality(1 .. m) = m
BY FS_Interval

\* Of two sorted sequences, one a rearrangement of the other, none is ahead:
\* it would have i elements below the i-th of the other, which has i - 1.
LEMMA NoneAhead ==
    ASSUME NEW n \in Nat, NEW s \in Seq(Entry), NEW t \in Seq(Entry), Len(s) = n, Len(t) = n,
           Sorted(s), Sorted(t), Rearranged(s, t, n), NEW i \in 1 .. n
    PROVE  ~EntryBefore(s[i], t[i])
<1> SUFFICES ASSUME EntryBefore(s[i], t[i]) PROVE FALSE
    OBVIOUS
<1>1. PICK f \in [1 .. n -> 1 .. n] :
          /\ \A j, k \in 1 .. n : f[j] = f[k] => j = k
          /\ \A j \in 1 .. n : s[j] = t[f[j]]
    BY DEF Rearranged
<1>2. /\ \A j \in 1 .. n : s[j] \in Entry /\ t[j] \in Entry
      /\ \A j, k \in 1 .. n : j < k => ~EntryBefore(s[k], s[j]) /\ ~EntryBefore(t[k], t[j])
  <2>1. DOMAIN s = 1 .. n /\ DOMAIN t = 1 .. n
      OBVIOUS
  <2>2. \A j \in 1 .. n : s[j] \in Entry /\ t[j] \in Entry
      OBVIOUS
  <2>3. QED BY <2>1, <2>2 DEF Sorted
<1>3. ASSUME NEW j \in 1 .. i
      PROVE  j \in 1 .. n /\ f[j] \in 1 .. i - 1
  <2>1. j \in 1 .. n /\ f[j] \in 1 .. n
      OBVIOUS
  <2>2. ~EntryBefore(s[i], s[j])
      BY <1>2, <2>1, EntryOrder
  <2>3. ~EntryBefore(t[i], s[i]) /\ s[i] # t[i]
      BY <1>2, EntryOrder
  <2>4. ASSUME ~(f[j] <= i - 1)
        PROVE  FALSE
    <3>1. f[j] = i \/ i < f[j]
        BY <2>1, <2>4
    <3>2. ~EntryBefore(t[f[j]], t[i])
        BY <1>2, <2>1, <3>1, EntryOrder
    <3>3. ~EntryBefore(s[j], t[i])
        BY <1>1, <2>1, <3>2
    <3>4. ~EntryBefore(s[i], t[i])
        BY <1>2, <2>1, <2>2, <3>3, EntryOrder
    <3>5. QED BY <3>4
  <2>5. QED BY <2>1, <2>4
<1> DEFINE g == [j \in 1 .. i |-> f[j]]
<1>4. g \in [1 .. i -> 1 .. i - 1]
    BY <1>3
<1>5. /\ IsFiniteSet(1 .. i) /\ Cardinality(1 .. i) = i
      /\ IsFiniteSet(1 .. i - 1) /\ Cardinality(1 .. i - 1) = i - 1
  <2>1. i \in Nat /\ i - 1 \in Nat
      OBVIOUS
  <2>2. QED BY <2>1, CountUpTo
<1>6. \E j, k \in 1 .. i : j # k /\ g[j] = g[k]
  <2>1. Cardinality(1 .. i - 1) < Cardinality(1 .. i)
      BY <1>5
  <2> HIDE DEF g
  <2>2. QED BY <1>4, <1>5, <2>1, FS_PigeonHole
<1>7. QED BY <1>1, <1>3, <1>6

\* There is one sorted sequence of the same entries.
LEMMA SortedUnique ==
    ASSUME NEW n \in Nat, NEW s \in Seq(Entry), NEW t \in Seq(Entry), Len(s) = n, Len(t) = n,
           Sorted(s), Sorted(t), Rearranged(s, t, n)
    PROVE  s = t
<1>1. Rearranged(t, s, n)
    BY RearrangedBack
<1>2. \A i \in 1 .. n : ~EntryBefore(s[i], t[i]) /\ ~EntryBefore(t[i], s[i])
    BY <1>1, NoneAhead
<1>3. \A i \in 1 .. n : s[i] \in Entry /\ t[i] \in Entry
    OBVIOUS
<1>4. \A i \in 1 .. n : s[i] = t[i]
    BY <1>2, <1>3, EntryOrder
<1>5. QED BY <1>4, SeqEqual

(***************************************************************************)
(* The entries of PORT_BITMAP_POOL that are written for a text.            *)
(***************************************************************************)
PoolInsert == Nat \X {1, 2}

Names(text, i, port) == i \in 1 .. Len(text) /\ port \in text[i][1] .. text[i][2]

\* The inserts of a part are its ports, in their order.
LEMMA PartInsertsAre ==
    ASSUME NEW part \in Nat \X Nat \X Nat, part[1] <= part[2]
    PROVE  /\ PartInserts(part) \in Seq(PoolInsert)
           /\ Len(PartInserts(part)) = part[2] - part[1] + 1
           /\ \A j \in 1 .. part[2] - part[1] + 1 :
                  /\ PartInserts(part)[j][1] = part[1] + j - 1
                  /\ PartInserts(part)[j][2] = BpfAction(part[3])
<1> DEFINE a == part[1]
           b == part[2]
           v == BpfAction(part[3])
           q == [j \in 1 .. b - a + 1 |-> << a + j - 1, v >>]
<1>1. a \in Nat /\ b \in Nat /\ a <= b /\ v \in {1, 2}
    BY DEF BpfAction
<1>2. PartInserts(part) = q
    BY DEF PartInserts
<1> HIDE DEF a, b, v
<1>3. b - a + 1 \in Nat /\ \A j \in 1 .. b - a + 1 : << a + j - 1, v >> \in PoolInsert
    BY <1>1 DEF PoolInsert
<1>4. q \in Seq(PoolInsert) /\ Len(q) = b - a + 1
    BY <1>3
<1>5. \A j \in 1 .. b - a + 1 : q[j][1] = a + j - 1 /\ q[j][2] = v
    OBVIOUS
<1> HIDE DEF q
<1>6. QED BY <1>2, <1>4, <1>5 DEF a, b, v

\* What Inserts computes.
LEMMA InsertsIs ==
    ASSUME NEW text \in Text, ValidPorts(text)
    PROVE  \E f : /\ f[0] = << >>
                  /\ \A n \in 1 .. Len(text) : f[n] = f[n - 1] \o PartInserts(text[n])
                  /\ Inserts(text) = f[Len(text)]
<1> DEFINE N == Len(text)
           S == Seq(PoolInsert)
           G == [n \in 1 .. N |-> [s \in S |-> s \o PartInserts(text[n])]]
           Run(f) == f = [n \in 0 .. N |-> IF n = 0 THEN << >>
                                           ELSE f[n - 1] \o PartInserts(text[n])]
<1>1. N \in Nat /\ \A n \in 1 .. N : PartInserts(text[n]) \in Seq(PoolInsert)
  <2>1. N \in Nat /\ \A n \in 1 .. N : text[n] \in Nat \X Nat \X Nat /\ text[n][1] <= text[n][2]
      BY DEF Text, ValidPorts
  <2>2. QED BY <2>1, PartInsertsAre
<1> DEFINE none == << >>
<1>2. G \in [1 .. N -> [S -> S]] /\ none \in S
  <2>1. ASSUME NEW n \in 1 .. N, NEW s \in S
        PROVE  s \o PartInserts(text[n]) \in S
      BY <1>1, ConcatProperties
  <2>2. QED BY <2>1
<1>3. \E f : Run(f)
  <2> HIDE DEF S, G, N, none
  <2>1. PICK f : Iterates(f, N, S, none, G)
      BY <1>1, <1>2, Recursion
  <2>2. f \in [0 .. N -> S] /\ f[0] = << >> /\ \A n \in 1 .. N : f[n] = G[n][f[n - 1]]
      BY <2>1 DEF Iterates, none
  <2>3. ASSUME NEW n \in 1 .. N
        PROVE  f[n] = f[n - 1] \o PartInserts(text[n])
    <3>1. n - 1 \in 0 .. N
        BY <1>1
    <3>2. f[n - 1] \in S /\ f[n] = G[n][f[n - 1]]
        BY <2>2, <3>1
    <3>3. QED BY <3>2 DEF G
  <2>4. ASSUME NEW n \in 0 .. N
        PROVE  f[n] = IF n = 0 THEN << >> ELSE f[n - 1] \o PartInserts(text[n])
    <3>1. CASE n = 0
        BY <2>2, <3>1
    <3>2. CASE n # 0
      <4>1. n \in 1 .. N
          BY <1>1, <3>2
      <4>2. f[n] = f[n - 1] \o PartInserts(text[n])
          BY <2>3, <4>1
      <4>3. QED BY <3>2, <4>2
    <3>3. QED BY <3>1, <3>2
  <2>5. f = [n \in 0 .. N |-> f[n]]
      BY <2>2
  <2>6. Run(f)
      BY <2>4, <2>5
  <2> HIDE DEF Run
  <2>7. QED BY <2>6
<1>4. PICK f : Run(f) /\ Inserts(text) = f[N]
    BY <1>3 DEF Inserts
<1>5. \A n \in 0 .. N : f[n] = IF n = 0 THEN << >> ELSE f[n - 1] \o PartInserts(text[n])
  <2> HIDE DEF N
  <2>1. QED BY <1>4
<1>6. f[0] = << >>
  <2>1. 0 \in 0 .. N
      BY <1>1
  <2>2. QED BY <1>5, <2>1
<1>7. ASSUME NEW n \in 1 .. N
      PROVE  f[n] = f[n - 1] \o PartInserts(text[n])
  <2>1. n \in 0 .. N /\ n # 0
      BY <1>1
  <2>2. QED BY <1>5, <2>1
<1>8. QED BY <1>4, <1>6, <1>7

\* add_policy inserts a value for every port the text names, and each is one
\* that a part naming the port asks for.
LEMMA InsertsNamed ==
    ASSUME NEW text \in Text, ValidPorts(text)
    PROVE  /\ Inserts(text) \in Seq(PoolInsert)
           /\ \A m \in 1 .. Len(Inserts(text)) :
                  \E i \in 1 .. Len(text) :
                      /\ Names(text, i, Inserts(text)[m][1])
                      /\ Inserts(text)[m][2] = BpfAction(text[i][3])
           /\ \A i, port : Names(text, i, port) =>
                  \E m \in 1 .. Len(Inserts(text)) : Inserts(text)[m][1] = port
<1> DEFINE N == Len(text)
           Part(n) == PartInserts(text[n])
           S == Seq(PoolInsert)
<1>1. N \in Nat
    BY DEF Text
<1>2. ASSUME NEW n \in 1 .. N
      PROVE  /\ Part(n) \in Seq(PoolInsert)
             /\ Len(Part(n)) = text[n][2] - text[n][1] + 1
             /\ \A j \in 1 .. Len(Part(n)) : /\ Part(n)[j][1] = text[n][1] + j - 1
                                             /\ Part(n)[j][2] = BpfAction(text[n][3])
             /\ text[n][1] \in Nat /\ text[n][2] \in Nat /\ text[n][1] <= text[n][2]
  <2>1. text[n] \in Nat \X Nat \X Nat /\ text[n][1] <= text[n][2]
      BY DEF Text, ValidPorts
  <2>2. /\ Part(n) \in Seq(PoolInsert)
        /\ Len(Part(n)) = text[n][2] - text[n][1] + 1
        /\ \A j \in 1 .. text[n][2] - text[n][1] + 1 :
               /\ Part(n)[j][1] = text[n][1] + j - 1
               /\ Part(n)[j][2] = BpfAction(text[n][3])
      BY <2>1, PartInsertsAre
  <2> HIDE DEF Part
  <2>3. QED BY <2>1, <2>2
<1> HIDE DEF Part
<1>3. \A n \in 1 .. N : n \in Nat /\ n \in 1 .. n /\ n \in 0 .. N
    BY <1>1
<1>4. PICK f : /\ f[0] = << >>
               /\ \A n \in 1 .. Len(text) : f[n] = f[n - 1] \o PartInserts(text[n])
               /\ Inserts(text) = f[Len(text)]
    BY InsertsIs
<1>5. f[0] = << >> /\ (\A n \in 1 .. N : f[n] = f[n - 1] \o Part(n)) /\ Inserts(text) = f[N]
    BY <1>4 DEF Part
<1> DEFINE Good(s, n) ==
             /\ s \in S
             /\ \A m \in 1 .. Len(s) : \E i \in 1 .. n : /\ s[m][1] \in text[i][1] .. text[i][2]
                                                         /\ s[m][2] = BpfAction(text[i][3])
             /\ \A i \in 1 .. n : \A port \in text[i][1] .. text[i][2] :
                    \E m \in 1 .. Len(s) : s[m][1] = port
           T == {n \in 0 .. N : Good(f[n], n)}
<1>6. 0 \in T
  <2>1. Good(<< >>, 0)
      OBVIOUS
  <2> HIDE DEF Good
  <2>2. QED BY <1>1, <1>5, <2>1
<1>7. ASSUME NEW n \in 1 .. N, n - 1 \in T
      PROVE  n \in T
  <2> DEFINE s == f[n - 1]
             q == Part(n)
  <2>1. Good(s, n - 1) /\ f[n] = s \o q
      BY <1>1, <1>5, <1>7
  <2>2. /\ q \in Seq(PoolInsert)
        /\ Len(q) = text[n][2] - text[n][1] + 1
        /\ \A j \in 1 .. Len(q) : q[j][1] = text[n][1] + j - 1 /\ q[j][2] = BpfAction(text[n][3])
        /\ text[n][1] \in Nat /\ text[n][2] \in Nat /\ text[n][1] <= text[n][2]
        /\ n \in 1 .. n /\ n \in Nat /\ n \in 0 .. N
      BY <1>2, <1>3
  <2> HIDE DEF q, s
  <2>3. /\ s \o q \in S
        /\ Len(s \o q) = Len(s) + Len(q)
        /\ \A m \in 1 .. Len(s) + Len(q) :
               (s \o q)[m] = IF m <= Len(s) THEN s[m] ELSE q[m - Len(s)]
      BY <2>1, <2>2, ConcatProperties
  <2>4. Len(s) \in Nat /\ Len(q) \in Nat
      BY <2>1, <2>2
  <2> DEFINE t == s \o q
  <2>range. /\ \A a, b \in Nat, j \in Int :
                   1 <= j /\ j <= b - a + 1 => a + j - 1 \in a .. b
            /\ \A a, b \in Nat, port \in Int :
                   port \in a .. b =>
                       port - a + 1 \in 1 .. b - a + 1 /\ a + (port - a + 1) - 1 = port
      OBVIOUS
  <2>5. ASSUME NEW m \in 1 .. Len(t)
        PROVE  \E i \in 1 .. n : /\ t[m][1] \in text[i][1] .. text[i][2]
                                 /\ t[m][2] = BpfAction(text[i][3])
    <3>1. CASE m <= Len(s)
      <4>1. t[m] = s[m] /\ m \in 1 .. Len(s)
          BY <2>3, <2>4, <3>1
      <4>2. PICK i \in 1 .. n - 1 : /\ s[m][1] \in text[i][1] .. text[i][2]
                                    /\ s[m][2] = BpfAction(text[i][3])
          BY <2>1, <4>1
      <4>3. i \in 1 .. n
          BY <1>1
      <4>4. QED BY <4>1, <4>2, <4>3
    <3>2. CASE m > Len(s)
      <4> DEFINE j == m - Len(s)
      <4>1. t[m] = q[j] /\ j \in 1 .. Len(q)
          BY <2>3, <2>4, <3>2
      <4>2. q[j][1] = text[n][1] + j - 1 /\ q[j][2] = BpfAction(text[n][3])
          BY <2>2, <4>1
      <4>3. j \in Int /\ 1 <= j /\ j <= text[n][2] - text[n][1] + 1
          BY <2>2, <2>4, <4>1
      <4> HIDE DEF j, t
      <4>4. text[n][1] + j - 1 \in text[n][1] .. text[n][2]
          BY <2>2, <2>range, <4>3, Zenon
      <4>5. QED BY <2>2, <4>1, <4>2, <4>4, Zenon
    <3>3. m <= Len(s) \/ m > Len(s)
        BY <2>3, <2>4
    <3>4. QED BY <3>1, <3>2, <3>3
  <2>6. ASSUME NEW i \in 1 .. n, NEW port \in text[i][1] .. text[i][2]
        PROVE  \E m \in 1 .. Len(t) : t[m][1] = port
    <3>1. CASE i = n
      <4> DEFINE j == port - text[n][1] + 1
                 m == Len(s) + j
      <4>0. port \in text[n][1] .. text[n][2]
          BY <3>1, Zenon
      <4>1. j \in 1 .. Len(q) /\ text[n][1] + j - 1 = port
        <5>1. port \in Int
            BY <2>2, <4>0
        <5>2. QED BY <2>2, <2>range, <4>0, <5>1, Zenon
      <4>2. q[j][1] = port
          BY <2>2, <4>1, Zenon
      <4> HIDE DEF j
      <4>3. m \in 1 .. Len(t) /\ ~(m <= Len(s)) /\ m - Len(s) = j
          BY <2>3, <2>4, <4>1
      <4> HIDE DEF m
      <4>4. t[m] = q[j]
          BY <2>3, <4>3
      <4>5. QED BY <4>2, <4>3, <4>4
    <3>2. CASE i # n
      <4>0. i \in 1 .. n - 1
          BY <1>1, <3>2
      <4>1. PICK m \in 1 .. Len(s) : s[m][1] = port
          BY <2>1, <4>0
      <4>2. m \in 1 .. Len(t) /\ t[m] = s[m]
          BY <2>3, <2>4
      <4>3. QED BY <4>1, <4>2
    <3>3. QED BY <3>1, <3>2
  <2>7. Good(t, n)
      BY <2>3, <2>5, <2>6
  <2>8. f[n] = t
      BY <2>1
  <2> HIDE DEF Good, t
  <2>9. QED BY <2>2, <2>7, <2>8
<1> HIDE DEF T
<1>8. \A n \in 0 .. N : n \in T
    BY <1>1, <1>6, <1>7, Induction
<1>9. Good(f[N], N)
    BY <1>1, <1>8 DEF T
<1>10. f[N] = Inserts(text)
    BY <1>5, Zenon
<1>11. \A i, port : Names(text, i, port) <=> i \in 1 .. N /\ port \in text[i][1] .. text[i][2]
    BY DEF Names
<1>12. QED BY <1>9, <1>10, <1>11, Zenon

(***************************************************************************)
(* What the inserts of a text leave in PORT_BITMAP_POOL.                   *)
(***************************************************************************)
PoolKeys == Nat \X Nat
Pools == PartialMaps(PoolKeys, {1, 2})

\* The pool w, after the first n inserts for idx into pool: entries of other
\* indices are what they were, and each port inserted has the value of one
\* of its inserts.
WrittenSoFar(w, pool, idx, inserts, n) ==
    /\ w \in Pools
    /\ \A key \in DOMAIN pool : key[1] # idx => key \in DOMAIN w /\ w[key] = pool[key]
    /\ \A m \in 1 .. n :
           /\ << idx, inserts[m][1] >> \in DOMAIN w
           /\ \E l \in 1 .. n : /\ inserts[l][1] = inserts[m][1]
                                /\ w[<< idx, inserts[m][1] >>] = inserts[l][2]

\* One insert more.
LEMMA WriteOne ==
    ASSUME NEW w, NEW pool, NEW idx \in Nat, NEW inserts \in Seq(PoolInsert),
           NEW n \in 1 .. Len(inserts), WrittenSoFar(w, pool, idx, inserts, n - 1)
    PROVE  WrittenSoFar(Insert(w, << idx, inserts[n][1] >>, inserts[n][2]),
                        pool, idx, inserts, n)
<1> DEFINE key == << idx, inserts[n][1] >>
           v == inserts[n][2]
           u == Insert(w, key, v)
<1>1. inserts[n] \in PoolInsert
    OBVIOUS
<1>2. key \in PoolKeys /\ v \in {1, 2} /\ key[1] = idx
    BY <1>1 DEF PoolKeys, PoolInsert
<1>3. w \in Pools
    BY DEF WrittenSoFar
<1>4. u \in Pools
    BY <1>2, <1>3, InsertType DEF Pools
<1>5. DOMAIN u = DOMAIN w \cup {key} /\ u[key] = v
      /\ \A x \in DOMAIN w : x # key => u[x] = w[x]
    BY DEF Insert
<1>6. \A x \in DOMAIN pool : x[1] # idx => x \in DOMAIN u /\ u[x] = pool[x]
    BY <1>2, <1>5 DEF WrittenSoFar
<1>7. n \in Nat /\ n \in 1 .. n /\ \A m \in 1 .. n : m # n => m \in 1 .. n - 1
    OBVIOUS
<1> HIDE DEF u, v
<1>8. ASSUME NEW m \in 1 .. n
      PROVE  /\ << idx, inserts[m][1] >> \in DOMAIN u
             /\ \E l \in 1 .. n : /\ inserts[l][1] = inserts[m][1]
                                  /\ u[<< idx, inserts[m][1] >>] = inserts[l][2]
  <2>1. CASE inserts[m][1] = inserts[n][1]
      BY <1>5, <1>7, <2>1 DEF v
  <2>2. CASE inserts[m][1] # inserts[n][1]
    <3>1. m \in 1 .. n - 1
        BY <1>7, <2>2
    <3>2. /\ << idx, inserts[m][1] >> \in DOMAIN w
          /\ \E l \in 1 .. n - 1 : /\ inserts[l][1] = inserts[m][1]
                                   /\ w[<< idx, inserts[m][1] >>] = inserts[l][2]
        BY <3>1 DEF WrittenSoFar
    <3>3. PICK l \in 1 .. n - 1 : /\ inserts[l][1] = inserts[m][1]
                                  /\ w[<< idx, inserts[m][1] >>] = inserts[l][2]
        BY <3>2
    <3>4. << idx, inserts[m][1] >> # key
        BY <2>2
    <3>5. << idx, inserts[m][1] >> \in DOMAIN u
          /\ u[<< idx, inserts[m][1] >>] = w[<< idx, inserts[m][1] >>]
        BY <1>5, <3>2, <3>4
    <3>6. l \in 1 .. n
        BY <1>7
    <3>7. QED BY <3>3, <3>5, <3>6
  <2>3. QED BY <2>1, <2>2
<1>9. QED BY <1>4, <1>6, <1>8 DEF WrittenSoFar, u, v

\* What Written computes.
LEMMA WrittenIs ==
    ASSUME NEW pool \in Pools, NEW idx \in Nat, NEW text, Inserts(text) \in Seq(PoolInsert),
           NEW n \in 0 .. Len(Inserts(text))
    PROVE  \E f : /\ f[0] = pool
                  /\ \A m \in 1 .. n : f[m] = Insert(f[m - 1], << idx, Inserts(text)[m][1] >>,
                                                     Inserts(text)[m][2])
                  /\ Written(pool, idx, text, n) = f[n]
<1> DEFINE inserts == Inserts(text)
           G == [m \in 1 .. n |-> [w \in Pools |->
                     Insert(w, << idx, inserts[m][1] >>, inserts[m][2])]]
           After(f) == f = [m \in 0 .. n |->
                                IF m = 0 THEN pool
                                ELSE Insert(f[m - 1], << idx, inserts[m][1] >>, inserts[m][2])]
<1>1. n \in Nat
    OBVIOUS
<1>2. G \in [1 .. n -> [Pools -> Pools]]
  <2>1. ASSUME NEW m \in 1 .. n, NEW w \in Pools
        PROVE  Insert(w, << idx, inserts[m][1] >>, inserts[m][2]) \in Pools
    <3>1. inserts[m] \in PoolInsert
        BY <1>1
    <3>2. << idx, inserts[m][1] >> \in PoolKeys /\ inserts[m][2] \in {1, 2}
        BY <3>1 DEF PoolInsert, PoolKeys
    <3> HIDE DEF inserts
    <3>3. QED BY <3>2, InsertType DEF Pools
  <2> HIDE DEF inserts
  <2>2. QED BY <2>1
<1>3. \E f : After(f)
  <2> HIDE DEF G, inserts
  <2>1. PICK f : Iterates(f, n, Pools, pool, G)
      BY <1>1, <1>2, Recursion
  <2>2. f \in [0 .. n -> Pools] /\ f[0] = pool /\ \A m \in 1 .. n : f[m] = G[m][f[m - 1]]
      BY <2>1 DEF Iterates
  <2>3. ASSUME NEW m \in 0 .. n
        PROVE  f[m] = IF m = 0 THEN pool
                      ELSE Insert(f[m - 1], << idx, inserts[m][1] >>, inserts[m][2])
    <3>1. CASE m = 0
        BY <2>2, <3>1
    <3>2. CASE m # 0
      <4>1. m \in 1 .. n /\ m - 1 \in 0 .. n
          BY <1>1, <3>2
      <4>2. f[m - 1] \in Pools /\ f[m] = G[m][f[m - 1]]
          BY <2>2, <4>1
      <4>3. QED BY <3>2, <4>1, <4>2 DEF G
    <3>3. QED BY <3>1, <3>2
  <2>4. f = [m \in 0 .. n |-> f[m]]
      BY <2>2
  <2>5. After(f)
      BY <2>3, <2>4
  <2> HIDE DEF After
  <2>6. QED BY <2>5
<1>4. PICK f : After(f) /\ Written(pool, idx, text, n) = f[n]
    BY <1>3 DEF Written
<1>5. \A m \in 0 .. n : f[m] = IF m = 0 THEN pool
                               ELSE Insert(f[m - 1], << idx, inserts[m][1] >>, inserts[m][2])
  <2> HIDE DEF inserts
  <2>1. QED BY <1>4
<1>6. f[0] = pool
  <2>1. 0 \in 0 .. n
      BY <1>1
  <2>2. QED BY <1>5, <2>1
<1>7. ASSUME NEW m \in 1 .. n
      PROVE  f[m] = Insert(f[m - 1], << idx, inserts[m][1] >>, inserts[m][2])
  <2>1. m \in 0 .. n /\ m # 0
      BY <1>1
  <2>2. QED BY <1>5, <2>1
<1>8. QED BY <1>4, <1>6, <1>7

\* Any number of inserts for an index leaves the entries of the others alone.
LEMMA WrittenPool ==
    ASSUME NEW pool \in Pools, NEW idx \in Nat, NEW text \in Text, ValidPorts(text),
           NEW n \in 0 .. Len(Inserts(text))
    PROVE  WrittenSoFar(Written(pool, idx, text, n), pool, idx, Inserts(text), n)
<1> DEFINE inserts == Inserts(text)
<1>1. inserts \in Seq(PoolInsert)
    BY InsertsNamed
<1>2. PICK f : /\ f[0] = pool
               /\ \A m \in 1 .. n : f[m] = Insert(f[m - 1], << idx, inserts[m][1] >>,
                                                  inserts[m][2])
               /\ Written(pool, idx, text, n) = f[n]
    BY <1>1, WrittenIs
<1> HIDE DEF inserts
<1> DEFINE Good(m) == WrittenSoFar(f[m], pool, idx, inserts, m)
           T == {m \in 0 .. n : Good(m)}
<1>3. n \in Nat /\ n <= Len(inserts)
    BY <1>1 DEF inserts
<1>4. 0 \in T
    BY <1>2, <1>3 DEF WrittenSoFar
<1>5. ASSUME NEW m \in 1 .. n, m - 1 \in T
      PROVE  m \in T
  <2>1. Good(m - 1) /\ m \in 1 .. Len(inserts)
      BY <1>1, <1>3, <1>5
  <2>2. Good(m)
      BY <1>1, <1>2, <2>1, WriteOne
  <2> HIDE DEF Good
  <2>3. QED BY <1>3, <2>2
<1> HIDE DEF T
<1>6. \A m \in 0 .. n : m \in T
    BY <1>3, <1>4, <1>5, Induction
<1>7. Good(n)
    BY <1>3, <1>6 DEF T
<1>8. QED BY <1>2, <1>7 DEF inserts

\* After add_policy wrote a port set, each of its ports has the value of one
\* of the parts that name it, and no other index has changed.
LEMMA PortSetWritten ==
    ASSUME NEW pool \in Pools, NEW idx \in Nat, NEW text \in Text, ValidPorts(text)
    PROVE  LET w == WritePortSet(pool, idx, text)
           IN  /\ w \in Pools
               /\ \A key \in DOMAIN pool : key[1] # idx => key \in DOMAIN w /\ w[key] = pool[key]
               /\ \A i, port : Names(text, i, port) =>
                      /\ << idx, port >> \in DOMAIN w
                      /\ \E j : /\ Names(text, j, port)
                                /\ w[<< idx, port >>] = BpfAction(text[j][3])
<1> DEFINE inserts == Inserts(text)
           n == Len(inserts)
           w == WritePortSet(pool, idx, text)
<1>1. inserts \in Seq(PoolInsert) /\ n \in 0 .. n
    BY InsertsNamed
<1>2. WrittenSoFar(w, pool, idx, inserts, n)
    BY <1>1, WrittenPool DEF WritePortSet
<1> HIDE DEF w
<1>3. ASSUME NEW i, NEW port, Names(text, i, port)
      PROVE  /\ << idx, port >> \in DOMAIN w
             /\ \E j : /\ Names(text, j, port)
                       /\ w[<< idx, port >>] = BpfAction(text[j][3])
  <2>1. PICK m \in 1 .. n : inserts[m][1] = port
      BY <1>3, InsertsNamed
  <2>2. << idx, port >> \in DOMAIN w
      BY <1>2, <2>1 DEF WrittenSoFar
  <2>3. PICK l \in 1 .. n : inserts[l][1] = port /\ w[<< idx, port >>] = inserts[l][2]
      BY <1>2, <2>1 DEF WrittenSoFar
  <2>4. PICK j \in 1 .. Len(text) : Names(text, j, inserts[l][1])
                                    /\ inserts[l][2] = BpfAction(text[j][3])
      BY InsertsNamed
  <2>5. QED BY <2>2, <2>3, <2>4
<1>4. QED BY <1>2, <1>3 DEF WrittenSoFar, w

(***************************************************************************)
(* Which texts have the same normal form.                                  *)
(***************************************************************************)
\* Rearranged, in the words of SameParts.
LEMMA SamePartsDef ==
    ASSUME NEW a \in Text, NEW b \in Text
    PROVE  SameParts(a, b) <=> Len(a) = Len(b) /\ Rearranged(a, b, Len(a))
<1>1. DOMAIN a = 1 .. Len(a) /\ DOMAIN b = 1 .. Len(b)
    BY DEF Text
<1>2. ASSUME Len(a) = Len(b)
      PROVE  Bijection(DOMAIN a, DOMAIN b)
                = {f \in [1 .. Len(a) -> 1 .. Len(a)] :
                       /\ \A i, j \in 1 .. Len(a) : f[i] = f[j] => i = j
                       /\ \A m \in 1 .. Len(a) : \E i \in 1 .. Len(a) : f[i] = m}
    BY <1>1, <1>2 DEF Bijection, Injection, Surjection, IsInjective
<1>3. QED BY <1>1, <1>2 DEF SameParts, Rearranged

\* Parsing a valid text tells its parts apart.
LEMMA ParsedApart ==
    ASSUME NEW a \in Text, NEW b \in Text, ValidPorts(a), ValidPorts(b), Len(a) = Len(b)
    PROVE  Rearranged(ParsePorts(a), ParsePorts(b), Len(a)) <=> Rearranged(a, b, Len(a))
<1> DEFINE n == Len(a)
           Part == Nat \X Nat \X Nat
<1>1. \A i \in 1 .. n : /\ a[i] \in Part /\ b[i] \in Part
                        /\ a[i][3] <= 1 /\ b[i][3] <= 1
                        /\ ParsePorts(a)[i] = << a[i][1], a[i][2], BpfAction(a[i][3]) >>
                        /\ ParsePorts(b)[i] = << b[i][1], b[i][2], BpfAction(b[i][3]) >>
  <2>1. DOMAIN a = 1 .. n /\ DOMAIN b = 1 .. n
      BY DEF Text
  <2>2. \A i \in 1 .. n : a[i] \in Part /\ b[i] \in Part
      BY <2>1 DEF Text
  <2>3. \A i \in 1 .. n : a[i][3] <= 1 /\ b[i][3] <= 1
      BY <2>1 DEF ValidPorts
  <2>4. QED BY <2>1, <2>2, <2>3 DEF ParsePorts
<1>2. ASSUME NEW p \in Part, NEW q \in Part, p[3] <= 1, q[3] <= 1
      PROVE  << p[1], p[2], BpfAction(p[3]) >> = << q[1], q[2], BpfAction(q[3]) >> <=> p = q
  <2>1. BpfAction(p[3]) = BpfAction(q[3]) <=> p[3] = q[3]
      BY <1>2 DEF BpfAction
  <2>2. p = << p[1], p[2], p[3] >> /\ q = << q[1], q[2], q[3] >>
      OBVIOUS
  <2>3. QED BY <2>1, <2>2
<1>3. \A i, j \in 1 .. n : ParsePorts(a)[i] = ParsePorts(b)[j] <=> a[i] = b[j]
  <2> HIDE DEF Part, n
  <2>1. ASSUME NEW i \in 1 .. n, NEW j \in 1 .. n
        PROVE  ParsePorts(a)[i] = ParsePorts(b)[j] <=> a[i] = b[j]
    <3>1. /\ a[i] \in Part /\ b[j] \in Part /\ a[i][3] <= 1 /\ b[j][3] <= 1
          /\ ParsePorts(a)[i] = << a[i][1], a[i][2], BpfAction(a[i][3]) >>
          /\ ParsePorts(b)[j] = << b[j][1], b[j][2], BpfAction(b[j][3]) >>
        BY <1>1, Zenon
    <3>2. QED BY <1>2, <3>1
  <2>2. QED BY <2>1
<1> HIDE DEF n
<1>4. \A f \in [1 .. n -> 1 .. n] :
          \A i \in 1 .. n : ParsePorts(a)[i] = ParsePorts(b)[f[i]] <=> a[i] = b[f[i]]
    BY <1>3
<1>5. Rearranged(ParsePorts(a), ParsePorts(b), n) <=> Rearranged(a, b, n)
    BY <1>4 DEF Rearranged
<1>6. QED BY <1>5 DEF n

\* Two valid texts have the same normal form exactly when one is a
\* rearrangement of the other.
LEMMA SameFormIff ==
    ASSUME NEW a \in Text, NEW b \in Text, ValidPorts(a), ValidPorts(b)
    PROVE  Normalize(a) = Normalize(b) <=> SameParts(a, b)
<1> DEFINE N(x) == Normalize(x)
           P(x) == ParsePorts(x)
           n == Len(a)
<1>1. /\ n \in Nat
      /\ N(a) \in Seq(Entry) /\ Len(N(a)) = n /\ Sorted(N(a)) /\ Rearranged(N(a), P(a), n)
      /\ N(b) \in Seq(Entry) /\ Len(N(b)) = Len(b) /\ Sorted(N(b))
      /\ Rearranged(N(b), P(b), Len(b))
    BY NormalizeSorts DEF Text
<1> HIDE DEF N, P, n
<1>2. ASSUME N(a) = N(b)
      PROVE  Len(b) = n /\ Rearranged(P(a), P(b), n)
  <2>1. Len(b) = n
      BY <1>1, <1>2
  <2>2. Rearranged(N(a), P(b), n)
      BY <1>1, <1>2, <2>1
  <2>3. Rearranged(P(a), N(a), n)
      BY <1>1, RearrangedBack
  <2>4. QED BY <1>1, <2>1, <2>2, <2>3, RearrangedTwice
<1>3. ASSUME Len(b) = n, Rearranged(P(a), P(b), n)
      PROVE  N(a) = N(b)
  <2>1. Rearranged(N(a), P(b), n)
      BY <1>1, <1>3, RearrangedTwice
  <2>2. Rearranged(P(b), N(b), n)
      BY <1>1, <1>3, RearrangedBack
  <2>3. Rearranged(N(a), N(b), n)
      BY <1>1, <2>1, <2>2, RearrangedTwice
  <2>4. QED BY <1>1, <1>3, <2>3, SortedUnique
<1>4. ASSUME Len(b) = n
      PROVE  Rearranged(P(a), P(b), n) <=> Rearranged(a, b, n)
    BY <1>4, ParsedApart DEF P, n
<1>5. SameParts(a, b) <=> n = Len(b) /\ Rearranged(a, b, n)
    BY SamePartsDef DEF n
<1>6. QED BY <1>2, <1>3, <1>4, <1>5 DEF N

\* The part of a normal form that a part of the text has become.
LEMMA PartsOfForm ==
    ASSUME NEW text \in Text, NEW n, n = Normalize(text)
    PROVE  /\ \A i \in 1 .. Len(n) : \E j \in 1 .. Len(text) :
                  /\ n[i][1] = text[j][1] /\ n[i][2] = text[j][2]
                  /\ n[i][3] = BpfAction(text[j][3])
           /\ \A j \in 1 .. Len(text) : \E i \in 1 .. Len(n) :
                  /\ n[i][1] = text[j][1] /\ n[i][2] = text[j][2]
                  /\ n[i][3] = BpfAction(text[j][3])
           /\ DOMAIN n = 1 .. Len(n)
<1> DEFINE P == ParsePorts(text)
           N == Len(text)
<1>1. n \in Seq(Entry) /\ Len(n) = N /\ Rearranged(n, P, N)
    BY NormalizeSorts
<1>2. \A j \in 1 .. N : P[j] = << text[j][1], text[j][2], BpfAction(text[j][3]) >>
    BY DEF Text, ParsePorts
<1> HIDE DEF P, N
<1>3. PICK f \in [1 .. N -> 1 .. N] :
          /\ \A m \in 1 .. N : \E i \in 1 .. N : f[i] = m
          /\ \A i \in 1 .. N : n[i] = P[f[i]]
    BY <1>1 DEF Rearranged
<1>4. ASSUME NEW i \in 1 .. N
      PROVE  /\ f[i] \in 1 .. N
             /\ n[i][1] = text[f[i]][1] /\ n[i][2] = text[f[i]][2]
             /\ n[i][3] = BpfAction(text[f[i]][3])
  <2>1. f[i] \in 1 .. N /\ n[i] = P[f[i]]
      BY <1>3
  <2>2. n[i] = << text[f[i]][1], text[f[i]][2], BpfAction(text[f[i]][3]) >>
      BY <1>2, <2>1
  <2>3. QED BY <2>1, <2>2
<1>5. \A j \in 1 .. N : \E i \in 1 .. N : f[i] = j
    BY <1>3
<1>6. DOMAIN n = 1 .. Len(n)
    BY <1>1
<1>7. \A i \in 1 .. N : \E j \in 1 .. N : /\ n[i][1] = text[j][1] /\ n[i][2] = text[j][2]
                                           /\ n[i][3] = BpfAction(text[j][3])
    BY <1>4
<1>8. \A j \in 1 .. N : \E i \in 1 .. N : /\ n[i][1] = text[j][1] /\ n[i][2] = text[j][2]
                                           /\ n[i][3] = BpfAction(text[j][3])
  <2>1. TAKE j \in 1 .. N
  <2>2. PICK i \in 1 .. N : f[i] = j
      BY <1>5
  <2>3. QED BY <1>4, <2>2
<1>9. QED BY <1>1, <1>6, <1>7, <1>8 DEF N

\* A normal form names the ports its text names.
LEMMA PortsOfForm ==
    ASSUME NEW text \in Text
    PROVE  PortsOf(Normalize(text)) = PortsOf(text)
<1> DEFINE n == Normalize(text)
<1>1. /\ \A i \in 1 .. Len(n) : \E j \in 1 .. Len(text) :
             /\ n[i][1] = text[j][1] /\ n[i][2] = text[j][2]
             /\ n[i][3] = BpfAction(text[j][3])
      /\ \A j \in 1 .. Len(text) : \E i \in 1 .. Len(n) :
             /\ n[i][1] = text[j][1] /\ n[i][2] = text[j][2]
             /\ n[i][3] = BpfAction(text[j][3])
      /\ DOMAIN n = 1 .. Len(n)
    BY PartsOfForm
<1> HIDE DEF n
<1>2. /\ \A i \in 1 .. Len(n) : \E j \in 1 .. Len(text) :
             n[i][1] = text[j][1] /\ n[i][2] = text[j][2]
      /\ \A j \in 1 .. Len(text) : \E i \in 1 .. Len(n) :
             n[i][1] = text[j][1] /\ n[i][2] = text[j][2]
      /\ DOMAIN n = 1 .. Len(n)
    BY <1>1
<1>3. DOMAIN text = 1 .. Len(text)
    BY DEF Text
<1>4. ASSUME NEW port \in PortsOf(n)
      PROVE  port \in PortsOf(text)
  <2>1. PICK i \in DOMAIN n : port \in n[i][1] .. n[i][2]
      BY <1>4 DEF PortsOf
  <2>2. PICK j \in 1 .. Len(text) : n[i][1] = text[j][1] /\ n[i][2] = text[j][2]
      BY <1>2, <2>1
  <2>3. j \in DOMAIN text /\ port \in text[j][1] .. text[j][2]
      BY <1>3, <2>1, <2>2
  <2>4. QED BY <2>3 DEF PortsOf
<1>5. ASSUME NEW port \in PortsOf(text)
      PROVE  port \in PortsOf(n)
  <2>1. PICK j \in DOMAIN text : port \in text[j][1] .. text[j][2]
      BY <1>5 DEF PortsOf
  <2>2. PICK i \in 1 .. Len(n) : n[i][1] = text[j][1] /\ n[i][2] = text[j][2]
      BY <1>2, <1>3, <2>1
  <2>3. i \in DOMAIN n /\ port \in n[i][1] .. n[i][2]
      BY <1>2, <2>1, <2>2
  <2>4. QED BY <2>3 DEF PortsOf
<1>6. QED BY <1>4, <1>5 DEF n

\* Nor does it pass a port if the text passes none.
LEMMA FormDenies ==
    ASSUME NEW text \in Text, ValidPorts(text), \A i \in DOMAIN text : text[i][3] # 0
    PROVE  ValidPorts(Normalize(text)) /\ \A i \in DOMAIN Normalize(text) : Normalize(text)[i][3] # 0
<1> DEFINE n == Normalize(text)
<1>1. /\ \A i \in 1 .. Len(n) : \E j \in 1 .. Len(text) :
             /\ n[i][1] = text[j][1] /\ n[i][2] = text[j][2]
             /\ n[i][3] = BpfAction(text[j][3])
      /\ DOMAIN n = 1 .. Len(n)
    BY PartsOfForm
<1> HIDE DEF n
<1>2. DOMAIN text = 1 .. Len(text)
    BY DEF Text
<1>3. ASSUME NEW i \in DOMAIN n
      PROVE  n[i][1] <= n[i][2] /\ n[i][3] = 1
  <2>1. PICK j \in 1 .. Len(text) : /\ n[i][1] = text[j][1] /\ n[i][2] = text[j][2]
                                   /\ n[i][3] = BpfAction(text[j][3])
      BY <1>1
  <2>2. text[j][1] <= text[j][2] /\ text[j][3] # 0
      BY <1>2 DEF ValidPorts
  <2>3. QED BY <2>1, <2>2 DEF BpfAction
<1>4. QED BY <1>3 DEF ValidPorts, n

\* Every port of the set n is in the pool under idx, with the value of one of
\* the parts of n that name it.
SetWritten(pool, idx, n) ==
    \A i \in DOMAIN n : \A port \in n[i][1] .. n[i][2] :
        /\ << idx, port >> \in DOMAIN pool
        /\ \E j \in DOMAIN n : /\ port \in n[j][1] .. n[j][2]
                               /\ pool[<< idx, port >>] = n[j][3]

\* That is so after the text of the set was written.
LEMMA FormWritten ==
    ASSUME NEW pool \in Pools, NEW idx \in Nat, NEW text \in Text, ValidPorts(text)
    PROVE  SetWritten(WritePortSet(pool, idx, text), idx, Normalize(text))
<1> DEFINE n == Normalize(text)
           w == WritePortSet(pool, idx, text)
<1>1. \A i, port : Names(text, i, port) =>
          /\ << idx, port >> \in DOMAIN w
          /\ \E j : /\ Names(text, j, port)
                    /\ w[<< idx, port >>] = BpfAction(text[j][3])
    BY PortSetWritten
<1>2. /\ \A i \in 1 .. Len(n) : \E j \in 1 .. Len(text) :
             /\ n[i][1] = text[j][1] /\ n[i][2] = text[j][2]
             /\ n[i][3] = BpfAction(text[j][3])
      /\ \A j \in 1 .. Len(text) : \E i \in 1 .. Len(n) :
             /\ n[i][1] = text[j][1] /\ n[i][2] = text[j][2]
             /\ n[i][3] = BpfAction(text[j][3])
      /\ DOMAIN n = 1 .. Len(n)
    BY PartsOfForm
<1>3. SUFFICES SetWritten(w, idx, n)
    OBVIOUS
<1> HIDE DEF n, w
<1>4. DOMAIN n = 1 .. Len(n)
    BY <1>2
<1>5. SUFFICES ASSUME NEW i \in DOMAIN n, NEW port \in n[i][1] .. n[i][2]
               PROVE  /\ << idx, port >> \in DOMAIN w
                      /\ \E j \in DOMAIN n : /\ port \in n[j][1] .. n[j][2]
                                             /\ w[<< idx, port >>] = n[j][3]
    BY DEF SetWritten
<1>6. PICK j \in 1 .. Len(text) : n[i][1] = text[j][1] /\ n[i][2] = text[j][2]
    BY <1>2, <1>5
<1>7. Names(text, j, port)
    BY <1>5, <1>6 DEF Names
<1>8. PICK l : Names(text, l, port) /\ w[<< idx, port >>] = BpfAction(text[l][3])
    BY <1>1, <1>7
<1>9. PICK m \in 1 .. Len(n) : /\ n[m][1] = text[l][1] /\ n[m][2] = text[l][2]
                               /\ n[m][3] = BpfAction(text[l][3])
    BY <1>2, <1>8 DEF Names
<1>10. port \in n[m][1] .. n[m][2]
    BY <1>8, <1>9 DEF Names
<1>11. << idx, port >> \in DOMAIN w
    BY <1>1, <1>7
<1>12. QED BY <1>4, <1>8, <1>9, <1>10, <1>11

\* The verdicts a text asks for are stored values.
LEMMA MeaningType ==
    ASSUME NEW text \in Text, ValidPorts(text), NEW port \in PortsOf(text)
    PROVE  port \in Nat /\ Meaning(text)[port] \in {1, 2}
<1> DEFINE own == WritePortSet(<< >>, 0, text)
<1>1. << >> \in Pools
  <2>1. << >> \in [{} -> {1, 2}] /\ {} \in SUBSET PoolKeys
      OBVIOUS
  <2>2. QED BY <2>1 DEF Pools, PartialMaps
<1>2. PICK i \in DOMAIN text : port \in text[i][1] .. text[i][2]
    BY DEF PortsOf
<1>3. i \in 1 .. Len(text) /\ text[i] \in Nat \X Nat \X Nat
    BY DEF Text
<1>4. Names(text, i, port)
    BY <1>2, <1>3 DEF Names
<1>5. PICK j : own[<< 0, port >>] = BpfAction(text[j][3])
    BY <1>1, <1>4, PortSetWritten
<1>6. Meaning(text)[port] = own[<< 0, port >>]
    BY DEF Meaning
<1>7. QED BY <1>2, <1>3, <1>5, <1>6 DEF BpfAction

\* A set is written where its ports have the verdicts its text asks for.
LEMMA MeaningWritten ==
    ASSUME NEW text \in Text, ValidPorts(text), NEW pool, NEW idx,
           \A port \in PortsOf(text) : /\ << idx, port >> \in DOMAIN pool
                                       /\ pool[<< idx, port >>] = Meaning(text)[port]
    PROVE  SetWritten(pool, idx, Normalize(text))
<1> DEFINE own == WritePortSet(<< >>, 0, text)
           n   == Normalize(text)
<1>1. << >> \in Pools
  <2>1. << >> \in [{} -> {1, 2}] /\ {} \in SUBSET PoolKeys
      OBVIOUS
  <2>2. QED BY <2>1 DEF Pools, PartialMaps
<1>2. SetWritten(own, 0, n)
    BY <1>1, FormWritten
<1>3. /\ \A i \in 1 .. Len(n) : \E j \in 1 .. Len(text) :
             /\ n[i][1] = text[j][1] /\ n[i][2] = text[j][2]
             /\ n[i][3] = BpfAction(text[j][3])
      /\ DOMAIN n = 1 .. Len(n)
    BY PartsOfForm
<1>4. \A port \in PortsOf(text) : Meaning(text)[port] = own[<< 0, port >>]
    BY DEF Meaning
<1>5. SUFFICES SetWritten(pool, idx, n)
    OBVIOUS
<1> HIDE DEF own, n
<1>6. SUFFICES ASSUME NEW i \in DOMAIN n, NEW port \in n[i][1] .. n[i][2]
               PROVE  /\ << idx, port >> \in DOMAIN pool
                      /\ \E j \in DOMAIN n : /\ port \in n[j][1] .. n[j][2]
                                             /\ pool[<< idx, port >>] = n[j][3]
    BY DEF SetWritten
<1>7. port \in PortsOf(text)
  <2>1. PICK j \in 1 .. Len(text) : n[i][1] = text[j][1] /\ n[i][2] = text[j][2]
      BY <1>3, <1>6
  <2>2. j \in DOMAIN text
      BY DEF Text
  <2>3. port \in text[j][1] .. text[j][2]
      BY <1>6, <2>1
  <2>4. QED BY <2>2, <2>3 DEF PortsOf
<1>8. PICK j \in DOMAIN n : /\ port \in n[j][1] .. n[j][2]
                            /\ own[<< 0, port >>] = n[j][3]
    BY <1>2, <1>6 DEF SetWritten
<1>9. QED BY <1>4, <1>7, <1>8

\* Rules share a port set exactly when their texts have the same parts.
LEMMA ShareIff ==
    ASSUME IInv, NEW k \in Filtering, NEW l \in Filtering
    PROVE  /\ TextOf(k) \in Text /\ ValidPorts(TextOf(k))
           /\ TextOf(l) \in Text /\ ValidPorts(TextOf(l))
           /\ Share(k, l) <=> SameParts(TextOf(k), TextOf(l))
<1>1. table \in Tables /\ RulesFindTheirSet(table) /\ OneSetPerIdx(table)
    BY IInvDef DEF Consistent
<1>2. ASSUME NEW m \in Filtering
      PROVE  /\ TextOf(m) \in Text /\ ValidPorts(TextOf(m))
             /\ Normalize(TextOf(m)) \in DOMAIN table.port_sets
             /\ table.rules[m].bitmap_idx = table.port_sets[Normalize(TextOf(m))].bitmap_idx
  <2>1. m \in DOMAIN table.rules /\ table.rules[m].ports # AllPorts
      BY DEF Filtering
  <2>2. table.rules[m] \in RuleInfo
      BY <1>1, <2>1, TableFields
  <2>3. TextOf(m) \in Text
      BY <2>2, TextsAssumption DEF RuleInfo, TextOf, Text
  <2>4. QED BY <1>1, <2>1, <2>3 DEF RulesFindTheirSet, TextOf
<1>3. Share(k, l) <=> Normalize(TextOf(k)) = Normalize(TextOf(l))
    BY <1>1, <1>2 DEF OneSetPerIdx, Share
<1>4. QED BY <1>2, <1>3, SameFormIff

\* Sharing tells apart what the texts say, and nothing else.
THEOREM SharedBySameParts == Spec => []SameFormSameParts
<1>1. IInv => SameFormSameParts
    BY ShareIff DEF SameFormSameParts
<1>2. QED BY <1>1, TableConsistent, PTL

\* Of a text that names no port twice, the one part that names a port decides.
LEMMA DisjointMeaning ==
    ASSUME NEW text \in Text, ValidPorts(text), DisjointParts(text)
    PROVE  /\ Meaning(text) = [port \in PortsOf(text) |-> Meaning(text)[port]]
           /\ \A i, port : Names(text, i, port) =>
                  port \in PortsOf(text) /\ Meaning(text)[port] = BpfAction(text[i][3])
           /\ \A port \in PortsOf(text) : \E i : Names(text, i, port)
<1> DEFINE own == WritePortSet(<< >>, 0, text)
<1>1. << >> \in Pools
  <2>1. << >> \in [{} -> {1, 2}] /\ {} \in SUBSET PoolKeys
      OBVIOUS
  <2>2. QED BY <2>1 DEF Pools, PartialMaps
<1>2. \A i, port : Names(text, i, port) =>
          \E j : Names(text, j, port) /\ own[<< 0, port >>] = BpfAction(text[j][3])
    BY <1>1, PortSetWritten
<1> HIDE DEF own
<1>3. DOMAIN text = 1 .. Len(text)
      /\ \A i \in 1 .. Len(text) : text[i] \in Nat \X Nat \X Nat
    BY DEF Text
<1>4. ASSUME NEW i, NEW j, NEW port, Names(text, i, port), Names(text, j, port)
      PROVE  i = j
  <2>1. /\ i \in DOMAIN text /\ j \in DOMAIN text /\ port \in Int
        /\ text[i] \in Nat \X Nat \X Nat /\ text[j] \in Nat \X Nat \X Nat
        /\ text[i][1] <= port /\ port <= text[i][2]
        /\ text[j][1] <= port /\ port <= text[j][2]
      BY <1>3, <1>4 DEF Names
  <2>2. ~(text[i][2] < text[j][1]) /\ ~(text[j][2] < text[i][1])
      BY <2>1
  <2>3. QED BY <2>1, <2>2 DEF DisjointParts
<1>5. \A port : port \in PortsOf(text) <=> \E i : Names(text, i, port)
    BY <1>3 DEF PortsOf, Names
<1>6. Meaning(text) = [port \in PortsOf(text) |-> own[<< 0, port >>]]
    BY DEF Meaning, own
<1>7. ASSUME NEW i, NEW port, Names(text, i, port)
      PROVE  port \in PortsOf(text) /\ Meaning(text)[port] = BpfAction(text[i][3])
  <2>1. PICK j : Names(text, j, port) /\ own[<< 0, port >>] = BpfAction(text[j][3])
      BY <1>2, <1>7
  <2>2. j = i
      BY <1>4, <1>7, <2>1
  <2>3. QED BY <1>5, <1>6, <1>7, <2>1, <2>2
<1>8. QED BY <1>5, <1>6, <1>7

\* Rearranging the parts of a text keeps them apart.
LEMMA SamePartsNames ==
    ASSUME NEW a \in Text, NEW b \in Text, SameParts(a, b)
    PROVE  /\ \A i, port : Names(a, i, port) =>
                  \E j : Names(b, j, port) /\ b[j][3] = a[i][3]
           /\ \A j, port : Names(b, j, port) =>
                  \E i : Names(a, i, port) /\ b[j][3] = a[i][3]
           /\ DisjointParts(a) => DisjointParts(b)
<1> DEFINE n == Len(a)
<1>1. n = Len(b) /\ Rearranged(a, b, n) /\ DOMAIN a = 1 .. n /\ DOMAIN b = 1 .. n
    BY SamePartsDef DEF Text
<1> HIDE DEF n
<1>2. PICK f \in [1 .. n -> 1 .. n] :
          /\ \A i, j \in 1 .. n : f[i] = f[j] => i = j
          /\ \A m \in 1 .. n : \E i \in 1 .. n : f[i] = m
          /\ \A i \in 1 .. n : a[i] = b[f[i]]
    BY <1>1 DEF Rearranged
<1>3. \A i \in 1 .. n : f[i] \in 1 .. n /\ a[i] = b[f[i]]
    BY <1>2
<1>4. \A j \in 1 .. n : \E i \in 1 .. n : f[i] = j /\ a[i] = b[j]
    BY <1>2
<1>5. \A i, port : Names(a, i, port) => \E j : Names(b, j, port) /\ b[j][3] = a[i][3]
    BY <1>1, <1>3 DEF Names, n
<1>6. \A j, port : Names(b, j, port) => \E i : Names(a, i, port) /\ b[j][3] = a[i][3]
    BY <1>1, <1>4 DEF Names, n
<1>7. ASSUME DisjointParts(a), NEW j \in 1 .. n, NEW m \in 1 .. n, j # m
      PROVE  b[j][2] < b[m][1] \/ b[m][2] < b[j][1]
  <2>1. PICK i \in 1 .. n : f[i] = j /\ a[i] = b[j]
      BY <1>4
  <2>2. PICK l \in 1 .. n : f[l] = m /\ a[l] = b[m]
      BY <1>4
  <2>3. a[i][2] < a[l][1] \/ a[l][2] < a[i][1]
      BY <1>1, <1>7, <2>1, <2>2 DEF DisjointParts
  <2>4. QED BY <2>1, <2>2, <2>3
<1>8. QED BY <1>1, <1>5, <1>6, <1>7 DEF DisjointParts

\* The ports the first rule wrote for a text that names no port twice are
\* right for every rule that shares its port set.
THEOREM SharedTextsAgree == Spec => []DisjointTextsShareSafely
<1>1. ASSUME IInv, NEW k \in Filtering, NEW l \in Filtering,
             Share(k, l), DisjointParts(TextOf(k))
      PROVE  Meaning(TextOf(k)) = Meaning(TextOf(l))
  <2> DEFINE a == TextOf(k)
             b == TextOf(l)
  <2>1. a \in Text /\ ValidPorts(a) /\ b \in Text /\ ValidPorts(b) /\ SameParts(a, b)
      BY <1>1, ShareIff
  <2> HIDE DEF a, b
  <2>2. /\ \A i, port : Names(a, i, port) =>
               \E j : Names(b, j, port) /\ b[j][3] = a[i][3]
        /\ \A j, port : Names(b, j, port) =>
               \E i : Names(a, i, port) /\ b[j][3] = a[i][3]
        /\ DisjointParts(a) /\ DisjointParts(b)
      BY <1>1, <2>1, SamePartsNames DEF a
  <2>3. /\ Meaning(a) = [port \in PortsOf(a) |-> Meaning(a)[port]]
        /\ \A i, port : Names(a, i, port) =>
               port \in PortsOf(a) /\ Meaning(a)[port] = BpfAction(a[i][3])
        /\ \A port \in PortsOf(a) : \E i : Names(a, i, port)
      BY <2>1, <2>2, DisjointMeaning
  <2>4. /\ Meaning(b) = [port \in PortsOf(b) |-> Meaning(b)[port]]
        /\ \A i, port : Names(b, i, port) =>
               port \in PortsOf(b) /\ Meaning(b)[port] = BpfAction(b[i][3])
        /\ \A port \in PortsOf(b) : \E i : Names(b, i, port)
      BY <2>1, <2>2, DisjointMeaning
  <2>5. PortsOf(a) = PortsOf(b)
    <3>1. \A port \in PortsOf(a) : port \in PortsOf(b)
        BY <2>2, <2>3, <2>4
    <3>2. \A port \in PortsOf(b) : port \in PortsOf(a)
        BY <2>2, <2>3, <2>4
    <3>3. QED BY <3>1, <3>2
  <2>6. \A port \in PortsOf(a) : Meaning(a)[port] = Meaning(b)[port]
    <3>1. TAKE port \in PortsOf(a)
    <3>2. PICK i : Names(a, i, port)
        BY <2>3
    <3>3. PICK j : Names(b, j, port) /\ b[j][3] = a[i][3]
        BY <2>2, <3>2
    <3>4. Meaning(a)[port] = BpfAction(a[i][3]) /\ Meaning(b)[port] = BpfAction(b[j][3])
        BY <2>3, <2>4, <3>2, <3>3
    <3>5. QED BY <3>3, <3>4
  <2>7. Meaning(a) = Meaning(b)
      BY <2>3, <2>4, <2>5, <2>6
  <2>8. QED BY <2>7 DEF a, b
<1>2. IInv => DisjointTextsShareSafely
    BY <1>1 DEF DisjointTextsShareSafely
<1>3. QED BY <1>2, TableConsistent, PTL
=============================================================================
