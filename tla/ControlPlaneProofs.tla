------------------------- MODULE ControlPlaneProofs -------------------------
(***************************************************************************)
(* What the handlers keep in step whatever kernel calls fail, and that     *)
(* their snapshots and rollbacks leave a RuleTable, for all groups,        *)
(* requests, limits and bounds.                                            *)
(***************************************************************************)
EXTENDS ControlPlane, FiniteSetTheorems, TLAPS

\* The lemmas and theorems about the rule table.
RT == INSTANCE RuleTableProofs WITH max_port_policies <- MaxPortPolicies,
                                    Limits <- {MaxPortPolicies}

(***************************************************************************)
(* Groups                                                                  *)
(***************************************************************************)

Names == {r[1] : r \in GroupRequests}
Groups == [id : Nat, cidrs : SUBSET Cidrs]

\* The partial maps from S to T.
PartialMaps(S, T) == UNION {[D -> T] : D \in SUBSET S}

Directories == [groups : PartialMaps(Names, Groups), next_group_id : Nat \ {0}]

\* A directory whose ids are distinct and below the next one.
GoodGroup(info, next) ==
    /\ info \in Groups
    /\ info.id \in 1 .. next - 1
    /\ IsFiniteSet(info.cidrs)

GoodDirectory(g) ==
    /\ g \in Directories
    /\ \A n \in DOMAIN g.groups : GoodGroup(g.groups[n], g.next_group_id)
    /\ \A m, n \in DOMAIN g.groups : g.groups[m].id = g.groups[n].id => m = n

\* Inserting keeps a partial map one.
LEMMA InsertType ==
    ASSUME NEW S, NEW T, NEW f \in PartialMaps(S, T), NEW x \in S, NEW v \in T
    PROVE  Insert(f, x, v) \in PartialMaps(S, T)
<1>1. PICK D \in SUBSET S : f \in [D -> T]
    BY DEF PartialMaps
<1>2. D \cup {x} \in SUBSET S /\ Insert(f, x, v) \in [D \cup {x} -> T]
    BY <1>1 DEF Insert
<1>3. QED BY <1>2 DEF PartialMaps

\* Overwriting the value of a key keeps a partial map one.
LEMMA ExceptType ==
    ASSUME NEW S, NEW T, NEW f \in PartialMaps(S, T), NEW x, NEW v \in T
    PROVE  [f EXCEPT ![x] = v] \in PartialMaps(S, T)
<1>1. PICK D \in SUBSET S : f \in [D -> T]
    BY DEF PartialMaps
<1>2. [f EXCEPT ![x] = v] \in [D -> T]
    BY <1>1
<1>3. QED BY <1>2 DEF PartialMaps

\* Removing keys keeps a partial map one.
LEMMA RestrictType ==
    ASSUME NEW S, NEW T, NEW f \in PartialMaps(S, T), NEW D, D \subseteq DOMAIN f
    PROVE  Restrict(f, D) \in PartialMaps(S, T)
<1>1. DOMAIN f \in SUBSET S /\ f \in [DOMAIN f -> T]
    BY DEF PartialMaps
<1>2. D \in SUBSET S /\ Restrict(f, D) \in [D -> T]
    BY <1>1 DEF Restrict
<1>3. QED BY <1>2 DEF PartialMaps

\* The parts of a good directory, one by one.
LEMMA DirectoryParts ==
    ASSUME NEW g, GoodDirectory(g)
    PROVE  /\ g.groups \in PartialMaps(Names, Groups)
           /\ g.next_group_id \in Nat \ {0}
           /\ \A n \in DOMAIN g.groups :
                  /\ n \in Names
                  /\ g.groups[n] \in Groups
                  /\ g.groups[n].id \in 1 .. g.next_group_id - 1
                  /\ g.groups[n].cidrs \in SUBSET Cidrs
                  /\ IsFiniteSet(g.groups[n].cidrs)
           /\ \A m, n \in DOMAIN g.groups : g.groups[m].id = g.groups[n].id => m = n
<1>1. g.groups \in PartialMaps(Names, Groups) /\ g.next_group_id \in Nat \ {0}
    BY DEF GoodDirectory, Directories
<1>2. DOMAIN g.groups \subseteq Names
    BY <1>1 DEF PartialMaps
<1>3. \A n \in DOMAIN g.groups : GoodGroup(g.groups[n], g.next_group_id)
    BY DEF GoodDirectory
<1>4. QED BY <1>1, <1>2, <1>3 DEF GoodDirectory, GoodGroup, Groups

\* add_group on a name that has no group hands out the next id.
LEMMA NewGroupAdded ==
    ASSUME NEW g, GoodDirectory(g), NEW name \in Names, name \notin DOMAIN g.groups,
           NEW cidr \in Cidrs
    PROVE  LET added == ApplyAddGroup(g, name, cidr)
           IN  /\ GoodDirectory(added)
               /\ added.groups = Insert(g.groups, name,
                                        [id |-> g.next_group_id, cidrs |-> {cidr}])
               /\ added.next_group_id = g.next_group_id + 1
<1> DEFINE added == ApplyAddGroup(g, name, cidr)
           info  == [id |-> g.next_group_id, cidrs |-> {cidr}]
<1>1. g.next_group_id \in Nat \ {0}
    BY DirectoryParts
<1>2. info \in Groups
    BY <1>1 DEF Groups
<1>3. Insert(g.groups, name, info) \in PartialMaps(Names, Groups)
    BY <1>2, DirectoryParts, InsertType
<1>11. added = [g EXCEPT !.groups = Insert(g.groups, name, info),
                        !.next_group_id = g.next_group_id + 1]
    BY DEF ApplyAddGroup
<1>12. g \in Directories /\ g.next_group_id + 1 \in Nat \ {0}
    BY <1>1 DEF GoodDirectory
<1> HIDE DEF added, info
<1>4. /\ added \in Directories
      /\ added.groups = Insert(g.groups, name, info)
      /\ added.next_group_id = g.next_group_id + 1
    BY <1>11, <1>12, <1>3 DEF Directories
<1> USE DEF info
<1>5. /\ DOMAIN added.groups = DOMAIN g.groups \cup {name}
      /\ added.groups[name] = info
      /\ \A n \in DOMAIN g.groups : added.groups[n] = g.groups[n]
    BY <1>4 DEF Insert
<1>6. GoodGroup(info, added.next_group_id)
    <2>1. IsFiniteSet(info.cidrs)
        BY FS_Singleton
    <2>2. QED BY <2>1, <1>1, <1>2, <1>4 DEF GoodGroup
<1>7. \A n \in DOMAIN added.groups : GoodGroup(added.groups[n], added.next_group_id)
    <2>1. ASSUME NEW n \in DOMAIN g.groups
          PROVE  GoodGroup(added.groups[n], added.next_group_id)
        <3>1. added.groups[n] = g.groups[n] /\ GoodGroup(g.groups[n], g.next_group_id)
            BY <1>5 DEF GoodDirectory
        <3>2. QED BY <3>1, <1>1, <1>4 DEF GoodGroup
    <2>2. QED BY <2>1, <1>5, <1>6
<1>8. \A m, n \in DOMAIN added.groups : added.groups[m].id = added.groups[n].id => m = n
    <2>1. added.groups[name].id = g.next_group_id
        BY <1>5
    <2>2. \A n \in DOMAIN g.groups : added.groups[n].id # g.next_group_id
        BY <1>1, <1>5, DirectoryParts
    <2>3. \A m, n \in DOMAIN g.groups : added.groups[m].id = added.groups[n].id => m = n
        BY <1>5, DirectoryParts
    <2>4. QED BY <1>5, <2>1, <2>2, <2>3
<1>9. GoodDirectory(added)
    BY <1>4, <1>7, <1>8 DEF GoodDirectory
<1>10. QED BY <1>4, <1>9 DEF added

\* add_group on an existing name adds the CIDR and changes no id.
LEMMA GroupExtended ==
    ASSUME NEW g, GoodDirectory(g), NEW name \in DOMAIN g.groups, NEW cidr \in Cidrs
    PROVE  LET added == ApplyAddGroup(g, name, cidr)
           IN  /\ GoodDirectory(added)
               /\ DOMAIN added.groups = DOMAIN g.groups
               /\ \A n \in DOMAIN g.groups :
                      /\ added.groups[n].id = g.groups[n].id
                      /\ n # name => added.groups[n] = g.groups[n]
               /\ added.groups[name].cidrs = g.groups[name].cidrs \cup {cidr}
               /\ added.next_group_id = g.next_group_id
<1> DEFINE added == ApplyAddGroup(g, name, cidr)
           old   == g.groups[name]
           info  == [old EXCEPT !.cidrs = @ \cup {cidr}]
<1>1. /\ old \in Groups
      /\ old.id \in 1 .. g.next_group_id - 1
      /\ IsFiniteSet(old.cidrs)
    BY DirectoryParts
<1> HIDE DEF old
<1>2. info \in Groups /\ info.id = old.id /\ info.cidrs = old.cidrs \cup {cidr}
    BY <1>1 DEF Groups
<1>3. added = [g EXCEPT !.groups = [g.groups EXCEPT ![name] = info]]
    BY DEF ApplyAddGroup, old
<1> HIDE DEF info
<1>4. [g.groups EXCEPT ![name] = info] \in PartialMaps(Names, Groups)
    BY <1>2, DirectoryParts, ExceptType
<1> HIDE DEF added
<1>5. /\ added \in Directories
      /\ added.groups = [g.groups EXCEPT ![name] = info]
      /\ added.next_group_id = g.next_group_id
    BY <1>3, <1>4 DEF GoodDirectory, Directories
<1>6. /\ DOMAIN added.groups = DOMAIN g.groups
      /\ added.groups[name] = info
      /\ \A n \in DOMAIN g.groups : n # name => added.groups[n] = g.groups[n]
    BY <1>5
<1>7. \A n \in DOMAIN g.groups : added.groups[n].id = g.groups[n].id
    BY <1>2, <1>6 DEF old
<1>8. IsFiniteSet(info.cidrs)
    BY <1>1, <1>2, FS_AddElement
<1>9. GoodGroup(info, g.next_group_id)
    BY <1>1, <1>2, <1>8 DEF GoodGroup
<1>10. \A n \in DOMAIN added.groups : GoodGroup(added.groups[n], added.next_group_id)
    BY <1>5, <1>6, <1>9 DEF GoodDirectory
<1>11. GoodDirectory(added)
    BY <1>5, <1>6, <1>7, <1>10 DEF GoodDirectory
<1>12. QED BY <1>2, <1>5, <1>6, <1>7, <1>11 DEF added, old

\* Deleting a group leaves the others as they are.
LEMMA GroupDeleted ==
    ASSUME NEW g, GoodDirectory(g), NEW name
    PROVE  LET left == ApplyDeleteGroup(g, name)
           IN  /\ GoodDirectory(left)
               /\ DOMAIN left.groups = DOMAIN g.groups \ {name}
               /\ \A n \in DOMAIN left.groups : left.groups[n] = g.groups[n]
               /\ left.next_group_id = g.next_group_id
<1> DEFINE left == ApplyDeleteGroup(g, name)
           rest == Restrict(g.groups, DOMAIN g.groups \ {name})
<1>1. rest \in PartialMaps(Names, Groups)
    BY DirectoryParts, RestrictType
<1>2. /\ DOMAIN rest = DOMAIN g.groups \ {name}
      /\ \A n \in DOMAIN rest : rest[n] = g.groups[n]
    BY DEF Restrict
<1>3. left = [g EXCEPT !.groups = rest]
    BY DEF ApplyDeleteGroup
<1> HIDE DEF rest, left
<1>4. left \in Directories /\ left.groups = rest /\ left.next_group_id = g.next_group_id
    BY <1>1, <1>3 DEF GoodDirectory, Directories
<1>5. GoodDirectory(left)
    BY <1>2, <1>4 DEF GoodDirectory
<1>6. QED BY <1>2, <1>4, <1>5 DEF left

\* The rollback of add_group gives an id that was handed out back, and leaves
\* a good directory.
LEMMA AddUndone ==
    ASSUME NEW g, GoodDirectory(g), NEW name \in Names, NEW cidr \in Cidrs
    PROVE  LET added  == ApplyAddGroup(g, name, cidr)
               undone == RollbackAddGroup(added, name, cidr, name \notin DOMAIN g.groups)
           IN  /\ GoodDirectory(undone)
               /\ undone.next_group_id = g.next_group_id
<1> DEFINE added  == ApplyAddGroup(g, name, cidr)
           wasNew == name \notin DOMAIN g.groups
           undone == RollbackAddGroup(added, name, cidr, wasNew)
           left   == ApplyDeleteGroup(added, name)
<1>1. GoodDirectory(added) /\ name \in DOMAIN added.groups
    <2>1. CASE wasNew
        <3>1. /\ GoodDirectory(added)
              /\ added.groups = Insert(g.groups, name,
                                       [id |-> g.next_group_id, cidrs |-> {cidr}])
            BY <2>1, NewGroupAdded
        <3>2. QED BY <3>1 DEF Insert
    <2>2. CASE ~wasNew
        BY <2>2, GroupExtended
    <2>3. QED BY <2>1, <2>2
<1>2. /\ GoodDirectory(left)
      /\ DOMAIN left.groups = DOMAIN added.groups \ {name}
      /\ \A n \in DOMAIN left.groups : left.groups[n] = added.groups[n]
      /\ left.next_group_id = added.next_group_id
    BY <1>1, GroupDeleted
<1>3. CASE wasNew
    <2>1. /\ added.groups = Insert(g.groups, name, [id |-> g.next_group_id, cidrs |-> {cidr}])
          /\ added.next_group_id = g.next_group_id + 1
        BY <1>3, NewGroupAdded
    <2>2. added.groups[name].cidrs = {cidr}
        BY <2>1 DEF Insert
    <2>3. undone = [left EXCEPT !.next_group_id = @ - 1]
        BY <1>3, <2>2 DEF RollbackAddGroup
    <2> HIDE DEF left, added, undone
    <2>4. g.next_group_id \in Nat \ {0}
        BY DirectoryParts
    <2>5. /\ undone \in Directories
          /\ undone.groups = left.groups
          /\ undone.next_group_id = g.next_group_id
        BY <1>2, <2>1, <2>3, <2>4 DEF GoodDirectory, Directories
    <2>6. \A n \in DOMAIN left.groups : n \in DOMAIN g.groups /\ left.groups[n] = g.groups[n]
        BY <1>2, <2>1 DEF Insert
    <2>7. \A n \in DOMAIN undone.groups : GoodGroup(undone.groups[n], undone.next_group_id)
        BY <2>5, <2>6 DEF GoodDirectory
    <2>8. \A m, n \in DOMAIN left.groups : left.groups[m].id = left.groups[n].id => m = n
        BY <1>2, DirectoryParts
    <2>9. GoodDirectory(undone)
        BY <2>5, <2>7, <2>8 DEF GoodDirectory
    <2>10. QED BY <2>5, <2>9 DEF undone, added
<1>4. CASE ~wasNew
    <2>1. added.next_group_id = g.next_group_id
        BY <1>4, GroupExtended
    <2>2. CASE added.groups[name].cidrs \subseteq {cidr}
        <3>1. undone = [left EXCEPT !.next_group_id = @]
            BY <1>4, <2>2 DEF RollbackAddGroup
        <3> HIDE DEF left
        <3>2. undone = left
            BY <3>1, <1>2 DEF GoodDirectory, Directories
        <3>3. QED BY <3>2, <2>1, <1>2
    <2>3. CASE ~(added.groups[name].cidrs \subseteq {cidr})
        <3> DEFINE old  == added.groups[name]
                   info == [old EXCEPT !.cidrs = @ \ {cidr}]
        <3>1. /\ old \in Groups
              /\ old.id \in 1 .. added.next_group_id - 1
              /\ IsFiniteSet(old.cidrs)
            BY <1>1, DirectoryParts
        <3>2. undone = [added EXCEPT !.groups = [added.groups EXCEPT ![name] = info]]
            BY <2>3 DEF RollbackAddGroup
        <3> HIDE DEF old, added
        <3>3. info \in Groups /\ info.id = old.id /\ info.cidrs = old.cidrs \ {cidr}
            BY <3>1 DEF Groups
        <3> HIDE DEF info, undone
        <3>4. [added.groups EXCEPT ![name] = info] \in PartialMaps(Names, Groups)
            BY <1>1, <3>3, DirectoryParts, ExceptType
        <3>5. /\ undone \in Directories
              /\ undone.groups = [added.groups EXCEPT ![name] = info]
              /\ undone.next_group_id = added.next_group_id
            BY <1>1, <3>2, <3>4 DEF GoodDirectory, Directories
        <3>6. /\ DOMAIN undone.groups = DOMAIN added.groups
              /\ undone.groups[name] = info
              /\ \A n \in DOMAIN added.groups : n # name => undone.groups[n] = added.groups[n]
            BY <1>1, <3>5
        <3>7. IsFiniteSet(info.cidrs)
            BY <3>1, <3>3, FS_Subset
        <3>8. GoodGroup(info, added.next_group_id)
            BY <3>1, <3>3, <3>7 DEF GoodGroup
        <3>9. \A n \in DOMAIN undone.groups : GoodGroup(undone.groups[n], undone.next_group_id)
            BY <1>1, <3>5, <3>6, <3>8 DEF GoodDirectory
        <3>10. \A n \in DOMAIN added.groups : undone.groups[n].id = added.groups[n].id
            BY <3>3, <3>6 DEF old
        <3>11. \A m, n \in DOMAIN undone.groups :
                   undone.groups[m].id = undone.groups[n].id => m = n
            BY <1>1, <3>6, <3>10, DirectoryParts
        <3>12. GoodDirectory(undone)
            BY <3>5, <3>9, <3>11 DEF GoodDirectory
        <3>13. QED BY <2>1, <3>5, <3>12 DEF undone, added
    <2>4. QED BY <2>2, <2>3
<1>5. QED BY <1>3, <1>4
(***************************************************************************)
(* The rule table.  RT!Op, the operator of the instantiated module, is Op  *)
(* itself.                                                                 *)
(***************************************************************************)

\* There are finitely many rule keys, as the lemmas about the table assume.
LEMMA TableAssumptions ==
    RT!RuleKeysAssumption /\ RT!LimitsAssumption /\ RT!TextsAssumption
<1> DEFINE Ids    == 0 .. MaxGroupId
           Protos == {r[3] : r \in PolicyRequests}
           Dirs   == {r[4] : r \in PolicyRequests}
           f      == [r \in PolicyRequests |-> r[3]]
           g      == [r \in PolicyRequests |-> r[4]]
           Nested == (Ids \X Ids) \X (Protos \X Dirs)
           h      == [x \in Nested |-> << x[1][1], x[1][2], x[2][1], x[2][2] >>]
<1>1. f \in Surjection(PolicyRequests, Protos) /\ g \in Surjection(PolicyRequests, Dirs)
    BY DEF Surjection
<1> HIDE DEF f, g
<1>2. IsFiniteSet(Protos) /\ IsFiniteSet(Dirs)
    BY <1>1, PoliciesAssumption, FS_Surjection
<1>3. IsFiniteSet(Ids)
    BY BoundsAssumption, FS_Interval
<1>4. h \in Surjection(Nested, RuleKeys)
    <2>1. h \in [Nested -> RuleKeys]
        BY DEF RuleKeys
    <2>2. ASSUME NEW k \in RuleKeys
          PROVE  \E x \in Nested : h[x] = k
        <3>1. k = << k[1], k[2], k[3], k[4] >> /\ << << k[1], k[2] >>, << k[3], k[4] >> >> \in Nested
            BY DEF RuleKeys
        <3>2. h[<< << k[1], k[2] >>, << k[3], k[4] >> >>] = k
            BY <3>1
        <3>3. QED BY <3>1, <3>2
    <2>3. QED BY <2>1, <2>2 DEF Surjection
<1> HIDE DEF h, Ids, Protos, Dirs
<1>5. IsFiniteSet(RuleKeys)
    <2>1. IsFiniteSet(Ids \X Ids) /\ IsFiniteSet(Protos \X Dirs)
        BY <1>2, <1>3, FS_Product
    <2>2. IsFiniteSet(Nested)
        BY <2>1, FS_Product
    <2>3. QED BY <2>2, <1>4, FS_Surjection
<1>6. RT!RuleKeysAssumption
    BY <1>5, Zenon DEF IsFiniteSet, RT!IsFiniteSet, RT!RuleKeysAssumption
<1>7. RT!LimitsAssumption
    BY LimitAssumption DEF RT!LimitsAssumption
<1>8. RT!TextsAssumption
    BY TextsAssumption DEF RT!TextsAssumption
<1>9. QED BY <1>6, <1>7, <1>8

\* normalize_ports is the one of the rule table.
LEMMA SameNormalize == \A p : RT!Normalize(p) = Normalize(p)
<1>1. \A S : RT!Cardinality(S) = Cardinality(S)
    BY Zenon DEF RT!Cardinality, Cardinality
<1>2. \A s, entry : RT!InsertSorted(s, entry) = InsertSorted(s, entry)
    BY <1>1, Zenon DEF RT!InsertSorted, InsertSorted, RT!EntryBefore, EntryBefore
<1>3. \A p : RT!ParsePorts(p) = ParsePorts(p)
    BY Zenon DEF RT!ParsePorts, ParsePorts, RT!BpfAction, BpfAction
<1>4. QED BY <1>2, <1>3, Zenon DEF RT!Normalize, Normalize

\* apply_add_rule is the one of the rule table.
LEMMA SameAddRule ==
    ASSUME NEW t, NEW k, NEW a, NEW p
    PROVE  ApplyAddRule(t, k, a, p) = RT!ApplyAddRule(t, k, a, p)
<1>1. \A n : AcquirePortSet(t, n) = RT!AcquirePortSet(t, n)
    BY Zenon
       DEF AcquirePortSet, ReuseIdx, PopIdx, FreshIdx, Insert,
           RT!AcquirePortSet, RT!ReuseIdx, RT!PopIdx, RT!FreshIdx, RT!Insert
<1>2. \A u, old, new : DropOldIdx(u, old, new) = RT!DropOldIdx(u, old, new)
    BY ZenonT(40)
       DEF DropOldIdx, ReleasePortSet, FreeSet, LowerCount, HasPortSet,
           PortSetAt, NoIdx, Restrict,
           RT!DropOldIdx, RT!ReleasePortSet, RT!FreeSet, RT!LowerCount, RT!HasPortSet,
           RT!PortSetAt, RT!NoIdx, RT!Restrict
<1>3. \A u, rule : PutRule(u, k, rule) = RT!PutRule(u, k, rule)
    BY Zenon DEF PutRule, Insert, RT!PutRule, RT!Insert
<1>4. IdxOf(t, k) = RT!IdxOf(t, k) /\ NoIdx = RT!NoIdx /\ AllPorts = RT!AllPorts
    BY Zenon DEF IdxOf, NoIdx, AllPorts, RT!IdxOf, RT!NoIdx, RT!AllPorts
<1>5. QED BY SameNormalize, <1>1, <1>2, <1>3, <1>4, Zenon DEF ApplyAddRule, RT!ApplyAddRule

\* apply_remove_rule is the one of the rule table.
LEMMA SameRemoveRule ==
    ASSUME NEW t, NEW k
    PROVE  ApplyRemoveRule(t, k) = RT!ApplyRemoveRule(t, k)
BY Zenon
   DEF ApplyRemoveRule, RemoveKey, ReleasePortSet, FreeSet, LowerCount, IdxOf, HasPortSet,
       PortSetAt, NoIdx, Restrict,
       RT!ApplyRemoveRule, RT!RemoveKey, RT!ReleasePortSet, RT!FreeSet, RT!LowerCount,
       RT!IdxOf, RT!HasPortSet, RT!PortSetAt, RT!NoIdx, RT!Restrict

\* So are the conditions of a request.
LEMMA SameAccepts ==
    ASSUME NEW t, NEW max, NEW p
    PROVE  AddRuleAccepts(t, max, p) <=> RT!AddRuleAccepts(t, max, p)
BY SameNormalize, Zenon
   DEF AddRuleAccepts, LimitReached, ValidPorts, AllPorts,
       RT!AddRuleAccepts, RT!LimitReached, RT!ValidPorts, RT!AllPorts

\* A table that apply_add_rule accepts a rule into stays consistent.
LEMMA RuleAdded ==
    ASSUME NEW t \in RT!Tables, RT!Consistent(t),
           NEW k \in RuleKeys, NEW a \in {0, 1}, NEW p \in PortTexts,
           AddRuleAccepts(t, MaxPortPolicies, p)
    PROVE  LET added == ApplyAddRule(t, k, a, p)
           IN  /\ added \in RT!Tables
               /\ RT!Consistent(added)
               /\ DOMAIN added.rules = DOMAIN t.rules \cup {k}
               /\ \A l \in DOMAIN t.rules \ {k} : added.rules[l] = t.rules[l]
<1>1. a \in RT!Actions /\ (p # RT!AllPorts => RT!ValidPorts(p))
    BY SameAccepts DEF RT!Actions, RT!AddRuleAccepts
<1>2. /\ ApplyAddRule(t, k, a, p) \in RT!Tables
      /\ RT!Consistent(ApplyAddRule(t, k, a, p))
    BY <1>1, TableAssumptions, RT!AddRuleConsistent, SameAddRule
<1>3. /\ DOMAIN ApplyAddRule(t, k, a, p).rules = DOMAIN t.rules \cup {k}
      /\ \A l \in DOMAIN t.rules \ {k} : ApplyAddRule(t, k, a, p).rules[l] = t.rules[l]
    BY <1>1, TableAssumptions, RT!AddRuleRules, SameAddRule
<1>4. QED BY <1>2, <1>3

\* The rollback of a handler restores all of it.
LEMMA RolledBack ==
    ASSUME table \in RT!Tables, NEW added \in RT!Tables
    PROVE  RestoreSnapshot(added) = table
BY DEF RestoreSnapshot, RT!Tables

\* Its port set is the only one that can be new, under an index no set had.
LEMMA SetsAfterAdd ==
    ASSUME NEW k \in RuleKeys, NEW a \in {0, 1}, NEW p \in PortTexts,
           table \in RT!Tables, RT!Consistent(table),
           AddRuleAccepts(table, MaxPortPolicies, p)
    PROVE  LET added == ApplyAddRule(table, k, a, p)
               idx(t, n) == t.port_sets[n].bitmap_idx
           IN  /\ \A n \in DOMAIN added.port_sets :
                      IF n \in DOMAIN table.port_sets THEN idx(added, n) = idx(table, n)
                      ELSE /\ n = Normalize(p) /\ p # AllPorts
                           /\ \A m \in DOMAIN table.port_sets : idx(added, n) # idx(table, m)
               /\ p # AllPorts => /\ Normalize(p) \in DOMAIN added.port_sets
                                  /\ added.rules[k].bitmap_idx = idx(added, Normalize(p))
                                  /\ added.rules[k].bitmap_idx \in Nat
                                  /\ ValidPorts(p)
<1> DEFINE added == ApplyAddRule(table, k, a, p)
<1>1. a \in RT!Actions /\ (p # RT!AllPorts => RT!ValidPorts(p))
    BY SameAccepts DEF RT!Actions, RT!AddRuleAccepts
<1>2. added \in RT!Tables /\ RT!Consistent(added)
    BY <1>1, RuleAdded
<1>3. RT!AllPorts = AllPorts /\ (RT!ValidPorts(p) <=> ValidPorts(p))
    BY Zenon DEF RT!AllPorts, AllPorts, RT!ValidPorts, ValidPorts
<1>4. ASSUME NEW n \in DOMAIN added.port_sets
      PROVE  IF n \in DOMAIN table.port_sets
             THEN added.port_sets[n].bitmap_idx = table.port_sets[n].bitmap_idx
             ELSE /\ n = RT!Normalize(p) /\ p # RT!AllPorts
                  /\ added.port_sets[n].bitmap_idx \notin RT!LiveIndices(table)
    BY <1>1, TableAssumptions, RT!AddRuleSets, SameAddRule
<1>5. k \in DOMAIN added.rules /\ added.rules[k].ports = p
    BY <1>1, TableAssumptions, RT!AddRuleRules, SameAddRule
<1> HIDE DEF added
<1>6. ASSUME p # AllPorts
      PROVE  /\ Normalize(p) \in DOMAIN added.port_sets
             /\ added.rules[k].bitmap_idx = added.port_sets[Normalize(p)].bitmap_idx
    BY <1>2, <1>3, <1>5, <1>6, SameNormalize DEF RT!Consistent, RT!RulesFindTheirSet
<1>7. \A n \in DOMAIN added.port_sets : added.port_sets[n].bitmap_idx \in Nat
    BY <1>2, TableAssumptions, RT!TableFields DEF RT!PortSetInfo
<1>8. QED BY <1>1, <1>3, <1>4, <1>6, <1>7, SameNormalize DEF RT!LiveIndices, added

\* The same of a rule that is removed.
LEMMA RuleRemoved ==
    ASSUME NEW t \in RT!Tables, RT!Consistent(t), NEW k \in DOMAIN t.rules
    PROVE  LET removed == ApplyRemoveRule(t, k)
           IN  /\ removed \in RT!Tables
               /\ RT!Consistent(removed)
               /\ DOMAIN removed.rules = DOMAIN t.rules \ {k}
               /\ \A l \in DOMAIN removed.rules : removed.rules[l] = t.rules[l]
               /\ \A n \in DOMAIN removed.port_sets :
                      /\ n \in DOMAIN t.port_sets
                      /\ removed.port_sets[n].bitmap_idx = t.port_sets[n].bitmap_idx
<1> DEFINE removed == ApplyRemoveRule(t, k)
<1>1. removed \in RT!Tables /\ RT!Consistent(removed)
    BY TableAssumptions, RT!RemoveRuleConsistent, SameRemoveRule
<1>2. removed.rules = RT!Restrict(t.rules, DOMAIN t.rules \ {k})
    BY TableAssumptions, RT!RemoveRuleRules, SameRemoveRule
<1>3. RT!NoNewSets(t, removed)
    BY TableAssumptions, RT!RemoveRuleSets, SameRemoveRule
<1>4. QED BY <1>1, <1>2, <1>3 DEF RT!Restrict, RT!NoNewSets

(***************************************************************************)
(* The entries of PORT_BITMAP_POOL.                                        *)
(***************************************************************************)
Pools == PartialMaps(Nat \X Nat, {1, 2})

\* Entries of other indices than idx are in w what they are in pool.
KeptElsewhere(pool, w, idx) ==
    \A key \in DOMAIN pool : key[1] # idx => key \in DOMAIN w /\ w[key] = pool[key]

\* Every port of the set n is in the pool under idx, with the value of one of
\* the parts of n that name it.
SetWritten(pool, idx, n) ==
    \A i \in DOMAIN n : \A port \in n[i][1] .. n[i][2] :
        /\ << idx, port >> \in DOMAIN pool
        /\ \E j \in DOMAIN n : /\ port \in n[j][1] .. n[j][2]
                               /\ pool[<< idx, port >>] = n[j][3]

SetsWritten(pool, sets) ==
    \A n \in DOMAIN sets : SetWritten(pool, sets[n].bitmap_idx, n)

\* What is written under one index does not touch the set of another.
LEMMA SetKept ==
    ASSUME NEW pool, NEW w, NEW idx, KeptElsewhere(pool, w, idx),
           NEW i, NEW n, SetWritten(pool, i, n), i # idx
    PROVE  SetWritten(w, i, n)
<1>1. \A port : << i, port >> \in DOMAIN pool =>
          << i, port >> \in DOMAIN w /\ w[<< i, port >>] = pool[<< i, port >>]
    BY DEF KeptElsewhere
<1>2. QED BY <1>1 DEF SetWritten

\* What the datapath needs of the pool.
LEMMA LiveDef ==
    /\ LivePortsWritten <=> SetsWritten(PORT_BITMAP_POOL, table.port_sets)
    /\ LivePortsWritten' <=> SetsWritten(PORT_BITMAP_POOL', table'.port_sets)
BY DEF LivePortsWritten, SetsWritten, SetWritten

\* Writing the ports of a text, all of them or the first few.
LEMMA PortsWritten ==
    ASSUME NEW pool \in Pools, NEW idx \in Nat, NEW p \in PortTexts, ValidPorts(p)
    PROVE  /\ LET w == WritePortSet(pool, idx, p)
              IN  w \in Pools /\ KeptElsewhere(pool, w, idx) /\ SetWritten(w, idx, Normalize(p))
           /\ Len(Inserts(p)) \in Nat
           /\ \A n \in 0 .. Len(Inserts(p)) :
                  LET w == Written(pool, idx, p, n)
                  IN  w \in Pools /\ KeptElsewhere(pool, w, idx)
<1>1. p \in RT!Text /\ RT!ValidPorts(p) /\ pool \in RT!Pools
  <2>1. RT!Text = Seq(Nat \X Nat \X Nat) /\ (RT!ValidPorts(p) <=> ValidPorts(p))
      BY Zenon DEF RT!Text, RT!ValidPorts, ValidPorts
  <2>2. RT!Pools = Pools
      BY Zenon DEF RT!Pools, RT!PoolKeys, RT!PartialMaps, Pools, PartialMaps
  <2>3. QED BY <2>1, <2>2, TextsAssumption
<1>2. RT!Inserts(p) = Inserts(p)
  <2>1. \A part : RT!PartInserts(part) = PartInserts(part)
      BY Zenon DEF RT!PartInserts, PartInserts, RT!BpfAction, BpfAction
  <2>2. QED BY <2>1, Zenon DEF RT!Inserts, Inserts
<1>3. \A n : RT!Written(pool, idx, p, n) = Written(pool, idx, p, n)
  <2>1. \A f, x, v : RT!Insert(f, x, v) = Insert(f, x, v)
      BY Zenon DEF RT!Insert, Insert
  <2>2. QED BY <1>2, <2>1, Zenon DEF RT!Written, Written
<1>4. RT!WritePortSet(pool, idx, p) = WritePortSet(pool, idx, p)
    BY <1>2, <1>3 DEF RT!WritePortSet, WritePortSet
<1>5. \A n \in 0 .. Len(Inserts(p)) :
          RT!WrittenSoFar(Written(pool, idx, p, n), pool, idx, Inserts(p), n)
    BY <1>1, <1>2, <1>3, TableAssumptions, RT!WrittenPool
<1>6. ASSUME NEW n \in 0 .. Len(Inserts(p))
      PROVE  /\ Written(pool, idx, p, n) \in Pools
             /\ KeptElsewhere(pool, Written(pool, idx, p, n), idx)
  <2>1. RT!Pools = Pools
      BY Zenon DEF RT!Pools, RT!PoolKeys, RT!PartialMaps, Pools, PartialMaps
  <2>2. QED BY <1>5, <2>1 DEF RT!WrittenSoFar, KeptElsewhere
<1>7. SetWritten(WritePortSet(pool, idx, p), idx, Normalize(p))
  <2>1. RT!SetWritten(RT!WritePortSet(pool, idx, p), idx, RT!Normalize(p))
      BY <1>1, TableAssumptions, RT!FormWritten
  <2>2. QED BY <1>4, <2>1, SameNormalize DEF RT!SetWritten, SetWritten
<1>8. Len(Inserts(p)) \in Nat /\ Len(Inserts(p)) \in 0 .. Len(Inserts(p))
    BY <1>1, <1>2, TableAssumptions, RT!InsertsNamed
<1>9. QED BY <1>6, <1>7, <1>8 DEF WritePortSet

\* Deleting the ports of a text under an index.
LEMMA PortsDeleted ==
    ASSUME NEW pool \in Pools, NEW idx, NEW text, NEW kept \in SUBSET DOMAIN pool
    PROVE  LET rest == Restrict(pool, DOMAIN DeletePortSet(pool, idx, text) \cup kept)
           IN  rest \in Pools /\ KeptElsewhere(pool, rest, idx)
<1> DEFINE left == DOMAIN pool \ ({idx} \X PortsOf(text))
           D    == DOMAIN DeletePortSet(pool, idx, text) \cup kept
<1>1. DOMAIN Restrict(pool, left) = left
    BY DEF Restrict
<1>2. \A key \in DOMAIN pool : key[1] # idx => key \in left
    OBVIOUS
<1>3. D \subseteq DOMAIN pool /\ left \subseteq D
    BY <1>1 DEF DeletePortSet
<1> HIDE DEF left, D
<1>4. Restrict(pool, D) \in Pools
    BY <1>3, RestrictType DEF Pools
<1>5. KeptElsewhere(pool, Restrict(pool, D), idx)
    BY <1>2, <1>3 DEF KeptElsewhere, Restrict
<1>6. QED BY <1>4, <1>5 DEF D

\* Restricting a pool to all of it changes nothing.
LEMMA AllPortsDeleted ==
    ASSUME NEW pool \in Pools, NEW idx, NEW text
    PROVE  DeletePortSet(pool, idx, text)
             = Restrict(pool, DOMAIN DeletePortSet(pool, idx, text) \cup {})
<1> DEFINE left == DOMAIN pool \ ({idx} \X PortsOf(text))
<1>1. DOMAIN Restrict(pool, left) = left
    BY DEF Restrict
<1>2. pool = Restrict(pool, DOMAIN pool)
    BY DEF Restrict, Pools, PartialMaps
<1> HIDE DEF left
<1>3. CASE ValidPorts(text)
    BY <1>1, <1>3 DEF DeletePortSet, left
<1>4. CASE ~ValidPorts(text)
    BY <1>2, <1>4 DEF DeletePortSet
<1>5. QED BY <1>3, <1>4

\* Cleaning up removes some of the ports of one released set, or none.
LEMMA CleanRemoves ==
    ASSUME NEW pool \in Pools, NEW released, CleanPortSet(pool, released)
    PROVE  \/ PORT_BITMAP_POOL' = pool
           \/ \E s \in released, kept \in SUBSET DOMAIN pool :
                 PORT_BITMAP_POOL' = Restrict(pool, DOMAIN DeletePortSet(pool, s[1], s[2]) \cup kept)
<1> DEFINE s       == CHOOSE s \in released : TRUE
           cleaned == IF released = {} THEN pool ELSE DeletePortSet(pool, s[1], s[2])
<1>1. \/ PORT_BITMAP_POOL' = cleaned
      \/ \E kept \in SUBSET (DOMAIN pool \ DOMAIN cleaned) :
            kept # {} /\ PORT_BITMAP_POOL' = Restrict(pool, DOMAIN cleaned \cup kept)
    BY DEF CleanPortSet
<1>2. CASE released = {}
    BY <1>1, <1>2
<1>3. CASE released # {}
  <2>1. s \in released /\ cleaned = DeletePortSet(pool, s[1], s[2])
      BY <1>3
  <2> HIDE DEF s, cleaned
  <2>2. CASE PORT_BITMAP_POOL' = cleaned
      BY <2>1, <2>2, AllPortsDeleted
  <2>3. CASE \E kept \in SUBSET (DOMAIN pool \ DOMAIN cleaned) :
               PORT_BITMAP_POOL' = Restrict(pool, DOMAIN cleaned \cup kept)
      BY <2>1, <2>3
  <2>4. QED BY <1>1, <2>2, <2>3
<1>4. QED BY <1>2, <1>3

(***************************************************************************)
(* The inductive invariant.                                                *)
(***************************************************************************)
QosKeys == (0 .. MaxGroupId) \X {r[2] : r \in QosRequests}
Switches == [conntrack : BOOLEAN, monitoring : BOOLEAN]

GroupInv ==
    /\ GoodDirectory(directory)
    /\ directory.next_group_id <= MaxGroupId + 1
    /\ SRC_TRIE \in PartialMaps(Cidrs, 1 .. MaxGroupId)
    /\ DST_TRIE \in PartialMaps(Cidrs, 1 .. MaxGroupId)
    /\ TriesNameOwners

PolicyInv ==
    /\ table \in RT!Tables
    /\ RT!Consistent(table)
    /\ KernelHasTheRules

QosInv ==
    /\ QOS_CONFIG \in PartialMaps(QosKeys, Rates)
    /\ qos_rules \in PartialMaps(QosKeys, Rates)
    /\ QosInForce

SwitchInv ==
    /\ FIREWALL_CONFIG \in PartialMaps({0}, Config)
    /\ flags \in Switches
    /\ misread \in BOOLEAN
    /\ SwitchesInForce

PoolInv ==
    /\ PORT_BITMAP_POOL \in Pools
    /\ LivePortsWritten

IInv == /\ GroupInv
        /\ PolicyInv
        /\ PoolInv
        /\ QosInv
        /\ SwitchInv
        /\ faults \in 0 .. MaxFaults

\* Types, of the fields of FirewallState and of the maps.
PolicyValues == [action : {0, 1}, has_port_filter : BOOLEAN, bitmap_idx : Nat]

MemoryTyped ==
    /\ GoodDirectory(directory)
    /\ directory.next_group_id <= MaxGroupId + 1
    /\ table \in RT!Tables
    /\ RT!Consistent(table)
    /\ qos_rules \in PartialMaps(QosKeys, Rates)
    /\ flags \in Switches

KernelTyped ==
    /\ POLICY_TABLE \in PartialMaps(RuleKeys, PolicyValues)
    /\ PORT_BITMAP_POOL \in Pools
    /\ SRC_TRIE \in PartialMaps(Cidrs, 1 .. MaxGroupId)
    /\ DST_TRIE \in PartialMaps(Cidrs, 1 .. MaxGroupId)
    /\ QOS_CONFIG \in PartialMaps(QosKeys, Rates)
    /\ FIREWALL_CONFIG \in PartialMaps({0}, Config)

\* A rule is a typed policy under its key.
LEMMA PolicyTyped ==
    ASSUME NEW t \in RT!Tables, NEW k \in DOMAIN t.rules
    PROVE  k \in RuleKeys /\ PolicyValue(t.rules[k]) \in PolicyValues
<1>1. k \in RuleKeys /\ t.rules[k] \in RT!RuleInfo
    BY TableAssumptions, RT!TableFields
<1>2. QED BY <1>1 DEF RT!RuleInfo, RT!Actions, RT!NoIdx, PolicyValue, PolicyValues, NoIdx

\* The types are part of the invariant.
LEMMA Typed == IInv => MemoryTyped /\ KernelTyped
<1> SUFFICES ASSUME IInv PROVE MemoryTyped /\ KernelTyped
    OBVIOUS
<1>1. table \in RT!Tables /\ KernelHasTheRules
    BY DEF IInv, PolicyInv
<1>2. POLICY_TABLE \in [DOMAIN table.rules -> PolicyValues] /\ DOMAIN table.rules \in SUBSET RuleKeys
    BY <1>1, PolicyTyped DEF KernelHasTheRules
<1>3. POLICY_TABLE \in PartialMaps(RuleKeys, PolicyValues)
    BY <1>2 DEF PartialMaps
<1>4. QED BY <1>3 DEF IInv, GroupInv, PolicyInv, PoolInv, QosInv, SwitchInv, MemoryTyped, KernelTyped

\* The empty map is a partial map.
LEMMA EmptyMap == \A S, T : << >> \in PartialMaps(S, T)
<1>1. \A S, T : << >> \in [{} -> T] /\ {} \in SUBSET S
    OBVIOUS
<1>2. QED BY <1>1 DEF PartialMaps

\* A fresh instance satisfies the invariant.
LEMMA InitInv == Init => IInv
<1> SUFFICES ASSUME Init PROVE IInv
    OBVIOUS
<1>1. DOMAIN << >> = {}
    OBVIOUS
<1>2. GroupInv
    <2>1. NoGroups \in Directories
        BY EmptyMap DEF NoGroups, Directories
    <2>2. GoodDirectory(directory)
        BY <1>1, <2>1 DEF GoodDirectory, Init, NoGroups
    <2>3. TriesNameOwners
        BY <1>1 DEF Init, TriesNameOwners
    <2>4. directory.next_group_id <= MaxGroupId + 1
        BY BoundsAssumption DEF Init, NoGroups
    <2>5. QED BY <2>2, <2>3, <2>4, EmptyMap DEF GroupInv, Init
<1>3. PolicyInv
    <2>1. RT!Init
        BY Zenon DEF RT!Init, RT!EmptyTable, Init, EmptyTable
    <2>2. RT!IInv
        BY <2>1, TableAssumptions, RT!InitConsistent
    <2>3. table \in RT!Tables /\ RT!Consistent(table)
        BY <2>2, TableAssumptions, RT!IInvDef
    <2>4. table.rules = << >>
        BY DEF Init, EmptyTable
    <2>5. KernelHasTheRules
        BY <1>1, <2>4 DEF Init, KernelHasTheRules
    <2>6. QED BY <2>3, <2>5 DEF PolicyInv
<1>4. PoolInv
    <2>1. LivePortsWritten
        BY <1>1 DEF Init, EmptyTable, LivePortsWritten
    <2>2. QED BY <2>1, EmptyMap DEF Init, PoolInv, Pools
<1>5. QosInv
    BY <1>1, EmptyMap DEF QosInv, QosInForce, QosFlagInSync, Init
<1>6. SwitchInv
    <2>1. flags.conntrack = TRUE /\ flags.monitoring = TRUE /\ flags \in Switches
        BY DEF Init, Switches
    <2>2. SwitchesInForce
        BY <1>1, <2>1 DEF SwitchesInForce, Init
    <2>3. misread \in BOOLEAN
        BY DEF Init
    <2>4. QED BY <2>1, <2>2, <2>3, EmptyMap DEF SwitchInv, Init
<1>7. faults \in 0 .. MaxFaults
    BY BoundsAssumption DEF Init
<1>8. QED BY <1>2, <1>3, <1>4, <1>5, <1>6, <1>7 DEF IInv

(***************************************************************************)
(* A part of the invariant survives a handler that leaves it alone, as     *)
(* faults are never taken back.                                            *)
(***************************************************************************)
FaultsGrow == faults' \in 0 .. MaxFaults /\ faults <= faults'

\* A failing call counts.
LEMMA FailGrows ==
    ASSUME faults \in 0 .. MaxFaults, NEW n \in Nat, Fail(n)
    PROVE  FaultsGrow /\ (faults' = faults <=> n = 0) /\ (faults' = 0 => n = 0)
BY BoundsAssumption DEF Fail, FaultsGrow

\* No failing call, no change.
LEMMA NoFailGrows ==
    ASSUME faults \in 0 .. MaxFaults, UNCHANGED faults
    PROVE  FaultsGrow
BY BoundsAssumption DEF FaultsGrow

\* Of the groups and the tries.
LEMMA GroupsKept ==
    ASSUME IInv, FaultsGrow, UNCHANGED groupVars
    PROVE  GroupInv'
<1>1. faults' = 0 => faults = 0
    BY DEF IInv, FaultsGrow
<1>2. UNCHANGED << directory, SRC_TRIE, DST_TRIE >>
    BY DEF groupVars
<1>3. TriesNameOwners'
    BY <1>1, <1>2 DEF IInv, GroupInv, TriesNameOwners
<1>4. QED BY <1>2, <1>3 DEF IInv, GroupInv

\* Of the rules.
LEMMA RulesKept ==
    ASSUME IInv, UNCHANGED << table, POLICY_TABLE >>
    PROVE  PolicyInv'
<1>1. KernelHasTheRules'
    BY DEF IInv, PolicyInv, KernelHasTheRules
<1>2. QED BY <1>1 DEF IInv, PolicyInv

\* Of the rules and their ports.
LEMMA PoliciesKept ==
    ASSUME IInv, UNCHANGED policyVars
    PROVE  PolicyInv' /\ PoolInv'
<1>1. UNCHANGED << table, POLICY_TABLE, PORT_BITMAP_POOL >>
    BY DEF policyVars
<1>2. LivePortsWritten'
    BY <1>1 DEF IInv, PoolInv, LivePortsWritten
<1>3. PoolInv'
    BY <1>1, <1>2 DEF IInv, PoolInv
<1>4. QED BY <1>1, <1>3, RulesKept

\* Of the QoS rules.
LEMMA QosKept ==
    ASSUME IInv, FaultsGrow, UNCHANGED << qosVars, FIREWALL_CONFIG >>
    PROVE  QosInv'
<1>1. faults' = 0 => faults = 0
    BY DEF IInv, FaultsGrow
<1>2. UNCHANGED << QOS_CONFIG, qos_rules, FIREWALL_CONFIG >>
    BY DEF qosVars
<1>3. QosInForce'
    BY <1>1, <1>2 DEF IInv, QosInv, QosInForce, QosFlagInSync
<1>4. QED BY <1>2, <1>3 DEF IInv, QosInv

\* Of the switches.
LEMMA SwitchesKept ==
    ASSUME IInv, UNCHANGED configVars
    PROVE  SwitchInv'
<1>1. UNCHANGED << flags, FIREWALL_CONFIG, misread >>
    BY DEF configVars, switchVars
<1>2. SwitchesInForce'
    BY <1>1 DEF IInv, SwitchInv, SwitchesInForce
<1>3. QED BY <1>1, <1>2 DEF IInv, SwitchInv
(***************************************************************************)
(* The steps.                                                              *)
(***************************************************************************)

\* add_group in memory: what the kernel gets names the group and its CIDR,
\* and no group loses anything.
LEMMA GroupAdded ==
    ASSUME NEW g, GoodDirectory(g), NEW name \in Names, NEW cidr \in Cidrs
    PROVE  LET added == ApplyAddGroup(g, name, cidr)
           IN  /\ GoodDirectory(added)
               /\ g.next_group_id <= added.next_group_id
               /\ name \in DOMAIN added.groups
               /\ added.groups[name].id \in 1 .. added.next_group_id - 1
               /\ cidr \in added.groups[name].cidrs
               /\ \A n \in DOMAIN g.groups :
                      /\ n \in DOMAIN added.groups
                      /\ added.groups[n].id = g.groups[n].id
                      /\ g.groups[n].cidrs \subseteq added.groups[n].cidrs
<1> DEFINE added == ApplyAddGroup(g, name, cidr)
<1>1. g.next_group_id \in Nat \ {0}
    BY DirectoryParts
<1>2. CASE name \in DOMAIN g.groups
    <2>1. /\ GoodDirectory(added)
          /\ DOMAIN added.groups = DOMAIN g.groups
          /\ \A n \in DOMAIN g.groups :
                 /\ added.groups[n].id = g.groups[n].id
                 /\ n # name => added.groups[n] = g.groups[n]
          /\ added.groups[name].cidrs = g.groups[name].cidrs \cup {cidr}
          /\ added.next_group_id = g.next_group_id
        BY <1>2, GroupExtended
    <2> HIDE DEF added
    <2>2. added.groups[name].id \in 1 .. added.next_group_id - 1
        BY <1>2, <2>1, DirectoryParts
    <2>3. \A n \in DOMAIN g.groups : g.groups[n].cidrs \subseteq added.groups[n].cidrs
        BY <2>1
    <2>4. QED BY <1>1, <1>2, <2>1, <2>2, <2>3 DEF added
<1>3. CASE name \notin DOMAIN g.groups
    <2>1. /\ GoodDirectory(added)
          /\ added.groups = Insert(g.groups, name,
                                   [id |-> g.next_group_id, cidrs |-> {cidr}])
          /\ added.next_group_id = g.next_group_id + 1
        BY <1>3, NewGroupAdded
    <2> HIDE DEF added
    <2>2. /\ DOMAIN added.groups = DOMAIN g.groups \cup {name}
          /\ added.groups[name] = [id |-> g.next_group_id, cidrs |-> {cidr}]
          /\ \A n \in DOMAIN g.groups : added.groups[n] = g.groups[n]
        BY <1>3, <2>1 DEF Insert
    <2>3. added.groups[name].id \in 1 .. added.next_group_id - 1
        BY <1>1, <2>1, <2>2
    <2>4. g.next_group_id <= added.next_group_id /\ cidr \in added.groups[name].cidrs
        BY <1>1, <2>1, <2>2
    <2>5. \A n \in DOMAIN g.groups : /\ n \in DOMAIN added.groups
                                     /\ added.groups[n].id = g.groups[n].id
                                     /\ g.groups[n].cidrs \subseteq added.groups[n].cidrs
        BY <2>2
    <2>6. QED BY <2>1, <2>2, <2>3, <2>4, <2>5 DEF added
<1>4. QED BY <1>2, <1>3

\* Both tries get the CIDR, or the directory is rolled back.
LEMMA AddGroupInv ==
    ASSUME IInv, NEW r \in GroupRequests, AddGroup(r[1], r[2])
    PROVE  IInv'
<1> DEFINE name   == r[1]
           cidr   == r[2]
           added  == ApplyAddGroup(directory, name, cidr)
           id     == added.groups[name].id
           undone == RollbackAddGroup(added, name, cidr, name \notin DOMAIN directory.groups)
<1>1. /\ name \in Names /\ cidr \in Cidrs
      /\ GoodDirectory(directory) /\ directory.next_group_id <= MaxGroupId + 1
      /\ faults \in 0 .. MaxFaults
    BY DEF Names, Cidrs, IInv, GroupInv
<1>2. /\ GoodDirectory(added)
      /\ name \in DOMAIN added.groups
      /\ id \in 1 .. added.next_group_id - 1
      /\ cidr \in added.groups[name].cidrs
      /\ \A n \in DOMAIN directory.groups :
             /\ n \in DOMAIN added.groups
             /\ added.groups[n].id = directory.groups[n].id
             /\ directory.groups[n].cidrs \subseteq added.groups[n].cidrs
    BY <1>1, GroupAdded
<1>3. GoodDirectory(undone) /\ undone.next_group_id = directory.next_group_id
    BY <1>1, AddUndone
<1>4. /\ added.next_group_id <= MaxGroupId + 1
      /\ \/ /\ directory' = added
            /\ SRC_TRIE' = Insert(SRC_TRIE, cidr, id)
            /\ DST_TRIE' = Insert(DST_TRIE, cidr, id)
            /\ UNCHANGED faults
         \/ /\ Fail(1) \/ Fail(2)
            /\ directory' = undone
            /\ SRC_TRIE' \in {SRC_TRIE, Without(SRC_TRIE, {cidr}), Insert(SRC_TRIE, cidr, id)}
            /\ DST_TRIE' = DST_TRIE
      /\ UNCHANGED << policyVars, qosVars, configVars >>
    BY DEF AddGroup, tries
<1> HIDE DEF undone, added, name, cidr
<1>5. id \in 1 .. MaxGroupId
    <2>1. added.next_group_id \in Nat \ {0}
        BY <1>2, DirectoryParts
    <2>2. QED BY <2>1, <1>2, <1>4, BoundsAssumption
<1> HIDE DEF id
<1>6. /\ SRC_TRIE \in PartialMaps(Cidrs, 1 .. MaxGroupId)
      /\ DST_TRIE \in PartialMaps(Cidrs, 1 .. MaxGroupId)
    BY DEF IInv, GroupInv
<1>7. /\ Insert(SRC_TRIE, cidr, id) \in PartialMaps(Cidrs, 1 .. MaxGroupId)
      /\ Insert(DST_TRIE, cidr, id) \in PartialMaps(Cidrs, 1 .. MaxGroupId)
      /\ Without(SRC_TRIE, {cidr}) \in PartialMaps(Cidrs, 1 .. MaxGroupId)
    BY <1>1, <1>5, <1>6, InsertType, RestrictType DEF Without
<1>8. FaultsGrow /\ (directory' = added \/ faults' # 0)
    BY <1>1, <1>4, FailGrows, NoFailGrows
<1>9. GroupInv'
    <2>1. CASE /\ directory' = added
               /\ SRC_TRIE' = Insert(SRC_TRIE, cidr, id)
               /\ DST_TRIE' = Insert(DST_TRIE, cidr, id)
               /\ UNCHANGED faults
        <3>1. TriesNameOwners'
            <4> SUFFICES ASSUME faults = 0
                         PROVE  /\ SRC_TRIE' = DST_TRIE'
                                /\ \A c \in DOMAIN SRC_TRIE' :
                                       \E n \in DOMAIN directory'.groups :
                                           /\ directory'.groups[n].id = SRC_TRIE'[c]
                                           /\ c \in directory'.groups[n].cidrs
                BY <2>1 DEF TriesNameOwners
            <4>1. /\ SRC_TRIE = DST_TRIE
                  /\ \A c \in DOMAIN SRC_TRIE :
                         \E n \in DOMAIN directory.groups :
                             /\ directory.groups[n].id = SRC_TRIE[c]
                             /\ c \in directory.groups[n].cidrs
                BY DEF IInv, GroupInv, TriesNameOwners
            <4>2. ASSUME NEW c \in DOMAIN SRC_TRIE'
                  PROVE  \E n \in DOMAIN added.groups :
                             added.groups[n].id = SRC_TRIE'[c] /\ c \in added.groups[n].cidrs
                <5>1. CASE c = cidr
                    BY <5>1, <2>1, <1>2 DEF Insert, id
                <5>2. CASE c # cidr
                    <6>1. c \in DOMAIN SRC_TRIE /\ SRC_TRIE'[c] = SRC_TRIE[c]
                        BY <5>2, <4>2, <2>1 DEF Insert
                    <6>2. PICK n \in DOMAIN directory.groups :
                              directory.groups[n].id = SRC_TRIE[c] /\ c \in directory.groups[n].cidrs
                        BY <6>1, <4>1
                    <6>3. QED BY <6>1, <6>2, <1>2
                <5>3. QED BY <5>1, <5>2
            <4>3. QED BY <4>1, <4>2, <2>1
        <3>2. QED BY <2>1, <3>1, <1>2, <1>4, <1>7 DEF GroupInv
    <2>2. CASE /\ Fail(1) \/ Fail(2)
               /\ directory' = undone
               /\ SRC_TRIE' \in {SRC_TRIE, Without(SRC_TRIE, {cidr}), Insert(SRC_TRIE, cidr, id)}
               /\ DST_TRIE' = DST_TRIE
        <3>1. faults' # 0
            BY <2>2, <1>1, FailGrows
        <3>2. TriesNameOwners'
            BY <3>1 DEF TriesNameOwners
        <3>3. QED BY <2>2, <3>2, <1>1, <1>3, <1>6, <1>7 DEF GroupInv
    <2>3. QED BY <2>1, <2>2, <1>4
<1>10. UNCHANGED << policyVars, qosVars, FIREWALL_CONFIG, configVars >>
    BY <1>4 DEF configVars, switchVars
<1>11. PolicyInv' /\ PoolInv' /\ QosInv' /\ SwitchInv'
    BY <1>8, <1>10, PoliciesKept, QosKept, SwitchesKept
<1>12. QED BY <1>8, <1>9, <1>11 DEF IInv, FaultsGrow

\* The CIDRs of a group that goes are gone from both tries, unless a call fails.
LEMMA DeleteGroupInv ==
    ASSUME IInv, NEW name, DeleteGroup(name)
    PROVE  IInv'
<1> DEFINE cidrs == directory.groups[name].cidrs
           left  == ApplyDeleteGroup(directory, name)
<1>1. /\ GoodDirectory(directory) /\ directory.next_group_id <= MaxGroupId + 1
      /\ SRC_TRIE \in PartialMaps(Cidrs, 1 .. MaxGroupId)
      /\ DST_TRIE \in PartialMaps(Cidrs, 1 .. MaxGroupId)
      /\ TriesNameOwners
      /\ faults \in 0 .. MaxFaults
    BY DEF IInv, GroupInv
<1>2. PICK srcKept \in SUBSET cidrs, dstKept \in SUBSET cidrs :
          /\ Fail(Cardinality(srcKept) + Cardinality(dstKept))
          /\ SRC_TRIE' = Without(SRC_TRIE, cidrs \ srcKept)
          /\ DST_TRIE' = Without(DST_TRIE, cidrs \ dstKept)
          /\ directory' = left \/ (srcKept \cup dstKept # {} /\ directory' = directory)
    BY DEF DeleteGroup
<1>3. name \in DOMAIN directory.groups /\ UNCHANGED << policyVars, qosVars, configVars >>
    BY DEF DeleteGroup
<1>4. IsFiniteSet(srcKept) /\ IsFiniteSet(dstKept)
    BY <1>1, <1>3, DirectoryParts, FS_Subset
<1>5. /\ Cardinality(srcKept) \in Nat /\ Cardinality(dstKept) \in Nat
      /\ Cardinality(srcKept) = 0 => srcKept = {}
      /\ Cardinality(dstKept) = 0 => dstKept = {}
    BY <1>4, FS_CardinalityType, FS_EmptySet
<1>6. FaultsGrow /\ (faults' = 0 => faults = 0 /\ srcKept = {} /\ dstKept = {})
    <2> DEFINE n == Cardinality(srcKept) + Cardinality(dstKept)
    <2>1. n \in Nat /\ (n = 0 => srcKept = {} /\ dstKept = {})
        BY <1>5
    <2>2. Fail(n)
        BY <1>2
    <2> HIDE DEF n
    <2>3. QED BY <2>1, <2>2, <1>1, FailGrows DEF FaultsGrow
<1>7. /\ GoodDirectory(left)
      /\ DOMAIN left.groups = DOMAIN directory.groups \ {name}
      /\ \A n \in DOMAIN left.groups : left.groups[n] = directory.groups[n]
      /\ left.next_group_id = directory.next_group_id
    BY <1>1, GroupDeleted
<1> HIDE DEF left
<1>8. GroupInv'
    <2>1. /\ SRC_TRIE' \in PartialMaps(Cidrs, 1 .. MaxGroupId)
          /\ DST_TRIE' \in PartialMaps(Cidrs, 1 .. MaxGroupId)
        BY <1>1, <1>2, RestrictType DEF Without
    <2>2. GoodDirectory(directory') /\ directory'.next_group_id <= MaxGroupId + 1
        BY <1>1, <1>2, <1>7
    <2>3. ASSUME faults' = 0
          PROVE  /\ SRC_TRIE' = DST_TRIE'
                 /\ \A c \in DOMAIN SRC_TRIE' :
                        \E n \in DOMAIN directory'.groups :
                            /\ directory'.groups[n].id = SRC_TRIE'[c]
                            /\ c \in directory'.groups[n].cidrs
        <3>1. /\ SRC_TRIE = DST_TRIE
              /\ \A c \in DOMAIN SRC_TRIE :
                     \E n \in DOMAIN directory.groups :
                         /\ directory.groups[n].id = SRC_TRIE[c]
                         /\ c \in directory.groups[n].cidrs
            BY <2>3, <1>1, <1>6 DEF TriesNameOwners
        <3>2. /\ directory' = left
              /\ SRC_TRIE' = Without(SRC_TRIE, cidrs)
              /\ DST_TRIE' = Without(DST_TRIE, cidrs)
            BY <2>3, <1>2, <1>6
        <3>3. /\ DOMAIN SRC_TRIE' = DOMAIN SRC_TRIE \ cidrs
              /\ \A c \in DOMAIN SRC_TRIE' : SRC_TRIE'[c] = SRC_TRIE[c]
            BY <3>2 DEF Without, Restrict
        <3>4. ASSUME NEW c \in DOMAIN SRC_TRIE'
              PROVE  \E n \in DOMAIN left.groups :
                         left.groups[n].id = SRC_TRIE'[c] /\ c \in left.groups[n].cidrs
            <4>1. PICK n \in DOMAIN directory.groups :
                      directory.groups[n].id = SRC_TRIE[c] /\ c \in directory.groups[n].cidrs
                BY <3>1, <3>3, <3>4
            <4>2. n # name
                BY <4>1, <3>3, <3>4
            <4>3. QED BY <4>1, <4>2, <3>3, <3>4, <1>7
        <3>5. QED BY <3>1, <3>2, <3>4
    <2>4. TriesNameOwners'
        BY <2>3 DEF TriesNameOwners
    <2>5. QED BY <2>1, <2>2, <2>4 DEF GroupInv
<1>9. UNCHANGED << policyVars, qosVars, FIREWALL_CONFIG, configVars >>
    BY <1>3 DEF configVars, switchVars
<1>10. PolicyInv' /\ PoolInv' /\ QosInv' /\ SwitchInv'
    BY <1>6, <1>9, PoliciesKept, QosKept, SwitchesKept
<1>11. QED BY <1>6, <1>8, <1>10 DEF IInv, FaultsGrow

\* A name that resolves gives an id within the bound, of the wildcard or of an
\* existing group.
LEMMA ResolvedId ==
    ASSUME MemoryTyped, NEW name, name \in DOMAIN directory.groups
    PROVE  /\ directory.groups[name].id \in 1 .. MaxGroupId
           /\ directory.groups[name].id \in GroupIds
<1>1. /\ directory.next_group_id \in Nat \ {0}
      /\ directory.next_group_id <= MaxGroupId + 1
      /\ directory.groups[name].id \in 1 .. directory.next_group_id - 1
    BY DirectoryParts DEF MemoryTyped
<1>2. directory.groups[name].id \in 1 .. MaxGroupId
    BY <1>1, BoundsAssumption
<1>3. QED BY <1>2 DEF GroupIds

\* The key of a request whose names resolve is one of the rule keys.
LEMMA PolicyKeyType ==
    ASSUME MemoryTyped, NEW req \in PolicyRequests, Resolvable(req)
    PROVE  /\ PolicyKey(req) \in RuleKeys
           /\ PolicyKey(req)[1] \in GroupIds \cup {0}
           /\ PolicyKey(req)[2] \in GroupIds \cup {0}
<1>1. ASSUME NEW i \in 1 .. 2
      PROVE  /\ ResolveGroupId(req[i]) \in 0 .. MaxGroupId
             /\ ResolveGroupId(req[i]) \in GroupIds \cup {0}
    <2>1. CASE req[i] = "any"
        BY <2>1, BoundsAssumption DEF ResolveGroupId
    <2>2. CASE req[i] # "any"
        <3>1. req[i] \in DOMAIN directory.groups
            BY <2>2, <1>1 DEF Resolvable, Known
        <3>2. ResolveGroupId(req[i]) = directory.groups[req[i]].id
            BY <2>2 DEF ResolveGroupId
        <3>3. QED BY <3>1, <3>2, ResolvedId
    <2>3. QED BY <2>1, <2>2
<1>2. /\ ResolveGroupId(req[1]) \in 0 .. MaxGroupId
      /\ ResolveGroupId(req[2]) \in 0 .. MaxGroupId
      /\ ResolveGroupId(req[1]) \in GroupIds \cup {0}
      /\ ResolveGroupId(req[2]) \in GroupIds \cup {0}
    BY <1>1
<1>3. QED BY <1>2 DEF PolicyKey, RuleKeys

\* A released port set is cleaned up, or one call fails.
LEMMA CleanGrows ==
    ASSUME IInv, NEW pool, NEW released, CleanPortSet(pool, released)
    PROVE  FaultsGrow
<1>1. Fail(1) \/ UNCHANGED faults
    BY DEF CleanPortSet
<1>2. QED BY <1>1, FailGrows, NoFailGrows DEF IInv

\* Cleaning up after a port set that is gone leaves the others their ports.
LEMMA PoolCleaned ==
    ASSUME NEW t, NEW u, NEW pool \in Pools, SetsWritten(pool, u.port_sets),
           CleanPortSet(pool, ReleasedPortSets(t, u)),
           \A n \in DOMAIN t.port_sets \ DOMAIN u.port_sets : \A m \in DOMAIN u.port_sets :
               t.port_sets[n].bitmap_idx # u.port_sets[m].bitmap_idx
    PROVE  PORT_BITMAP_POOL' \in Pools /\ SetsWritten(PORT_BITMAP_POOL', u.port_sets)
<1> DEFINE released == ReleasedPortSets(t, u)
           Rest(s, kept) == Restrict(pool, DOMAIN DeletePortSet(pool, s[1], s[2]) \cup kept)
<1>1. CASE PORT_BITMAP_POOL' = pool
    BY <1>1
<1>2. ASSUME NEW s \in released, NEW kept \in SUBSET DOMAIN pool, PORT_BITMAP_POOL' = Rest(s, kept)
      PROVE  PORT_BITMAP_POOL' \in Pools /\ SetsWritten(PORT_BITMAP_POOL', u.port_sets)
  <2>1. \A m \in DOMAIN u.port_sets : u.port_sets[m].bitmap_idx # s[1]
    <3>1. PICK n \in DOMAIN t.port_sets \ DOMAIN u.port_sets :
              s = << t.port_sets[n].bitmap_idx, n >>
        BY DEF ReleasedPortSets
    <3>2. s[1] = t.port_sets[n].bitmap_idx
        BY <3>1
    <3>3. QED BY <3>2
  <2>2. PORT_BITMAP_POOL' \in Pools /\ KeptElsewhere(pool, PORT_BITMAP_POOL', s[1])
      BY <1>2, PortsDeleted
  <2>3. QED BY <2>1, <2>2, SetKept DEF SetsWritten
<1>3. QED BY <1>1, <1>2, CleanRemoves

\* add_policy writes only under an index no port set has, and deletes only
\* the ports of a set that is gone.
LEMMA AddPolicyPool ==
    ASSUME IInv, NEW req \in PolicyRequests, NEW a \in {0, 1}, NEW p \in PortTexts,
           AddPolicy(req, a, p)
    PROVE  PoolInv'
<1> DEFINE k     == PolicyKey(req)
           added == ApplyAddRule(table, k, a, p)
           idx   == added.rules[k].bitmap_idx
           pool  == IF IsNewPortSet(table, p) THEN WritePortSet(PORT_BITMAP_POOL, idx, p)
                    ELSE PORT_BITMAP_POOL
<1>1. /\ Resolvable(req) /\ AddRuleAccepts(table, MaxPortPolicies, p)
      /\ \/ table' = added /\ CleanPortSet(pool, ReleasedPortSets(table, added))
         \/ /\ IsNewPortSet(table, p) /\ table' = RestoreSnapshot(added)
            /\ \E n \in 0 .. Len(Inserts(p)) - 1 :
                   PORT_BITMAP_POOL' = Written(PORT_BITMAP_POOL, idx, p, n)
         \/ PORT_BITMAP_POOL' = pool /\ table' = RestoreSnapshot(added)
    BY DEF AddPolicy
<1>2. k \in RuleKeys
    BY <1>1, PolicyKeyType, Typed
<1>3. table \in RT!Tables /\ RT!Consistent(table)
      /\ PORT_BITMAP_POOL \in Pools /\ SetsWritten(PORT_BITMAP_POOL, table.port_sets)
    BY LiveDef DEF IInv, PolicyInv, PoolInv
<1>4. RestoreSnapshot(added) = table
    BY <1>1, <1>2, <1>3, RuleAdded, RolledBack
<1>5. /\ \A n \in DOMAIN added.port_sets :
             IF n \in DOMAIN table.port_sets
             THEN added.port_sets[n].bitmap_idx = table.port_sets[n].bitmap_idx
             ELSE /\ n = Normalize(p) /\ p # AllPorts
                  /\ \A m \in DOMAIN table.port_sets :
                         added.port_sets[n].bitmap_idx # table.port_sets[m].bitmap_idx
      /\ p # AllPorts => /\ Normalize(p) \in DOMAIN added.port_sets
                         /\ idx = added.port_sets[Normalize(p)].bitmap_idx
                         /\ idx \in Nat
                         /\ ValidPorts(p)
    BY <1>1, <1>2, <1>3, SetsAfterAdd
<1> HIDE DEF added, k, idx
<1>6. ASSUME IsNewPortSet(table, p)
      PROVE  /\ p # AllPorts /\ ValidPorts(p) /\ idx \in Nat
             /\ \A m \in DOMAIN table.port_sets : table.port_sets[m].bitmap_idx # idx
    BY <1>5, <1>6 DEF IsNewPortSet
<1>7. pool \in Pools /\ SetsWritten(pool, table.port_sets)
  <2>1. CASE IsNewPortSet(table, p)
    <3>1. pool \in Pools /\ KeptElsewhere(PORT_BITMAP_POOL, pool, idx)
        BY <1>3, <1>6, <2>1, PortsWritten
    <3> HIDE DEF pool
    <3>2. QED BY <1>3, <1>6, <2>1, <3>1, SetKept DEF SetsWritten
  <2>2. CASE ~IsNewPortSet(table, p)
      BY <1>3, <2>2
  <2>3. QED BY <2>1, <2>2
<1>8. SetsWritten(pool, added.port_sets)
  <2>1. ASSUME NEW n \in DOMAIN added.port_sets, n \notin DOMAIN table.port_sets
        PROVE  SetWritten(pool, added.port_sets[n].bitmap_idx, n)
    <3>1. n = Normalize(p) /\ IsNewPortSet(table, p) /\ added.port_sets[n].bitmap_idx = idx
        BY <1>5, <2>1 DEF IsNewPortSet
    <3>2. SetWritten(pool, idx, Normalize(p))
        BY <1>3, <1>6, <3>1, PortsWritten
    <3>3. QED BY <3>1, <3>2
  <2> HIDE DEF pool
  <2>2. QED BY <1>5, <1>7, <2>1 DEF SetsWritten
<1>9. \A n \in DOMAIN table.port_sets \ DOMAIN added.port_sets :
          \A m \in DOMAIN added.port_sets :
              table.port_sets[n].bitmap_idx # added.port_sets[m].bitmap_idx
    BY <1>3, <1>5 DEF RT!Consistent, RT!OneSetPerIdx
<1>10. CASE table' = added /\ CleanPortSet(pool, ReleasedPortSets(table, added))
  <2> HIDE DEF pool
  <2>1. PORT_BITMAP_POOL' \in Pools /\ SetsWritten(PORT_BITMAP_POOL', added.port_sets)
      BY <1>7, <1>8, <1>9, <1>10, PoolCleaned
  <2>2. QED BY <1>10, <2>1, LiveDef DEF PoolInv
<1>11. CASE /\ IsNewPortSet(table, p) /\ table' = table
            /\ \E n \in 0 .. Len(Inserts(p)) - 1 :
                   PORT_BITMAP_POOL' = Written(PORT_BITMAP_POOL, idx, p, n)
  <2>1. PICK n \in 0 .. Len(Inserts(p)) - 1 :
            PORT_BITMAP_POOL' = Written(PORT_BITMAP_POOL, idx, p, n)
      BY <1>11
  <2>2. n \in 0 .. Len(Inserts(p))
      BY <1>3, <1>6, <1>11, PortsWritten
  <2>3. PORT_BITMAP_POOL' \in Pools /\ KeptElsewhere(PORT_BITMAP_POOL, PORT_BITMAP_POOL', idx)
      BY <1>3, <1>6, <1>11, <2>1, <2>2, PortsWritten
  <2>4. SetsWritten(PORT_BITMAP_POOL', table.port_sets)
      BY <1>3, <1>6, <1>11, <2>3, SetKept DEF SetsWritten
  <2>5. QED BY <1>11, <2>3, <2>4, LiveDef DEF PoolInv
<1>12. CASE PORT_BITMAP_POOL' = pool /\ table' = table
    BY <1>7, <1>12, LiveDef DEF PoolInv
<1>13. QED BY <1>1, <1>4, <1>10, <1>11, <1>12

\* delete_policy deletes only the ports of a set that is gone.
LEMMA DeletePolicyPool ==
    ASSUME IInv, NEW req \in PolicyRequests, DeletePolicy(req)
    PROVE  PoolInv'
<1> DEFINE k       == PolicyKey(req)
           removed == ApplyRemoveRule(table, k)
<1>1. /\ k \in DOMAIN table.rules
      /\ \/ /\ table' = removed
            /\ CleanPortSet(PORT_BITMAP_POOL, ReleasedPortSets(table, removed))
         \/ UNCHANGED policyVars
    BY DEF DeletePolicy
<1>2. table \in RT!Tables /\ RT!Consistent(table)
      /\ PORT_BITMAP_POOL \in Pools /\ SetsWritten(PORT_BITMAP_POOL, table.port_sets)
    BY LiveDef DEF IInv, PolicyInv, PoolInv
<1>3. \A n \in DOMAIN removed.port_sets :
          /\ n \in DOMAIN table.port_sets
          /\ removed.port_sets[n].bitmap_idx = table.port_sets[n].bitmap_idx
    BY <1>1, <1>2, RuleRemoved
<1> HIDE DEF removed, k
<1>4. SetsWritten(PORT_BITMAP_POOL, removed.port_sets)
    BY <1>2, <1>3 DEF SetsWritten
<1>5. \A n \in DOMAIN table.port_sets \ DOMAIN removed.port_sets :
          \A m \in DOMAIN removed.port_sets :
              table.port_sets[n].bitmap_idx # removed.port_sets[m].bitmap_idx
    BY <1>2, <1>3 DEF RT!Consistent, RT!OneSetPerIdx
<1>6. CASE /\ table' = removed
           /\ CleanPortSet(PORT_BITMAP_POOL, ReleasedPortSets(table, removed))
  <2>1. PORT_BITMAP_POOL' \in Pools /\ SetsWritten(PORT_BITMAP_POOL', removed.port_sets)
      BY <1>2, <1>4, <1>5, <1>6, PoolCleaned
  <2>2. QED BY <1>6, <2>1, LiveDef DEF PoolInv
<1>7. QED BY <1>1, <1>6, PoliciesKept

\* A policy is written last, and a failure before rolls the table back.
LEMMA AddPolicyInv ==
    ASSUME IInv, NEW req \in PolicyRequests, NEW a \in {0, 1}, NEW p \in PortTexts,
           AddPolicy(req, a, p)
    PROVE  IInv' /\ (\/ table' = ApplyAddRule(table, PolicyKey(req), a, p)
                     \/ table' = table /\ faults' # faults)
<1> DEFINE k     == PolicyKey(req)
           added == ApplyAddRule(table, k, a, p)
<1>1. /\ Resolvable(req) /\ AddRuleAccepts(table, MaxPortPolicies, p)
      /\ UNCHANGED << groupVars, qosVars, configVars >>
      /\ \/ /\ table' = added
            /\ POLICY_TABLE' = Insert(POLICY_TABLE, k, PolicyValue(added.rules[k]))
            /\ FaultsGrow
         \/ /\ Fail(1)
            /\ table' = RestoreSnapshot(added)
            /\ UNCHANGED POLICY_TABLE
    BY CleanGrows DEF AddPolicy
<1>2. k \in RuleKeys
    BY <1>1, PolicyKeyType, Typed
<1>3. table \in RT!Tables /\ RT!Consistent(table) /\ KernelHasTheRules
    BY DEF IInv, PolicyInv
<1>4. /\ added \in RT!Tables
      /\ RT!Consistent(added)
      /\ DOMAIN added.rules = DOMAIN table.rules \cup {k}
      /\ \A l \in DOMAIN table.rules \ {k} : added.rules[l] = table.rules[l]
      /\ RestoreSnapshot(added) = table
    BY <1>1, <1>2, <1>3, RuleAdded, RolledBack
<1> HIDE DEF added, k
<1>5. FaultsGrow /\ (table' = added \/ (table' = table /\ faults' # faults))
    BY <1>1, <1>4, FailGrows DEF IInv
<1>6. PolicyInv'
    <2>1. CASE /\ table' = added
               /\ POLICY_TABLE' = Insert(POLICY_TABLE, k, PolicyValue(added.rules[k]))
        <3>1. POLICY_TABLE = [l \in DOMAIN table.rules |-> PolicyValue(table.rules[l])]
            BY <1>3 DEF KernelHasTheRules
        <3>2. POLICY_TABLE' = [l \in DOMAIN added.rules |-> PolicyValue(added.rules[l])]
            BY <2>1, <3>1, <1>4 DEF Insert
        <3>3. KernelHasTheRules'
            BY <2>1, <3>2 DEF KernelHasTheRules
        <3>4. QED BY <2>1, <3>3, <1>4 DEF PolicyInv
    <2>2. CASE table' = RestoreSnapshot(added) /\ UNCHANGED POLICY_TABLE
        BY <2>2, <1>4, RulesKept
    <2>3. QED BY <2>1, <2>2, <1>1
<1>7. GroupInv' /\ PoolInv' /\ QosInv' /\ SwitchInv'
    BY <1>1, <1>5, GroupsKept, AddPolicyPool, QosKept, SwitchesKept DEF configVars, switchVars
<1>8. IInv'
    BY <1>5, <1>6, <1>7 DEF IInv, FaultsGrow
<1>9. QED BY <1>5, <1>8 DEF added, k

\* A policy is deleted in the kernel and in memory, or in neither.
LEMMA DeletePolicyInv ==
    ASSUME IInv, NEW req \in PolicyRequests, DeletePolicy(req)
    PROVE  IInv' /\ (\/ /\ PolicyKey(req) \in DOMAIN table.rules
                        /\ table' = ApplyRemoveRule(table, PolicyKey(req))
                     \/ table' = table)
<1> DEFINE k       == PolicyKey(req)
           removed == ApplyRemoveRule(table, k)
<1>1. /\ Resolvable(req) /\ k \in DOMAIN table.rules
      /\ UNCHANGED << groupVars, qosVars, configVars >>
      /\ \/ /\ table' = removed
            /\ POLICY_TABLE' = Without(POLICY_TABLE, {k})
            /\ FaultsGrow
         \/ Fail(1) /\ UNCHANGED policyVars
    BY CleanGrows DEF DeletePolicy
<1>2. table \in RT!Tables /\ RT!Consistent(table) /\ KernelHasTheRules
    BY DEF IInv, PolicyInv
<1>3. /\ removed \in RT!Tables
      /\ RT!Consistent(removed)
      /\ DOMAIN removed.rules = DOMAIN table.rules \ {k}
      /\ \A l \in DOMAIN removed.rules : removed.rules[l] = table.rules[l]
    BY <1>1, <1>2, RuleRemoved
<1> HIDE DEF removed, k
<1>4. FaultsGrow /\ (table' = removed \/ table' = table)
    BY <1>1, FailGrows DEF IInv, policyVars
<1>5. PolicyInv'
    <2>1. CASE table' = removed /\ POLICY_TABLE' = Without(POLICY_TABLE, {k})
        <3>1. POLICY_TABLE = [l \in DOMAIN table.rules |-> PolicyValue(table.rules[l])]
            BY <1>2 DEF KernelHasTheRules
        <3>2. POLICY_TABLE' = [l \in DOMAIN removed.rules |-> PolicyValue(removed.rules[l])]
            BY <2>1, <3>1, <1>3 DEF Without, Restrict
        <3>3. KernelHasTheRules'
            BY <2>1, <3>2 DEF KernelHasTheRules
        <3>4. QED BY <2>1, <3>3, <1>3 DEF PolicyInv
    <2>2. CASE UNCHANGED policyVars
        BY <2>2, PoliciesKept
    <2>3. QED BY <2>1, <2>2, <1>1
<1>6. GroupInv' /\ PoolInv' /\ QosInv' /\ SwitchInv'
    BY <1>1, <1>4, GroupsKept, DeletePolicyPool, QosKept, SwitchesKept DEF configVars, switchVars
<1>7. IInv'
    BY <1>4, <1>5, <1>6 DEF IInv, FaultsGrow
<1>8. QED BY <1>1, <1>4, <1>7 DEF removed, k

\* What a handler takes for the entry is typed,
LEMMA ConfigReadTyped ==
    ASSUME FIREWALL_CONFIG \in PartialMaps({0}, Config), NEW cpus \in {1, NumCpus},
           NEW failed \in BOOLEAN
    PROVE  ConfigRead(cpus, failed) \in Config
<1>1. 0 \in DOMAIN FIREWALL_CONFIG => FIREWALL_CONFIG[0] \in Config
    BY DEF PartialMaps
<1>2. [conntrack |-> TRUE, monitoring |-> TRUE, num_cpus |-> cpus, qos |-> FALSE] \in Config
    BY DEF Config
<1>3. QED BY <1>1, <1>2 DEF ConfigRead

\* A configuration shows two switches,
Shows(cfg, conntrack, monitoring, exactly) ==
    /\ conntrack => cfg.conntrack
    /\ monitoring => cfg.monitoring
    /\ exactly => cfg.conntrack = conntrack /\ cfg.monitoring = monitoring

\* and so does what a handler takes for the entry, exactly so long as no
\* read has failed.
LEMMA ConfigReadShows ==
    ASSUME SwitchInv, NEW cpus \in {1, NumCpus}, NEW failed \in BOOLEAN
    PROVE  Shows(ConfigRead(cpus, failed), flags.conntrack, flags.monitoring, ~(misread \/ failed))
<1> DEFINE Default(n) == [conntrack |-> TRUE, monitoring |-> TRUE, num_cpus |-> n, qos |-> FALSE]
<1>1. SwitchesInForce /\ flags.conntrack \in BOOLEAN /\ flags.monitoring \in BOOLEAN
    BY DEF SwitchInv, Switches
<1>2. Default(cpus).conntrack = TRUE /\ Default(cpus).monitoring = TRUE
    OBVIOUS
<1> HIDE DEF Default
<1>3. CASE 0 \in DOMAIN FIREWALL_CONFIG /\ ~failed
  <2>1. ConfigRead(cpus, failed) = FIREWALL_CONFIG[0]
      BY <1>3 DEF ConfigRead
  <2>2. QED BY <1>1, <1>3, <2>1, Zenon DEF SwitchesInForce, Shows
<1>4. CASE 0 \notin DOMAIN FIREWALL_CONFIG
  <2>1. ConfigRead(cpus, failed) = Default(cpus)
      BY <1>4 DEF ConfigRead, Default
  <2>2. ~misread => flags.conntrack = TRUE /\ flags.monitoring = TRUE
      BY <1>1, <1>4 DEF SwitchesInForce
  <2>3. QED BY <1>2, <2>1, <2>2, Zenon DEF Shows
<1>5. CASE failed
  <2>1. ConfigRead(cpus, failed) = Default(cpus)
      BY <1>5 DEF ConfigRead, Default
  <2>2. QED BY <1>2, <1>5, <2>1, Zenon DEF Shows
<1>6. QED BY <1>3, <1>4, <1>5

\* A handler that writes a configuration showing its switches keeps them in
\* force.
LEMMA ConfigWritten ==
    ASSUME SwitchInv, NEW cfg \in Config, NEW failed \in BOOLEAN, WriteConfig(cfg, failed),
           flags' \in Switches,
           Shows(cfg, flags'.conntrack, flags'.monitoring, ~(misread \/ failed))
    PROVE  /\ SwitchInv'
           /\ 0 \in DOMAIN FIREWALL_CONFIG'
           /\ FIREWALL_CONFIG'[0] = cfg
<1>1. FIREWALL_CONFIG' = Insert(FIREWALL_CONFIG, 0, cfg) /\ misread' = (misread \/ failed)
    BY DEF WriteConfig
<1>2. FIREWALL_CONFIG' \in PartialMaps({0}, Config)
    BY <1>1, InsertType DEF SwitchInv
<1>3. 0 \in DOMAIN FIREWALL_CONFIG' /\ FIREWALL_CONFIG'[0] = cfg
    BY <1>1 DEF Insert
<1>4. misread' \in BOOLEAN
    BY <1>1
<1>5. SwitchesInForce'
    BY <1>1, <1>3, Zenon DEF SwitchesInForce, Shows
<1>6. QED BY <1>2, <1>3, <1>4, <1>5 DEF SwitchInv

\* sync_qos_enabled writes the flag and, unless its read fails, no switch.
LEMMA SyncInv ==
    ASSUME IInv, NEW on \in BOOLEAN, NEW failed \in BOOLEAN, SyncQosEnabled(on, failed),
           UNCHANGED flags
    PROVE  /\ SwitchInv'
           /\ 0 \in DOMAIN FIREWALL_CONFIG'
           /\ FIREWALL_CONFIG'[0].qos = on
<1> DEFINE cfg == ConfigRead(1, failed)
           new == [cfg EXCEPT !.qos = on]
<1>1. SwitchInv /\ FIREWALL_CONFIG \in PartialMaps({0}, Config) /\ flags \in Switches
    BY DEF IInv, SwitchInv
<1>2. cfg \in Config /\ Shows(cfg, flags.conntrack, flags.monitoring, ~(misread \/ failed))
    BY <1>1, ConfigReadTyped, ConfigReadShows
<1>3. WriteConfig(new, failed)
    BY DEF SyncQosEnabled
<1> HIDE DEF cfg
<1>4. /\ new \in Config
      /\ new.conntrack = cfg.conntrack
      /\ new.monitoring = cfg.monitoring
      /\ new.qos = on
    BY <1>2 DEF Config
<1> HIDE DEF new
<1>5. Shows(new, flags'.conntrack, flags'.monitoring, ~(misread \/ failed))
    BY <1>2, <1>4, Zenon DEF Shows
<1>6. SwitchInv' /\ 0 \in DOMAIN FIREWALL_CONFIG' /\ FIREWALL_CONFIG'[0] = new
    BY <1>1, <1>3, <1>4, <1>5, ConfigWritten
<1>7. QED BY <1>4, <1>6

\* The key of a QoS request whose name resolves.
LEMMA QosKeyType ==
    ASSUME MemoryTyped, NEW r \in QosRequests, QosResolvable(r[1])
    PROVE  /\ << QosGroupId(r[1]), r[2] >> \in QosKeys
           /\ QosGroupId(r[1]) \in GroupIds \cup {0}
<1>1. CASE r[1] \in {"default", "any"}
    BY <1>1, BoundsAssumption DEF QosGroupId, QosKeys
<1>2. CASE r[1] \notin {"default", "any"}
    <2>1. r[1] \in DOMAIN directory.groups
        BY <1>2 DEF QosResolvable, Known
    <2>2. QosGroupId(r[1]) = directory.groups[r[1]].id
        BY <1>2 DEF QosGroupId
    <2>3. QED BY <2>1, <2>2, ResolvedId DEF QosKeys
<1>3. QED BY <1>1, <1>2

\* A QoS rule is limited in the kernel, then switched on, then listed.
LEMMA AddQosInv ==
    ASSUME IInv, NEW r \in QosRequests, NEW rate \in Rates, AddQos(r[1], r[2], rate)
    PROVE  IInv' /\ (\/ qos_rules' = Insert(qos_rules, << QosGroupId(r[1]), r[2] >>, rate)
                     \/ qos_rules' = qos_rules)
<1> DEFINE q == << QosGroupId(r[1]), r[2] >>
<1>1. /\ QosResolvable(r[1])
      /\ UNCHANGED << groupVars, policyVars, flags >>
      /\ \/ /\ QOS_CONFIG' = Insert(QOS_CONFIG, q, rate)
            /\ \E n \in {0, 1} : SyncQosEnabled(TRUE, n = 1) /\ Fail(n)
            /\ qos_rules' = Insert(qos_rules, q, rate)
         \/ /\ Fail(1)
            /\ QOS_CONFIG' \in {QOS_CONFIG, Insert(QOS_CONFIG, q, rate)}
            /\ UNCHANGED << qos_rules, switchVars >>
    BY DEF AddQos, qosVars
<1>2. q \in QosKeys
    BY <1>1, QosKeyType, Typed
<1>3. /\ QOS_CONFIG \in PartialMaps(QosKeys, Rates)
      /\ qos_rules \in PartialMaps(QosKeys, Rates)
      /\ QosInForce
      /\ faults \in 0 .. MaxFaults
    BY DEF IInv, QosInv
<1> HIDE DEF q
<1>4. /\ Insert(QOS_CONFIG, q, rate) \in PartialMaps(QosKeys, Rates)
      /\ Insert(qos_rules, q, rate) \in PartialMaps(QosKeys, Rates)
    BY <1>2, <1>3, InsertType
<1>5. FaultsGrow
    BY <1>1, <1>3, FailGrows, NoFailGrows
<1>6. QosInv' /\ SwitchInv'
    <2>1. CASE /\ QOS_CONFIG' = Insert(QOS_CONFIG, q, rate)
               /\ \E n \in {0, 1} : SyncQosEnabled(TRUE, n = 1) /\ Fail(n)
               /\ qos_rules' = Insert(qos_rules, q, rate)
        <3>1. /\ SwitchInv'
              /\ 0 \in DOMAIN FIREWALL_CONFIG'
              /\ FIREWALL_CONFIG'[0].qos = TRUE
            <4>1. PICK n \in {0, 1} : SyncQosEnabled(TRUE, n = 1)
                BY <2>1
            <4>2. (n = 1) \in BOOLEAN
                OBVIOUS
            <4>3. QED BY <4>1, <4>2, <1>1, SyncInv
        <3>2. q \in DOMAIN QOS_CONFIG'
            BY <2>1 DEF Insert
        <3>3. QosFlagInSync'
            BY <3>1, <3>2 DEF QosFlagInSync
        <3>4. faults' = 0 => QOS_CONFIG' = qos_rules'
            BY <2>1, <1>3, <1>5 DEF QosInForce, FaultsGrow
        <3>5. QosInForce'
            BY <3>1, <3>3, <3>4 DEF QosInForce
        <3>6. QED BY <3>1, <3>5, <2>1, <1>4 DEF QosInv
    <2>2. CASE /\ Fail(1)
               /\ QOS_CONFIG' \in {QOS_CONFIG, Insert(QOS_CONFIG, q, rate)}
               /\ UNCHANGED << qos_rules, switchVars >>
        <3>1. faults' # 0
            BY <2>2, <1>3, FailGrows
        <3>2. QosInForce'
            BY <3>1 DEF QosInForce
        <3>3. SwitchInv'
            BY <2>2, <1>1, SwitchesKept DEF configVars, switchVars
        <3>4. QED BY <2>2, <3>2, <3>3, <1>3, <1>4 DEF QosInv
    <2>3. QED BY <2>1, <2>2, <1>1
<1>7. GroupInv' /\ PolicyInv' /\ PoolInv'
    BY <1>1, <1>5, GroupsKept, PoliciesKept
<1>8. IInv'
    BY <1>5, <1>6, <1>7 DEF IInv, FaultsGrow
<1>9. QED BY <1>1, <1>8 DEF q

\* A QoS rule goes, and the switch with the last one.
LEMMA DeleteQosInv ==
    ASSUME IInv, NEW r \in QosRequests, DeleteQos(r[1], r[2])
    PROVE  IInv' /\ (\/ qos_rules' = Without(qos_rules, {<< QosGroupId(r[1]), r[2] >>})
                     \/ qos_rules' = qos_rules)
<1> DEFINE q    == << QosGroupId(r[1]), r[2] >>
           left == Without(QOS_CONFIG, {q})
<1>1. /\ UNCHANGED << groupVars, policyVars, flags >>
      /\ \/ /\ QOS_CONFIG' = left
            /\ qos_rules' = Without(qos_rules, {q})
            /\ \E unread, n \in {0, 1} :
                  SyncQosEnabled(unread = 0 /\ DOMAIN left # {}, n = 1) /\ Fail(unread + n)
         \/ /\ Fail(1)
            /\ QOS_CONFIG' \in {QOS_CONFIG, left}
            /\ UNCHANGED << qos_rules, switchVars >>
    BY DEF DeleteQos, qosVars
<1>2. /\ QOS_CONFIG \in PartialMaps(QosKeys, Rates)
      /\ qos_rules \in PartialMaps(QosKeys, Rates)
      /\ QosInForce
      /\ faults \in 0 .. MaxFaults
    BY DEF IInv, QosInv
<1>3. /\ left \in PartialMaps(QosKeys, Rates)
      /\ Without(qos_rules, {q}) \in PartialMaps(QosKeys, Rates)
    BY <1>2, RestrictType DEF Without
<1>4. QOS_CONFIG = qos_rules => left = Without(qos_rules, {q})
    OBVIOUS
<1> HIDE DEF q, left
<1>5. FaultsGrow
  <2>1. \A unread, n \in {0, 1} : unread + n \in Nat
      OBVIOUS
  <2>2. QED BY <1>1, <1>2, <2>1, FailGrows
<1>6. QosInv' /\ SwitchInv'
    <2>1. ASSUME NEW unread \in {0, 1}, NEW n \in {0, 1},
                 QOS_CONFIG' = left,
                 qos_rules' = Without(qos_rules, {q}),
                 SyncQosEnabled(unread = 0 /\ DOMAIN left # {}, n = 1),
                 Fail(unread + n)
          PROVE  QosInv' /\ SwitchInv'
        <3> DEFINE on == unread = 0 /\ DOMAIN left # {}
        <3>1. on \in BOOLEAN /\ (n = 1) \in BOOLEAN
            OBVIOUS
        <3>2. SyncQosEnabled(on, n = 1)
            BY <2>1
        <3>3. faults' = 0 => unread = 0
            <4>1. unread + n \in Nat /\ (unread + n = 0 => unread = 0)
                OBVIOUS
            <4>2. QED BY <2>1, <4>1, <1>2, FailGrows
        <3>4. faults' = 0 => (on <=> DOMAIN QOS_CONFIG' # {})
            BY <2>1, <3>3
        <3> HIDE DEF on
        <3>5. /\ SwitchInv'
              /\ 0 \in DOMAIN FIREWALL_CONFIG'
              /\ FIREWALL_CONFIG'[0].qos = on
            BY <3>1, <3>2, <1>1, SyncInv
        <3>6. faults' = 0 => QosFlagInSync'
            BY <3>4, <3>5 DEF QosFlagInSync
        <3>7. faults' = 0 => QOS_CONFIG' = qos_rules'
            BY <2>1, <1>2, <1>4, <1>5 DEF QosInForce, FaultsGrow
        <3>8. QosInForce'
            BY <3>5, <3>6, <3>7 DEF QosInForce
        <3>9. QED BY <2>1, <3>5, <3>8, <1>3 DEF QosInv
    <2>2. CASE /\ Fail(1)
               /\ QOS_CONFIG' \in {QOS_CONFIG, left}
               /\ UNCHANGED << qos_rules, switchVars >>
        <3>1. faults' # 0
            BY <2>2, <1>2, FailGrows
        <3>2. QosInForce'
            BY <3>1 DEF QosInForce
        <3>3. SwitchInv'
            BY <2>2, <1>1, SwitchesKept DEF configVars
        <3>4. QED BY <2>2, <3>2, <3>3, <1>2, <1>3 DEF QosInv
    <2>3. QED BY <2>1, <2>2, <1>1
<1>7. GroupInv' /\ PolicyInv' /\ PoolInv'
    BY <1>1, <1>5, GroupsKept, PoliciesKept
<1>8. IInv'
    BY <1>5, <1>6, <1>7 DEF IInv, FaultsGrow
<1>9. QED BY <1>1, <1>8 DEF q

\* The switches change in the kernel and in memory, or in neither.
LEMMA UpdateConfigInv ==
    ASSUME IInv, NEW r \in ConfigRequests, UpdateConfig(r[1], r[2])
    PROVE  IInv'
<1> DEFINE cfg(n) == ConfigRead(NumCpus, n = 1)
           new(n) == [cfg(n) EXCEPT !.conntrack = Given(r[1], @), !.monitoring = Given(r[2], @)]
           ct  == Given(r[1], flags.conntrack)
           mon == Given(r[2], flags.monitoring)
<1>1. /\ SwitchInv
      /\ FIREWALL_CONFIG \in PartialMaps({0}, Config)
      /\ flags.conntrack \in BOOLEAN /\ flags.monitoring \in BOOLEAN
      /\ faults \in 0 .. MaxFaults
    BY DEF IInv, SwitchInv, Switches
<1>2. \/ /\ \E n \in {0, 1} : WriteConfig(new(n), n = 1) /\ Fail(n)
         /\ flags' = [conntrack |-> ct, monitoring |-> mon]
      \/ Fail(1) /\ UNCHANGED configVars
    BY DEF UpdateConfig
<1>3. UNCHANGED << groupVars, policyVars, qosVars >>
    BY DEF UpdateConfig
<1>4. ASSUME NEW n \in {0, 1}
      PROVE  /\ cfg(n) \in Config
             /\ Shows(cfg(n), flags.conntrack, flags.monitoring, ~(misread \/ n = 1))
             /\ n = 0 /\ 0 \in DOMAIN FIREWALL_CONFIG => cfg(n) = FIREWALL_CONFIG[0]
             /\ 0 \notin DOMAIN FIREWALL_CONFIG => cfg(n).qos = FALSE
  <2>1. (n = 1) \in BOOLEAN /\ NumCpus \in {1, NumCpus}
      OBVIOUS
  <2>2. cfg(n) \in Config /\ Shows(cfg(n), flags.conntrack, flags.monitoring, ~(misread \/ n = 1))
      BY <1>1, <2>1, ConfigReadTyped, ConfigReadShows
  <2>3. QED BY <2>2 DEF ConfigRead
<1>5. FaultsGrow
    BY <1>1, <1>2, FailGrows
<1>6. r[1] \in SUBSET BOOLEAN /\ r[2] \in SUBSET BOOLEAN
    BY SwitchesAssumption
<1>7. \A option \in SUBSET BOOLEAN, b \in BOOLEAN : Given(option, b) \in BOOLEAN
    BY DEF Given
<1> HIDE DEF cfg
<1>8. ASSUME NEW n \in {0, 1}, WriteConfig(new(n), n = 1), Fail(n),
             flags' = [conntrack |-> ct, monitoring |-> mon]
      PROVE  QosInv' /\ SwitchInv'
  <2> DEFINE c == cfg(n)
             w == new(n)
  <2>1. c \in Config /\ c.conntrack \in BOOLEAN /\ c.monitoring \in BOOLEAN
      BY <1>4 DEF Config
  <2>2. Given(r[1], c.conntrack) \in BOOLEAN /\ Given(r[2], c.monitoring) \in BOOLEAN
      BY <1>6, <1>7, <2>1
  <2>3. flags' \in Switches /\ flags'.conntrack = ct /\ flags'.monitoring = mon
      BY <1>1, <1>6, <1>7, <1>8 DEF Switches
  <2>4. Shows(c, flags.conntrack, flags.monitoring, ~(misread \/ n = 1))
      BY <1>4
  <2>5. WriteConfig(w, n = 1)
      BY <1>8
  <2> HIDE DEF c
  <2>6. /\ w \in Config
        /\ w.conntrack = Given(r[1], c.conntrack)
        /\ w.monitoring = Given(r[2], c.monitoring)
        /\ w.qos = c.qos
      BY <2>1, <2>2 DEF Config, c
  <2> HIDE DEF w
  <2>7. Shows(w, flags'.conntrack, flags'.monitoring, ~(misread \/ n = 1))
    <3>1. flags'.conntrack => w.conntrack
        <4>1. flags.conntrack => c.conntrack
            BY <2>4, Zenon DEF Shows
        <4>2. Given(r[1], flags.conntrack) => Given(r[1], c.conntrack)
            BY <4>1, Zenon DEF Given
        <4>3. QED BY <4>2, <2>3, <2>6
    <3>2. flags'.monitoring => w.monitoring
        <4>1. flags.monitoring => c.monitoring
            BY <2>4, Zenon DEF Shows
        <4>2. Given(r[2], flags.monitoring) => Given(r[2], c.monitoring)
            BY <4>1, Zenon DEF Given
        <4>3. QED BY <4>2, <2>3, <2>6
    <3>3. ASSUME ~(misread \/ n = 1)
          PROVE  w.conntrack = flags'.conntrack /\ w.monitoring = flags'.monitoring
        <4>1. c.conntrack = flags.conntrack /\ c.monitoring = flags.monitoring
            BY <2>4, <3>3, Zenon DEF Shows
        <4>2. QED BY <4>1, <2>3, <2>6
    <3>4. QED BY <3>1, <3>2, <3>3, Zenon DEF Shows
  <2>8. (n = 1) \in BOOLEAN
      OBVIOUS
  <2>9. SwitchInv' /\ 0 \in DOMAIN FIREWALL_CONFIG' /\ FIREWALL_CONFIG'[0] = w
      BY <1>1, <2>3, <2>5, <2>6, <2>7, <2>8, ConfigWritten
  <2>10. ASSUME faults' = 0
         PROVE  QosFlagInSync' /\ QOS_CONFIG' = qos_rules'
    <3>1. faults = 0 /\ n = 0
        BY <2>10, <1>1, <1>8, FailGrows DEF FaultsGrow
    <3>2. QosInForce /\ UNCHANGED << QOS_CONFIG, qos_rules >>
        BY <1>3 DEF IInv, QosInv, qosVars
    <3>3. w.qos <=> DOMAIN QOS_CONFIG # {}
        BY <3>1, <3>2, <1>4, <2>6 DEF QosInForce, QosFlagInSync, c
    <3>4. QosFlagInSync'
        BY <3>2, <3>3, <2>9 DEF QosFlagInSync
    <3>5. QED BY <3>1, <3>2, <3>4 DEF QosInForce
  <2>11. QosInForce'
      BY <2>9, <2>10 DEF QosInForce
  <2>12. QosInv'
      BY <2>11, <1>3 DEF IInv, QosInv, qosVars
  <2>13. QED BY <2>9, <2>12
<1>9. QosInv' /\ SwitchInv'
  <2>1. CASE Fail(1) /\ UNCHANGED configVars
      BY <2>1, <1>3, <1>5, QosKept, SwitchesKept DEF configVars, switchVars
  <2>2. QED BY <2>1, <1>2, <1>8
<1>10. GroupInv' /\ PolicyInv' /\ PoolInv'
    BY <1>3, <1>5, GroupsKept, PoliciesKept
<1>11. QED BY <1>5, <1>9, <1>10 DEF IInv, FaultsGrow

\* Every step keeps the invariant.
LEMMA StepInv == IInv /\ [Next]_vars => IInv'
<1> SUFFICES ASSUME IInv, [Next]_vars PROVE IInv'
    OBVIOUS
<1>1. CASE \E r \in GroupRequests : AddGroup(r[1], r[2])
    BY <1>1, AddGroupInv
<1>2. CASE \E r \in GroupRequests : DeleteGroup(r[1])
    BY <1>2, DeleteGroupInv
<1>3. CASE \E r \in PolicyRequests, a \in {0, 1}, p \in PortTexts : AddPolicy(r, a, p)
    BY <1>3, AddPolicyInv
<1>4. CASE \E r \in PolicyRequests : DeletePolicy(r)
    BY <1>4, DeletePolicyInv
<1>5. CASE \E r \in QosRequests, rate \in Rates : AddQos(r[1], r[2], rate)
    BY <1>5, AddQosInv
<1>6. CASE \E r \in QosRequests : DeleteQos(r[1], r[2])
    BY <1>6, DeleteQosInv
<1>7. CASE \E r \in ConfigRequests : UpdateConfig(r[1], r[2])
    BY <1>7, UpdateConfigInv
<1>8. CASE UNCHANGED vars
    <2>1. FaultsGrow /\ UNCHANGED << groupVars, policyVars, qosVars, configVars >>
        BY <1>8, NoFailGrows DEF IInv, vars
    <2>2. GroupInv' /\ PolicyInv' /\ PoolInv' /\ QosInv' /\ SwitchInv'
        BY <2>1, GroupsKept, PoliciesKept, QosKept, SwitchesKept DEF configVars, switchVars
    <2>3. QED BY <2>1, <2>2 DEF IInv, FaultsGrow
<1>9. QED BY <1>1, <1>2, <1>3, <1>4, <1>5, <1>6, <1>7, <1>8 DEF Next

\* The inductive invariant holds in every reachable state.
THEOREM Invariant == Spec => []IInv
<1>1. QED BY InitInv, StepInv, PTL DEF Spec

\* No two groups ever share an id, whatever add_group hands out and gives back.
THEOREM DistinctIds == Spec => []GroupIdsDistinct
<1>1. IInv => GroupIdsDistinct
    BY DirectoryParts DEF IInv, GroupInv, GroupIdsDistinct
<1>2. QED BY <1>1, Invariant, PTL

\* Without a failing call, an address is in a group only if that group lists
\* its CIDR, also when groups share CIDRs and one of them is deleted.
THEOREM TriesFollowGroups == Spec => []TriesNameOwners
<1>1. IInv => TriesNameOwners
    BY DEF IInv, GroupInv
<1>2. QED BY <1>1, Invariant, PTL

\* Whatever calls fail, the kernel enforces the rules the API lists.
THEOREM KernelFollowsRules == Spec => []KernelHasTheRules
<1>1. IInv => KernelHasTheRules
    BY DEF IInv, PolicyInv
<1>2. QED BY <1>1, Invariant, PTL

\* Whatever calls fail, every port of a port set in use is in the pool under
\* its index, with a verdict the set asks for.
THEOREM LivePortsStay == Spec => []LivePortsWritten
<1>1. IInv => LivePortsWritten
    BY DEF IInv, PoolInv
<1>2. QED BY <1>1, Invariant, PTL

\* Without a failing call, the kernel limits what the API lists.
THEOREM KernelFollowsQos == Spec => []QosInForce
<1>1. IInv => QosInForce
    BY DEF IInv, QosInv
<1>2. QED BY <1>1, Invariant, PTL

\* Whatever calls fail, no switch is off in the kernel that memory has on, and
\* both are what memory has while no failing read has been replaced by the
\* defaults.
THEOREM KernelFollowsSwitches == Spec => []SwitchesInForce
<1>1. IInv => SwitchesInForce
    BY DEF IInv, SwitchInv
<1>2. QED BY <1>1, Invariant, PTL

(***************************************************************************)
(* References to groups.                                                   *)
(***************************************************************************)

\* With the rules and QoS rules among the old ones, it is enough that the
\* groups they refer to stay.
LEMMA ReferencesStay ==
    ASSUME RuleGroupsExist,
           DOMAIN table'.rules \subseteq DOMAIN table.rules,
           DOMAIN qos_rules' \subseteq DOMAIN qos_rules,
           \A k \in DOMAIN table.rules : {k[1], k[2]} \cap GroupIds \subseteq GroupIds',
           \A q \in DOMAIN qos_rules : {q[1]} \cap GroupIds \subseteq GroupIds'
    PROVE  RuleGroupsExist'
BY DEF RuleGroupsExist

\* No handler takes a group away from a rule, unless a call of its own fails.
LEMMA StepKeepsReferences ==
    ASSUME IInv, Next, RuleGroupsExist, faults' = faults
    PROVE  RuleGroupsExist'
<1>1. ASSUME NEW r \in GroupRequests, AddGroup(r[1], r[2])
      PROVE  RuleGroupsExist'
    <2> DEFINE added == ApplyAddGroup(directory, r[1], r[2])
    <2>1. /\ r[1] \in Names /\ r[2] \in Cidrs /\ GoodDirectory(directory)
          /\ faults \in 0 .. MaxFaults
        BY DEF Names, Cidrs, IInv, GroupInv
    <2>2. UNCHANGED << table, qos_rules >> /\ (directory' = added \/ Fail(1) \/ Fail(2))
        BY <1>1 DEF AddGroup, policyVars, qosVars
    <2>3. directory' = added
        BY <2>1, <2>2, FailGrows
    <2>4. \A n \in DOMAIN directory.groups :
              n \in DOMAIN added.groups /\ added.groups[n].id = directory.groups[n].id
        BY <2>1, GroupAdded
    <2> HIDE DEF added
    <2>5. GroupIds \subseteq GroupIds'
        BY <2>3, <2>4 DEF GroupIds
    <2>6. QED BY <2>2, <2>5, ReferencesStay
<1>2. ASSUME NEW r \in GroupRequests, DeleteGroup(r[1])
      PROVE  RuleGroupsExist'
    <2> DEFINE left == ApplyDeleteGroup(directory, r[1])
               id   == directory.groups[r[1]].id
    <2>1. /\ UNCHANGED << table, qos_rules >>
          /\ directory' \in {left, directory}
          /\ ~GroupInUse(id)
        BY <1>2 DEF DeleteGroup, policyVars, qosVars
    <2>2. /\ DOMAIN left.groups = DOMAIN directory.groups \ {r[1]}
          /\ \A n \in DOMAIN left.groups : left.groups[n] = directory.groups[n]
        BY GroupDeleted DEF IInv, GroupInv
    <2> HIDE DEF left, id
    <2>3. GroupIds \subseteq GroupIds' \cup {id}
        BY <2>1, <2>2 DEF GroupIds, id
    <2>4. /\ \A k \in DOMAIN table.rules : k[1] # id /\ k[2] # id
          /\ \A q \in DOMAIN qos_rules : q[1] # id
        BY <2>1 DEF GroupInUse
    <2>5. QED BY <2>1, <2>3, <2>4, ReferencesStay
<1>3. ASSUME NEW req \in PolicyRequests, NEW a \in {0, 1}, NEW p \in PortTexts,
             AddPolicy(req, a, p)
      PROVE  RuleGroupsExist'
    <2> DEFINE k     == PolicyKey(req)
               added == ApplyAddRule(table, k, a, p)
    <2>1. /\ Resolvable(req)
          /\ AddRuleAccepts(table, MaxPortPolicies, p)
          /\ UNCHANGED << directory, qos_rules >>
        BY <1>3 DEF AddPolicy, groupVars, qosVars
    <2>2. /\ k \in RuleKeys
          /\ k[1] \in GroupIds \cup {0}
          /\ k[2] \in GroupIds \cup {0}
        BY <2>1, PolicyKeyType, Typed
    <2>3. DOMAIN added.rules = DOMAIN table.rules \cup {k}
        BY <2>1, <2>2, RuleAdded DEF IInv, PolicyInv
    <2>4. table' = added \/ table' = table
        BY <1>3, AddPolicyInv
    <2> HIDE DEF k, added
    <2>5. \A l \in DOMAIN table'.rules : l \in DOMAIN table.rules \/ l = k
        BY <2>3, <2>4
    <2>6. GroupIds' = GroupIds
        BY <2>1 DEF GroupIds
    <2>7. QED BY <2>1, <2>2, <2>5, <2>6 DEF RuleGroupsExist
<1>4. ASSUME NEW req \in PolicyRequests, DeletePolicy(req)
      PROVE  RuleGroupsExist'
    <2> DEFINE k == PolicyKey(req)
    <2>1. UNCHANGED << directory, qos_rules >>
        BY <1>4 DEF DeletePolicy, groupVars, qosVars
    <2>2. \/ k \in DOMAIN table.rules /\ table' = ApplyRemoveRule(table, k)
          \/ table' = table
        BY <1>4, DeletePolicyInv
    <2>3. DOMAIN table'.rules \subseteq DOMAIN table.rules
        BY <2>2, RuleRemoved DEF IInv, PolicyInv
    <2>4. GroupIds' = GroupIds
        BY <2>1 DEF GroupIds
    <2>5. QED BY <2>1, <2>3, <2>4, ReferencesStay
<1>5. ASSUME NEW r \in QosRequests, NEW rate \in Rates, AddQos(r[1], r[2], rate)
      PROVE  RuleGroupsExist'
    <2> DEFINE q == << QosGroupId(r[1]), r[2] >>
    <2>1. QosResolvable(r[1]) /\ UNCHANGED << directory, table >>
        BY <1>5 DEF AddQos, groupVars, policyVars
    <2>2. q[1] \in GroupIds \cup {0}
        BY <2>1, QosKeyType, Typed
    <2>3. qos_rules' = Insert(qos_rules, q, rate) \/ qos_rules' = qos_rules
        BY <1>5, AddQosInv
    <2> HIDE DEF q
    <2>4. \A x \in DOMAIN qos_rules' : x \in DOMAIN qos_rules \/ x = q
        BY <2>3 DEF Insert
    <2>5. GroupIds' = GroupIds
        BY <2>1 DEF GroupIds
    <2>6. QED BY <2>1, <2>2, <2>4, <2>5 DEF RuleGroupsExist
<1>6. ASSUME NEW r \in QosRequests, DeleteQos(r[1], r[2])
      PROVE  RuleGroupsExist'
    <2> DEFINE q == << QosGroupId(r[1]), r[2] >>
    <2>1. UNCHANGED << directory, table >>
        BY <1>6 DEF DeleteQos, groupVars, policyVars
    <2>2. qos_rules' = Without(qos_rules, {q}) \/ qos_rules' = qos_rules
        BY <1>6, DeleteQosInv
    <2>3. DOMAIN qos_rules' \subseteq DOMAIN qos_rules
        BY <2>2 DEF Without, Restrict
    <2>4. GroupIds' = GroupIds
        BY <2>1 DEF GroupIds
    <2>5. QED BY <2>1, <2>3, <2>4, ReferencesStay
<1>7. ASSUME NEW r \in ConfigRequests, UpdateConfig(r[1], r[2])
      PROVE  RuleGroupsExist'
    <2>1. UNCHANGED << directory, table, qos_rules >>
        BY <1>7 DEF UpdateConfig, groupVars, policyVars, qosVars
    <2>2. GroupIds' = GroupIds
        BY <2>1 DEF GroupIds
    <2>3. QED BY <2>1, <2>2, ReferencesStay
<1>8. QED BY <1>1, <1>2, <1>3, <1>4, <1>5, <1>6, <1>7 DEF Next

\* Only a failing call can lose a group that a rule refers to.
THEOREM NoReferenceLost == Spec => ReferencesKept
<1>1. IInv /\ [Next]_vars => [RuleGroupsExist /\ faults' = faults => RuleGroupsExist']_vars
    BY StepKeepsReferences
<1>2. QED BY <1>1, Invariant, PTL DEF Spec, ReferencesKept

(***************************************************************************)
(* The handlers implement the rule table.                                  *)
(***************************************************************************)

\* The two instances of RuleTable have the same normal forms,
LEMMA SameNormalForms == \A p : RT!Normalize(p) = Rules!Normalize(p)
<1>1. \A S : RT!Cardinality(S) = Rules!Cardinality(S)
    BY Zenon DEF RT!Cardinality, Rules!Cardinality
<1>2. \A s, entry : RT!InsertSorted(s, entry) = Rules!InsertSorted(s, entry)
    BY <1>1, Zenon DEF RT!InsertSorted, Rules!InsertSorted, RT!EntryBefore, Rules!EntryBefore
<1>3. \A p : RT!ParsePorts(p) = Rules!ParsePorts(p)
    BY Zenon DEF RT!ParsePorts, Rules!ParsePorts, RT!BpfAction, Rules!BpfAction
<1>4. QED BY <1>2, <1>3, Zenon DEF RT!Normalize, Rules!Normalize

\* the same apply_add_rule,
LEMMA SameAdditions ==
    ASSUME NEW t, NEW k, NEW a, NEW p
    PROVE  RT!ApplyAddRule(t, k, a, p) = Rules!ApplyAddRule(t, k, a, p)
<1>1. \A n : RT!AcquirePortSet(t, n) = Rules!AcquirePortSet(t, n)
    BY Zenon
       DEF RT!AcquirePortSet, RT!ReuseIdx, RT!PopIdx, RT!FreshIdx, RT!Insert,
           Rules!AcquirePortSet, Rules!ReuseIdx, Rules!PopIdx, Rules!FreshIdx, Rules!Insert
<1>2. \A u, old, new : RT!DropOldIdx(u, old, new) = Rules!DropOldIdx(u, old, new)
    BY ZenonT(40)
       DEF RT!DropOldIdx, RT!ReleasePortSet, RT!FreeSet, RT!LowerCount, RT!HasPortSet,
           RT!PortSetAt, RT!NoIdx, RT!Restrict,
           Rules!DropOldIdx, Rules!ReleasePortSet, Rules!FreeSet, Rules!LowerCount,
           Rules!HasPortSet, Rules!PortSetAt, Rules!NoIdx, Rules!Restrict
<1>3. \A u, rule : RT!PutRule(u, k, rule) = Rules!PutRule(u, k, rule)
    BY Zenon DEF RT!PutRule, RT!Insert, Rules!PutRule, Rules!Insert
<1>4. RT!IdxOf(t, k) = Rules!IdxOf(t, k) /\ RT!NoIdx = Rules!NoIdx /\ RT!AllPorts = Rules!AllPorts
    BY Zenon DEF RT!IdxOf, RT!NoIdx, RT!AllPorts, Rules!IdxOf, Rules!NoIdx, Rules!AllPorts
<1>5. QED BY SameNormalForms, <1>1, <1>2, <1>3, <1>4, Zenon DEF RT!ApplyAddRule, Rules!ApplyAddRule

\* and are the same machine.
LEMMA SameMachine ==
    /\ RT!Init <=> Rules!Init
    /\ RT!Next <=> Rules!Next
    /\ UNCHANGED RT!vars <=> UNCHANGED Rules!vars
<1>1. RT!Init <=> Rules!Init
    BY Zenon DEF RT!Init, RT!EmptyTable, Rules!Init, Rules!EmptyTable
<1>2. \A t, k, a, p : RT!ApplyAddRule(t, k, a, p) = Rules!ApplyAddRule(t, k, a, p)
    BY SameAdditions
<1>3. ASSUME NEW t, NEW k
      PROVE  RT!ApplyRemoveRule(t, k) = Rules!ApplyRemoveRule(t, k)
    BY Zenon
       DEF RT!ApplyRemoveRule, RT!RemoveKey, RT!ReleasePortSet, RT!FreeSet, RT!LowerCount,
           RT!IdxOf, RT!HasPortSet, RT!PortSetAt, RT!NoIdx, RT!Restrict,
           Rules!ApplyRemoveRule, Rules!RemoveKey, Rules!ReleasePortSet, Rules!FreeSet,
           Rules!LowerCount, Rules!IdxOf, Rules!HasPortSet, Rules!PortSetAt, Rules!NoIdx,
           Rules!Restrict
<1>4. \A t, max, p : RT!AddRuleAccepts(t, max, p) <=> Rules!AddRuleAccepts(t, max, p)
    BY SameNormalForms, Zenon
       DEF RT!AddRuleAccepts, RT!LimitReached, RT!ValidPorts, RT!AllPorts,
           Rules!AddRuleAccepts, Rules!LimitReached, Rules!ValidPorts, Rules!AllPorts
<1>5. RT!Next <=> Rules!Next
    <2>1. \A k, a, p : RT!AddRule(k, a, p) <=> Rules!AddRule(k, a, p)
        BY <1>2, <1>4 DEF RT!AddRule, Rules!AddRule
    <2>2. \A k : RT!RemoveRule(k) <=> Rules!RemoveRule(k)
        BY <1>3 DEF RT!RemoveRule, Rules!RemoveRule
    <2>3. QED
        BY <2>1, <2>2, Zenon DEF RT!Next, RT!Actions, RT!SetMaxPortPolicies,
                                 Rules!Next, Rules!Actions, Rules!SetMaxPortPolicies
<1>6. UNCHANGED RT!vars <=> UNCHANGED Rules!vars
    BY Zenon DEF RT!vars, Rules!vars
<1>7. QED BY <1>1, <1>5, <1>6

\* A step of a handler adds or removes a rule, or leaves the table alone.
LEMMA StepOfTable ==
    ASSUME IInv, Next
    PROVE  RT!Next \/ UNCHANGED RT!vars
<1>1. ASSUME NEW req \in PolicyRequests, NEW a \in {0, 1}, NEW p \in PortTexts,
             AddPolicy(req, a, p)
      PROVE  RT!Next \/ UNCHANGED RT!vars
    <2> DEFINE k == PolicyKey(req)
    <2>1. Resolvable(req) /\ AddRuleAccepts(table, MaxPortPolicies, p)
        BY <1>1 DEF AddPolicy
    <2>2. k \in RuleKeys
        BY <2>1, PolicyKeyType, Typed
    <2>3. table' = ApplyAddRule(table, k, a, p) \/ table' = table
        BY <1>1, AddPolicyInv
    <2>4. CASE table' = ApplyAddRule(table, k, a, p)
        <3>1. RT!AddRule(k, a, p)
            BY <2>1, <2>4, SameAddRule, SameAccepts DEF RT!AddRule
        <3>2. a \in RT!Actions
            BY DEF RT!Actions
        <3>3. QED BY <3>1, <3>2, <2>2 DEF RT!Next
    <2>5. CASE table' = table
        BY <2>5 DEF RT!vars
    <2>6. QED BY <2>3, <2>4, <2>5
<1>2. ASSUME NEW req \in PolicyRequests, DeletePolicy(req)
      PROVE  RT!Next \/ UNCHANGED RT!vars
    <2> DEFINE k == PolicyKey(req)
    <2>1. Resolvable(req)
        BY <1>2 DEF DeletePolicy
    <2>2. k \in RuleKeys
        BY <2>1, PolicyKeyType, Typed
    <2>3. \/ k \in DOMAIN table.rules /\ table' = ApplyRemoveRule(table, k)
          \/ table' = table
        BY <1>2, DeletePolicyInv
    <2>4. CASE k \in DOMAIN table.rules /\ table' = ApplyRemoveRule(table, k)
        <3>1. RT!RemoveRule(k)
            BY <2>4, SameRemoveRule DEF RT!RemoveRule
        <3>2. QED BY <3>1, <2>2 DEF RT!Next
    <2>5. CASE table' = table
        BY <2>5 DEF RT!vars
    <2>6. QED BY <2>3, <2>4, <2>5
<1>3. \/ \E req \in PolicyRequests, a \in {0, 1}, p \in PortTexts : AddPolicy(req, a, p)
      \/ \E req \in PolicyRequests : DeletePolicy(req)
      \/ table' = table
    <2>1. ASSUME NEW r, AddGroup(r[1], r[2]) PROVE table' = table
        BY <2>1 DEF AddGroup, policyVars
    <2>2. ASSUME NEW r, DeleteGroup(r[1]) PROVE table' = table
        BY <2>2 DEF DeleteGroup, policyVars
    <2>3. ASSUME NEW r, NEW rate, AddQos(r[1], r[2], rate) PROVE table' = table
        BY <2>3 DEF AddQos, policyVars
    <2>4. ASSUME NEW r, DeleteQos(r[1], r[2]) PROVE table' = table
        BY <2>4 DEF DeleteQos, policyVars
    <2>5. ASSUME NEW r, UpdateConfig(r[1], r[2]) PROVE table' = table
        BY <2>5 DEF UpdateConfig, policyVars
    <2>6. QED BY <2>1, <2>2, <2>3, <2>4, <2>5 DEF Next
<1>4. table' = table => UNCHANGED RT!vars
    BY DEF RT!vars
<1>5. QED BY <1>1, <1>2, <1>3, <1>4

\* The table of the handlers, with snapshots and rollbacks, behaves as a
\* RuleTable.
THEOREM Refinement == Spec => ImplementsRuleTable
<1>1. Init => Rules!Init
    <2>1. Init => RT!Init
        BY Zenon DEF RT!Init, RT!EmptyTable, Init, EmptyTable
    <2>2. QED BY <2>1, SameMachine
<1>2. IInv /\ [Next]_vars => [Rules!Next]_(Rules!vars)
    <2>1. UNCHANGED vars => UNCHANGED RT!vars
        BY DEF vars, policyVars, RT!vars
    <2>2. IInv /\ [Next]_vars => RT!Next \/ UNCHANGED RT!vars
        BY <2>1, StepOfTable
    <2>3. QED BY <2>2, SameMachine
<1>3. QED BY <1>1, <1>2, Invariant, PTL DEF Spec, ImplementsRuleTable, Rules!Spec

(***************************************************************************)
(* Types.                                                                  *)
(***************************************************************************)
\* A partial map, in the words of IsMap.
LEMMA IsMapDef ==
    ASSUME NEW S, NEW T, NEW f \in PartialMaps(S, T)
    PROVE  Rules!IsMap(f, S, T)
BY DEF PartialMaps, Rules!IsMap

\* The table is one of a rule table.
LEMMA TableType ==
    ASSUME MemoryTyped
    PROVE  Rules!TypeOK
<1>1. table \in RT!Tables /\ RT!Consistent(table)
    BY DEF MemoryTyped
<1>2. RT!IInv
    BY <1>1, TableAssumptions, RT!IInvDef
<1>3. RT!TypeOK
    BY <1>2 DEF RT!IInv
<1>4. RT!NormalForms = Rules!NormalForms
    BY SameNormalForms DEF RT!NormalForms, Rules!NormalForms
<1>5. RT!RuleInfo = Rules!RuleInfo /\ RT!PortSetInfo = Rules!PortSetInfo
    BY Zenon DEF RT!RuleInfo, Rules!RuleInfo, RT!Actions, Rules!Actions, RT!NoIdx, Rules!NoIdx,
                 RT!PortSetInfo, Rules!PortSetInfo
<1>6. \A f, S, T : RT!IsMap(f, S, T) <=> Rules!IsMap(f, S, T)
    BY DEF RT!IsMap, Rules!IsMap
<1>7. QED BY <1>3, <1>4, <1>5, <1>6, Zenon DEF RT!TypeOK, Rules!TypeOK

\* Every value has its type.
LEMMA TypesOK ==
    ASSUME MemoryTyped, KernelTyped, misread \in BOOLEAN, faults \in 0 .. MaxFaults
    PROVE  TypeOK
<1>1. /\ directory.groups \in PartialMaps(Names, Groups)
      /\ directory.next_group_id \in 1 .. MaxGroupId + 1
      /\ \A n \in DOMAIN directory.groups : GoodGroup(directory.groups[n], directory.next_group_id)
    BY BoundsAssumption DEF MemoryTyped, GoodDirectory, Directories
<1>2. Rules!IsMap(directory.groups, {r[1] : r \in GroupRequests}, GroupInfo)
  <2>1. DOMAIN directory.groups \subseteq Names
        /\ directory.groups \in [DOMAIN directory.groups -> Groups]
      BY <1>1 DEF PartialMaps
  <2>2. ASSUME NEW n \in DOMAIN directory.groups
        PROVE  directory.groups[n] \in GroupInfo
    <3>1. directory.groups[n].id \in 1 .. MaxGroupId
        BY <1>1, BoundsAssumption DEF GoodGroup
    <3>2. directory.groups[n] \in Groups
        BY <1>1 DEF GoodGroup
    <3>3. QED BY <3>1, <3>2 DEF Groups, GroupInfo
  <2>3. QED BY <2>1, <2>2 DEF Rules!IsMap, Names
<1>3. Rules!IsMap(POLICY_TABLE, RuleKeys,
                  [action : {0, 1}, has_port_filter : BOOLEAN, bitmap_idx : Nat])
    BY IsMapDef DEF KernelTyped, PolicyValues
<1>4. PORT_BITMAP_POOL \in [DOMAIN PORT_BITMAP_POOL -> {1, 2}]
    BY DEF KernelTyped, Pools, PartialMaps
<1>5. \A trie \in {SRC_TRIE, DST_TRIE} : Rules!IsMap(trie, Cidrs, 1 .. MaxGroupId)
    BY IsMapDef DEF KernelTyped
<1>6. \A q \in {QOS_CONFIG, qos_rules} :
          Rules!IsMap(q, (0 .. MaxGroupId) \X {r[2] : r \in QosRequests}, Rates)
    BY IsMapDef DEF MemoryTyped, KernelTyped, QosKeys
<1>7. Rules!IsMap(FIREWALL_CONFIG, {0}, Config)
      /\ flags \in [conntrack : BOOLEAN, monitoring : BOOLEAN]
    BY IsMapDef DEF MemoryTyped, KernelTyped, Switches
<1>8. QED BY <1>1, <1>2, <1>3, <1>4, <1>5, <1>6, <1>7, TableType DEF TypeOK, MemoryTyped

\* The fields of FirewallState and the values of the maps keep their types;
\* a policy always has an index the kernel can look up.
THEOREM TypeCorrect == Spec => []TypeOK
<1>1. IInv => TypeOK
    BY Typed, TypesOK DEF IInv, SwitchInv
<1>2. QED BY <1>1, Invariant, PTL

(***************************************************************************)
(* The values of the maps keep their types whatever the maps hold: also    *)
(* where a restart has left the kernel with other rules than the memory.   *)
(***************************************************************************)

\* Whatever is left of a CIDR in the tries, its id is within the bound.
LEMMA AddGroupTyped ==
    ASSUME MemoryTyped, KernelTyped, NEW r \in GroupRequests, AddGroup(r[1], r[2])
    PROVE  KernelTyped'
<1> DEFINE added == ApplyAddGroup(directory, r[1], r[2])
           id    == added.groups[r[1]].id
<1>1. r[1] \in Names /\ r[2] \in Cidrs
    BY DEF Names, Cidrs
<1>2. /\ added.next_group_id <= MaxGroupId + 1
      /\ SRC_TRIE' \in {SRC_TRIE, Without(SRC_TRIE, {r[2]}), Insert(SRC_TRIE, r[2], id)}
      /\ DST_TRIE' \in {DST_TRIE, Insert(DST_TRIE, r[2], id)}
      /\ UNCHANGED << policyVars, qosVars, configVars >>
    BY DEF AddGroup, tries
<1>3. GoodDirectory(added) /\ id \in 1 .. added.next_group_id - 1
    BY <1>1, GroupAdded DEF MemoryTyped
<1>4. id \in 1 .. MaxGroupId
  <2>1. added.next_group_id \in Nat
      BY <1>3, DirectoryParts
  <2> HIDE DEF added
  <2>2. QED BY <1>2, <1>3, <2>1, BoundsAssumption
<1> HIDE DEF id
<1>5. /\ SRC_TRIE \in PartialMaps(Cidrs, 1 .. MaxGroupId)
      /\ DST_TRIE \in PartialMaps(Cidrs, 1 .. MaxGroupId)
    BY DEF KernelTyped
<1>6. /\ Insert(SRC_TRIE, r[2], id) \in PartialMaps(Cidrs, 1 .. MaxGroupId)
      /\ Insert(DST_TRIE, r[2], id) \in PartialMaps(Cidrs, 1 .. MaxGroupId)
      /\ Without(SRC_TRIE, {r[2]}) \in PartialMaps(Cidrs, 1 .. MaxGroupId)
    BY <1>1, <1>4, <1>5, InsertType, RestrictType DEF Without
<1>7. /\ SRC_TRIE' \in PartialMaps(Cidrs, 1 .. MaxGroupId)
      /\ DST_TRIE' \in PartialMaps(Cidrs, 1 .. MaxGroupId)
    BY <1>2, <1>5, <1>6
<1>8. QED BY <1>2, <1>7 DEF KernelTyped, policyVars, qosVars, configVars, switchVars

\* The deletion of a group only removes keys.
LEMMA DeleteGroupTyped ==
    ASSUME KernelTyped, NEW name, DeleteGroup(name)
    PROVE  KernelTyped'
<1>1. PICK S, T : SRC_TRIE' = Without(SRC_TRIE, S) /\ DST_TRIE' = Without(DST_TRIE, T)
    BY DEF DeleteGroup
<1>2. UNCHANGED << policyVars, qosVars, configVars >>
    BY DEF DeleteGroup
<1>3. /\ SRC_TRIE' \in PartialMaps(Cidrs, 1 .. MaxGroupId)
      /\ DST_TRIE' \in PartialMaps(Cidrs, 1 .. MaxGroupId)
    BY <1>1, RestrictType DEF Without, KernelTyped
<1>4. QED BY <1>2, <1>3 DEF KernelTyped, policyVars, qosVars, configVars, switchVars

\* Cleaning up only removes keys.
LEMMA CleanTyped ==
    ASSUME NEW pool \in Pools, NEW released, CleanPortSet(pool, released)
    PROVE  PORT_BITMAP_POOL' \in Pools
<1>1. CASE PORT_BITMAP_POOL' = pool
    BY <1>1
<1>2. ASSUME NEW s \in released, NEW kept \in SUBSET DOMAIN pool,
             PORT_BITMAP_POOL' = Restrict(pool, DOMAIN DeletePortSet(pool, s[1], s[2]) \cup kept)
      PROVE  PORT_BITMAP_POOL' \in Pools
    BY <1>2, PortsDeleted
<1>3. QED BY <1>1, <1>2, CleanRemoves

\* A policy, and its ports, written or not.
LEMMA AddPolicyTyped ==
    ASSUME MemoryTyped, KernelTyped,
           NEW req \in PolicyRequests, NEW a \in {0, 1}, NEW p \in PortTexts,
           AddPolicy(req, a, p)
    PROVE  KernelTyped'
<1> DEFINE k     == PolicyKey(req)
           added == ApplyAddRule(table, k, a, p)
           idx   == added.rules[k].bitmap_idx
           pool  == IF IsNewPortSet(table, p) THEN WritePortSet(PORT_BITMAP_POOL, idx, p)
                    ELSE PORT_BITMAP_POOL
<1>1. /\ Resolvable(req) /\ AddRuleAccepts(table, MaxPortPolicies, p)
      /\ POLICY_TABLE' \in {POLICY_TABLE, Insert(POLICY_TABLE, k, PolicyValue(added.rules[k]))}
      /\ \/ CleanPortSet(pool, ReleasedPortSets(table, added))
         \/ /\ IsNewPortSet(table, p)
            /\ \E n \in 0 .. Len(Inserts(p)) - 1 :
                   PORT_BITMAP_POOL' = Written(PORT_BITMAP_POOL, idx, p, n)
         \/ PORT_BITMAP_POOL' = pool
      /\ UNCHANGED << groupVars, qosVars, configVars >>
    BY DEF AddPolicy
<1>2. table \in RT!Tables /\ RT!Consistent(table)
    BY DEF MemoryTyped
<1>3. k \in RuleKeys
    BY <1>1, PolicyKeyType
<1>4. added \in RT!Tables /\ k \in DOMAIN added.rules
    BY <1>1, <1>2, <1>3, RuleAdded
<1>5. p # AllPorts => idx \in Nat /\ ValidPorts(p)
    BY <1>1, <1>2, <1>3, SetsAfterAdd
<1> HIDE DEF added, k
<1>6. PolicyValue(added.rules[k]) \in PolicyValues
    BY <1>4, PolicyTyped
<1>7. POLICY_TABLE' \in PartialMaps(RuleKeys, PolicyValues)
    BY <1>1, <1>3, <1>6, InsertType DEF KernelTyped
<1> HIDE DEF idx
<1>8. PORT_BITMAP_POOL \in Pools
    BY DEF KernelTyped
<1>9. ASSUME IsNewPortSet(table, p)
      PROVE  /\ WritePortSet(PORT_BITMAP_POOL, idx, p) \in Pools
             /\ Len(Inserts(p)) \in Nat
             /\ \A n \in 0 .. Len(Inserts(p)) : Written(PORT_BITMAP_POOL, idx, p, n) \in Pools
    BY <1>5, <1>8, <1>9, PortsWritten DEF IsNewPortSet
<1>10. pool \in Pools
    BY <1>8, <1>9
<1> HIDE DEF pool
<1>11. PORT_BITMAP_POOL' \in Pools
    BY <1>1, <1>9, <1>10, CleanTyped
<1>12. QED BY <1>1, <1>7, <1>11 DEF KernelTyped, groupVars, qosVars, configVars, switchVars

\* The deletion of a policy only removes keys.
LEMMA DeletePolicyTyped ==
    ASSUME KernelTyped, NEW req, DeletePolicy(req)
    PROVE  KernelTyped'
<1>1. /\ UNCHANGED << groupVars, qosVars, configVars >>
      /\ \/ UNCHANGED policyVars
         \/ /\ POLICY_TABLE' = Without(POLICY_TABLE, {PolicyKey(req)})
            /\ \E released : CleanPortSet(PORT_BITMAP_POOL, released)
    BY DEF DeletePolicy
<1>2. POLICY_TABLE' \in PartialMaps(RuleKeys, PolicyValues)
    BY <1>1, RestrictType DEF Without, KernelTyped, policyVars
<1>3. PORT_BITMAP_POOL' \in Pools
    BY <1>1, CleanTyped DEF KernelTyped, policyVars
<1>4. QED BY <1>1, <1>2, <1>3 DEF KernelTyped, groupVars, qosVars, configVars, switchVars

\* sync_qos_enabled writes a configuration.
LEMMA SyncTyped ==
    ASSUME FIREWALL_CONFIG \in PartialMaps({0}, Config), NEW on \in BOOLEAN,
           NEW failed \in BOOLEAN, SyncQosEnabled(on, failed)
    PROVE  FIREWALL_CONFIG' \in PartialMaps({0}, Config)
<1> DEFINE cfg == ConfigRead(1, failed)
           new == [cfg EXCEPT !.qos = on]
<1>1. cfg \in Config
    BY ConfigReadTyped
<1>2. FIREWALL_CONFIG' = Insert(FIREWALL_CONFIG, 0, new)
    BY DEF SyncQosEnabled, WriteConfig
<1> HIDE DEF cfg
<1>3. new \in Config
    BY <1>1 DEF Config
<1> HIDE DEF new
<1>4. QED BY <1>2, <1>3, InsertType

\* The handlers of QoS rules.
LEMMA QosTyped ==
    ASSUME MemoryTyped, KernelTyped, NEW r \in QosRequests,
           DeleteQos(r[1], r[2]) \/ (\E rate \in Rates : AddQos(r[1], r[2], rate))
    PROVE  KernelTyped'
<1> DEFINE q == << QosGroupId(r[1]), r[2] >>
<1>1. /\ QosResolvable(r[1])
      /\ UNCHANGED << groupVars, policyVars, flags >>
      /\ \/ QOS_CONFIG' \in {QOS_CONFIG, Without(QOS_CONFIG, {q})}
         \/ \E rate \in Rates : QOS_CONFIG' = Insert(QOS_CONFIG, q, rate)
      /\ (\E on, failed \in BOOLEAN : SyncQosEnabled(on, failed)) \/ UNCHANGED FIREWALL_CONFIG
    BY DEF AddQos, DeleteQos, qosVars, switchVars
<1>2. q \in QosKeys
    BY <1>1, QosKeyType
<1> HIDE DEF q
<1>3. QOS_CONFIG' \in PartialMaps(QosKeys, Rates)
    BY <1>1, <1>2, InsertType, RestrictType DEF Without, KernelTyped
<1>4. FIREWALL_CONFIG' \in PartialMaps({0}, Config)
    BY <1>1, SyncTyped DEF KernelTyped
<1>5. QED BY <1>1, <1>3, <1>4 DEF KernelTyped, groupVars, policyVars

\* The switches.
LEMMA UpdateConfigTyped ==
    ASSUME MemoryTyped, KernelTyped, NEW r \in ConfigRequests, UpdateConfig(r[1], r[2])
    PROVE  KernelTyped'
<1>1. PICK n \in {0, 1} :
          \/ UNCHANGED FIREWALL_CONFIG
          \/ FIREWALL_CONFIG' = Insert(FIREWALL_CONFIG, 0,
                 [ConfigRead(NumCpus, n = 1) EXCEPT !.conntrack = Given(r[1], @),
                                                    !.monitoring = Given(r[2], @)])
    BY DEF UpdateConfig, WriteConfig, configVars, switchVars
<1> DEFINE cfg == ConfigRead(NumCpus, n = 1)
           new == [cfg EXCEPT !.conntrack = Given(r[1], @), !.monitoring = Given(r[2], @)]
<1>2. /\ UNCHANGED << groupVars, policyVars, qosVars >>
      /\ UNCHANGED FIREWALL_CONFIG \/ FIREWALL_CONFIG' = Insert(FIREWALL_CONFIG, 0, new)
    BY <1>1 DEF UpdateConfig
<1>3. cfg \in Config
    BY ConfigReadTyped DEF KernelTyped
<1>4. \A option \in SUBSET BOOLEAN, b \in BOOLEAN : Given(option, b) \in BOOLEAN
    BY DEF Given
<1>5. r[1] \subseteq BOOLEAN /\ r[2] \subseteq BOOLEAN
    BY SwitchesAssumption
<1> HIDE DEF cfg
<1>6. new \in Config
  <2>1. cfg.conntrack \in BOOLEAN /\ cfg.monitoring \in BOOLEAN
      BY <1>3 DEF Config
  <2>2. Given(r[1], cfg.conntrack) \in BOOLEAN /\ Given(r[2], cfg.monitoring) \in BOOLEAN
      BY <1>4, <1>5, <2>1
  <2>3. QED BY <1>3, <2>2 DEF Config
<1> HIDE DEF new
<1>7. FIREWALL_CONFIG' \in PartialMaps({0}, Config)
    BY <1>2, <1>6, InsertType DEF KernelTyped
<1>8. QED BY <1>2, <1>7 DEF KernelTyped, groupVars, policyVars, qosVars

\* Every handler.
LEMMA StepTyped == MemoryTyped /\ KernelTyped /\ Next => KernelTyped'
BY AddGroupTyped, DeleteGroupTyped, AddPolicyTyped, DeletePolicyTyped, QosTyped,
   UpdateConfigTyped DEF Next

(***************************************************************************)
(* What replay_state makes of a table, and what a replay of the log makes  *)
(* of it, in the operators of this module.                                 *)
(***************************************************************************)
GoodTable(t) == t \in RT!Tables /\ RT!Consistent(t)

\* A fresh installation has a good table.
LEMMA GoodEmpty == GoodTable(EmptyTable)
<1>1. RT!EmptyTable = EmptyTable
    BY DEF RT!EmptyTable, EmptyTable
<1>2. QED BY <1>1, TableAssumptions, RT!EmptyTableConsistent DEF GoodTable

\* A rule that is accepted leaves a good table.
LEMMA GoodRuleAdded ==
    ASSUME NEW t, GoodTable(t), NEW k \in RuleKeys, NEW a \in {0, 1}, NEW p \in PortTexts,
           AddRuleAccepts(t, MaxPortPolicies, p)
    PROVE  GoodTable(ApplyAddRule(t, k, a, p))
BY RuleAdded DEF GoodTable

\* So does the removal of one.
LEMMA GoodRuleRemoved ==
    ASSUME NEW t, GoodTable(t), NEW k \in DOMAIN t.rules
    PROVE  GoodTable(ApplyRemoveRule(t, k))
BY RuleRemoved DEF GoodTable

\* The policies of a good table are typed.
LEMMA GoodPolicies ==
    ASSUME NEW t, GoodTable(t)
    PROVE  [k \in DOMAIN t.rules |-> PolicyValue(t.rules[k])] \in PartialMaps(RuleKeys, PolicyValues)
<1> DEFINE policies == [k \in DOMAIN t.rules |-> PolicyValue(t.rules[k])]
<1>1. \A k \in DOMAIN t.rules : k \in RuleKeys /\ PolicyValue(t.rules[k]) \in PolicyValues
    BY PolicyTyped DEF GoodTable
<1>2. policies \in [DOMAIN t.rules -> PolicyValues] /\ DOMAIN t.rules \in SUBSET RuleKeys
    BY <1>1
<1>3. QED BY <1>2 DEF PartialMaps

\* A rule with a port set: its text, and the set.
LEMMA RuleOfSet ==
    ASSUME NEW t, GoodTable(t), NEW k \in DOMAIN t.rules, t.rules[k].bitmap_idx # NoIdx
    PROVE  LET text == t.rules[k].ports
           IN  /\ text \in RT!Text /\ RT!ValidPorts(text)
               /\ t.rules[k].bitmap_idx \in Nat
               /\ \A n \in DOMAIN t.port_sets :
                      t.port_sets[n].bitmap_idx = t.rules[k].bitmap_idx => n = RT!Normalize(text)
<1> DEFINE text == t.rules[k].ports
           idx  == t.rules[k].bitmap_idx
<1>1. RT!RulesFindTheirSet(t) /\ RT!OneSetPerIdx(t) /\ t \in RT!Tables
    BY DEF GoodTable, RT!Consistent
<1>2. t.rules[k] \in RT!RuleInfo
    BY <1>1, TableAssumptions, RT!TableFields
<1>3. text \in RT!Text /\ idx \in Nat
    BY <1>2, TextsAssumption DEF RT!RuleInfo, RT!Text, RT!NoIdx, NoIdx
<1>4. /\ RT!ValidPorts(text)
      /\ RT!Normalize(text) \in DOMAIN t.port_sets
      /\ idx = t.port_sets[RT!Normalize(text)].bitmap_idx
    BY <1>1 DEF RT!RulesFindTheirSet, RT!NoIdx, NoIdx
<1>5. QED BY <1>1, <1>3, <1>4 DEF RT!OneSetPerIdx

\* Every port set has a rule that uses it.
LEMMA SetHasRule ==
    ASSUME NEW t, GoodTable(t), NEW n \in DOMAIN t.port_sets
    PROVE  \E k \in DOMAIN t.rules : t.rules[k].bitmap_idx = t.port_sets[n].bitmap_idx
<1> DEFINE users == RT!Users(t, t.port_sets[n].bitmap_idx)
<1>1. t.port_sets[n].ref_count = RT!Cardinality(users) /\ t.port_sets[n].ref_count > 0
    BY DEF GoodTable, RT!Consistent, RT!CountersMatchUsers
<1>2. RT!Cardinality(users) = Cardinality(users)
    BY Zenon DEF RT!Cardinality, Cardinality
<1>3. users # {}
    BY <1>1, <1>2, FS_EmptySet
<1>4. QED BY <1>3 DEF RT!Users

\* One rule of each index, and the pool they write.
OfEachIdx(first, rules) ==
    /\ DOMAIN first = {rules[k].bitmap_idx : k \in DOMAIN rules} \ {NoIdx}
    /\ \A i \in DOMAIN first : first[i] \in DOMAIN rules /\ rules[first[i]].bitmap_idx = i

ReplayedPool(first, rules) ==
    [key \in UNION {{i} \X PortsOf(rules[first[i]].ports) : i \in DOMAIN first} |->
        Meaning(rules[first[key[1]]].ports)[key[2]]]

\* That pool has every port of every set, with the verdict the set asks for:
\* whichever rule it is.
LEMMA PoolReplayed ==
    ASSUME NEW t, GoodTable(t), NEW first, OfEachIdx(first, t.rules)
    PROVE  LET pool == ReplayedPool(first, t.rules)
           IN  pool \in Pools /\ SetsWritten(pool, t.port_sets)
<1> DEFINE Text(i) == t.rules[first[i]].ports
           Keys    == UNION {{i} \X PortsOf(Text(i)) : i \in DOMAIN first}
           pool    == [key \in Keys |-> Meaning(Text(key[1]))[key[2]]]
<1> USE DEF OfEachIdx
<1>1. ASSUME NEW i \in DOMAIN first
      PROVE  /\ Text(i) \in RT!Text /\ RT!ValidPorts(Text(i)) /\ i \in Nat
             /\ \A n \in DOMAIN t.port_sets :
                    t.port_sets[n].bitmap_idx = i => n = RT!Normalize(Text(i))
  <2>1. first[i] \in DOMAIN t.rules /\ t.rules[first[i]].bitmap_idx = i /\ i # NoIdx
      OBVIOUS
  <2>2. QED BY <2>1, RuleOfSet
<1>2. \A p : RT!PortsOf(p) = PortsOf(p) /\ RT!Meaning(p) = Meaning(p)
  <2>1. \A part : RT!PartInserts(part) = PartInserts(part)
      BY Zenon DEF RT!PartInserts, PartInserts, RT!BpfAction, BpfAction
  <2>2. \A p : RT!Inserts(p) = Inserts(p)
      BY <2>1, ZenonT(40) DEF RT!Inserts, Inserts
  <2>3. \A f, x, v : RT!Insert(f, x, v) = Insert(f, x, v)
      BY Zenon DEF RT!Insert, Insert
  <2>4. ASSUME NEW q, NEW idx, NEW p, NEW n
        PROVE  RT!Written(q, idx, p, n) = Written(q, idx, p, n)
      BY <2>2, <2>3, ZenonT(40) DEF RT!Written, Written
  <2>5. \A q, idx, p : RT!WritePortSet(q, idx, p) = WritePortSet(q, idx, p)
      BY <2>2, <2>4, Zenon DEF RT!WritePortSet, WritePortSet
  <2>6. \A p : RT!PortsOf(p) = PortsOf(p)
      BY Zenon DEF RT!PortsOf, PortsOf
  <2>7. \A p : RT!Meaning(p) = Meaning(p)
      BY <2>5, <2>6, Zenon DEF RT!Meaning, Meaning
  <2>8. QED BY <2>6, <2>7
<1> HIDE DEF Text
<1>3. ASSUME NEW i \in DOMAIN first, NEW port \in PortsOf(Text(i))
      PROVE  << i, port >> \in Keys /\ pool[<< i, port >>] = Meaning(Text(i))[port]
  <2>1. << i, port >> \in Keys
      OBVIOUS
  <2>2. QED BY <2>1
<1>4. ASSUME NEW key \in Keys
      PROVE  key \in Nat \X Nat /\ pool[key] \in {1, 2}
  <2>1. PICK i \in DOMAIN first : key \in {i} \X PortsOf(Text(i))
      OBVIOUS
  <2>2. PICK port \in PortsOf(Text(i)) : key = << i, port >>
      BY <2>1
  <2>3. port \in Nat /\ Meaning(Text(i))[port] \in {1, 2}
      BY <1>1, <1>2, <2>2, TableAssumptions, RT!MeaningType
  <2>4. pool[key] = Meaning(Text(i))[port]
      BY <1>3, <2>2
  <2>5. QED BY <1>1, <2>2, <2>3, <2>4
<1>5. DOMAIN pool = Keys
    OBVIOUS
<1> SUFFICES pool \in Pools /\ SetsWritten(pool, t.port_sets)
    BY Zenon DEF Text, ReplayedPool
<1>6. pool \in Pools
  <2>1. pool \in [Keys -> {1, 2}] /\ Keys \in SUBSET (Nat \X Nat)
      BY <1>4
  <2> HIDE DEF pool, Keys
  <2>2. QED BY <2>1 DEF Pools, PartialMaps
<1>7. ASSUME NEW n \in DOMAIN t.port_sets
      PROVE  SetWritten(pool, t.port_sets[n].bitmap_idx, n)
  <2> DEFINE i == t.port_sets[n].bitmap_idx
  <2>1. t.port_sets[n] \in RT!PortSetInfo
      BY TableAssumptions, RT!TableFields DEF GoodTable
  <2>2. i \in DOMAIN first
      BY <2>1, SetHasRule DEF RT!PortSetInfo, NoIdx
  <2>3. n = RT!Normalize(Text(i))
      BY <1>1, <2>2
  <2>4. \A port \in RT!PortsOf(Text(i)) : /\ << i, port >> \in DOMAIN pool
                                          /\ pool[<< i, port >>] = RT!Meaning(Text(i))[port]
      BY <1>2, <1>3, <1>5, <2>2
  <2> HIDE DEF pool, Keys, i
  <2>5. Text(i) \in RT!Text /\ RT!ValidPorts(Text(i))
      BY <1>1, <2>2
  <2>6. RT!SetWritten(pool, i, RT!Normalize(Text(i)))
      BY <2>4, <2>5, TableAssumptions, RT!MeaningWritten
  <2>7. QED BY <2>3, <2>6 DEF RT!SetWritten, SetWritten, i
<1>8. QED BY <1>6, <1>7 DEF SetsWritten
=============================================================================
