--------------------------- MODULE RecoveryProofs ---------------------------
(***************************************************************************)
(* What acknowledged requests have led to survives stops, starts, crashes  *)
(* and reboots, and the maps of a running instance enforce it, for all     *)
(* requests and any number of starts.  Every state that a replay leads to  *)
(* is good in the sense of ControlPlaneProofs, so that the lemmas about    *)
(* the handlers apply to an instance whatever life it is in.               *)
(***************************************************************************)
EXTENDS Recovery, FiniteSetTheorems, SequenceTheorems, WellFoundedInduction, TLAPS

\* The lemmas and theorems about the handlers, without failing calls.
HP == INSTANCE ControlPlaneProofs WITH faults <- 0, MaxFaults <- 0, misread <- ~TRUE

(***************************************************************************)
(* Replaying a log: an empty one changes nothing, and one with one more    *)
(* entry is replayed by applying that entry last.  The entries themselves  *)
(* do not matter.                                                          *)
(***************************************************************************)
\* The states after each of the first n entries of a log.
Run(f, s, log, n) ==
    f = [i \in 0 .. n |-> IF i = 0 THEN s ELSE ApplyWalEntry(f[i - 1], log[i])]

\* A set of numbers has a smallest one.
LEMMA SmallestIndex ==
    ASSUME NEW T \in SUBSET Nat, T # {}
    PROVE  \E n \in T : \A m \in T : n <= m
<1>1. PICK n \in T : \A m \in T : ~(<< m, n >> \in OpToRel(<, Nat))
    BY NatLessThanWellFounded, WFMin, Zenon
<1>2. \A m \in T : ~(m < n)
    BY <1>1 DEF OpToRel
<1>3. QED BY <1>2

\* Every log can be replayed.
LEMMA RunExists ==
    ASSUME NEW s, NEW log, NEW n \in Nat
    PROVE  \E f : Run(f, s, log, n)
<1> DEFINE Endless == {m \in Nat : ~ \E f : Run(f, s, log, m)}
<1>1. SUFFICES ASSUME Endless # {} PROVE FALSE
    OBVIOUS
<1>2. PICK m \in Endless : \A k \in Endless : m <= k
    BY <1>1, SmallestIndex
<1>3. ~ \E f : Run(f, s, log, m)
    BY <1>2
<1>4. m # 0
  <2>1. Run([i \in 0 .. 0 |-> s], s, log, 0)
      BY DEF Run
  <2>2. QED BY <1>3, <2>1
<1>5. PICK f : Run(f, s, log, m - 1)
    BY <1>2, <1>4
<1> DEFINE g == [i \in 0 .. m |-> IF i = m THEN ApplyWalEntry(f[m - 1], log[m]) ELSE f[i]]
<1>6. \A i \in 0 .. m - 1 : f[i] = IF i = 0 THEN s ELSE ApplyWalEntry(f[i - 1], log[i])
    BY <1>5 DEF Run
<1>7. \A i \in 0 .. m : g[i] = IF i = 0 THEN s ELSE ApplyWalEntry(g[i - 1], log[i])
    BY <1>4, <1>6
<1>8. Run(g, s, log, m)
  <2>1. DOMAIN g = 0 .. m /\ g = [i \in 0 .. m |-> g[i]]
      OBVIOUS
  <2> HIDE DEF g
  <2>2. QED BY <1>7, <2>1 DEF Run
<1>9. QED BY <1>3, <1>8

\* Two replays agree as long as their logs do.
LEMMA RunsAgree ==
    ASSUME NEW s, NEW log, NEW more, NEW f, NEW g, NEW n \in Nat, NEW m \in Nat,
           Run(f, s, log, n), Run(g, s, more, m), n <= m,
           \A i \in 1 .. n : log[i] = more[i]
    PROVE  f[n] = g[n]
<1> DEFINE Apart == {i \in 0 .. n : f[i] # g[i]}
<1>1. SUFFICES ASSUME Apart # {} PROVE FALSE
    OBVIOUS
<1>2. PICK i \in Apart : \A k \in Apart : i <= k
  <2>1. Apart \in SUBSET Nat
      OBVIOUS
  <2> HIDE DEF Apart
  <2>2. QED BY <1>1, <2>1, SmallestIndex
<1>3. f[i] = IF i = 0 THEN s ELSE ApplyWalEntry(f[i - 1], log[i])
    BY DEF Run
<1>4. g[i] = IF i = 0 THEN s ELSE ApplyWalEntry(g[i - 1], more[i])
    BY DEF Run
<1>5. i # 0
    BY <1>3, <1>4
<1>6. f[i - 1] = g[i - 1]
    BY <1>2, <1>5
<1>7. QED BY <1>3, <1>4, <1>5, <1>6

\* What Replay computes.
LEMMA ReplayIsRun ==
    ASSUME NEW s, NEW log, Len(log) \in Nat
    PROVE  \E f : Run(f, s, log, Len(log)) /\ Replay(s, log) = f[Len(log)]
<1> DEFINE r == CHOOSE f : Run(f, s, log, Len(log))
<1>1. Run(r, s, log, Len(log))
    BY RunExists
<1>2. Replay(s, log) = r[Len(log)]
    BY ZenonT(40) DEF Replay, Run
<1> HIDE DEF r
<1>3. QED BY <1>1, <1>2

\* Nothing is replayed from an empty log.
LEMMA ReplayNothing == \A s : Replay(s, << >>) = s
<1>1. TAKE s
<1>2. PICK f : Run(f, s, << >>, 0) /\ Replay(s, << >>) = f[0]
    BY ReplayIsRun
<1>3. QED BY <1>2 DEF Run

\* The last entry is applied last.
LEMMA ReplayAppend ==
    ASSUME NEW S, NEW log \in Seq(S), NEW e \in S, NEW s
    PROVE  Replay(s, Append(log, e)) = ApplyWalEntry(Replay(s, log), e)
<1> DEFINE more == Append(log, e)
           n == Len(log)
<1>1. n \in Nat /\ Len(more) = n + 1 /\ more[n + 1] = e /\ \A i \in 1 .. n : log[i] = more[i]
    OBVIOUS
<1> HIDE DEF more, n
<1>2. PICK f : Run(f, s, log, n) /\ Replay(s, log) = f[n]
    BY <1>1, ReplayIsRun DEF n
<1>3. PICK g : Run(g, s, more, n + 1) /\ Replay(s, more) = g[n + 1]
    BY <1>1, ReplayIsRun
<1>4. g[n + 1] = ApplyWalEntry(g[n], e)
    BY <1>1, <1>3 DEF Run
<1>5. f[n] = g[n]
  <2>1. n <= n + 1 /\ n + 1 \in Nat
      BY <1>1
  <2>2. n \in Nat /\ \A i \in 1 .. n : log[i] = more[i]
      BY <1>1
  <2>3. Run(f, s, log, n) /\ Run(g, s, more, n + 1)
      BY <1>2, <1>3
  <2> HIDE DEF Run
  <2>4. QED BY <2>1, <2>2, <2>3, RunsAgree, Z3
<1>6. QED BY <1>2, <1>3, <1>4, <1>5 DEF more

(***************************************************************************)
(* The handlers of Recovery are those the lemmas are about: two instances  *)
(* of ControlPlane.                                                        *)
(***************************************************************************)
\* normalize_ports
LEMMA HandlersNormalize == \A p : HP!Normalize(p) = Handlers!Normalize(p)
<1>1. \A S : HP!Cardinality(S) = Handlers!Cardinality(S)
    BY Zenon DEF HP!Cardinality, Handlers!Cardinality
<1>2. \A s, entry : HP!InsertSorted(s, entry) = Handlers!InsertSorted(s, entry)
    BY <1>1, Zenon DEF HP!InsertSorted, Handlers!InsertSorted, HP!EntryBefore,
                       Handlers!EntryBefore
<1>3. \A p : HP!ParsePorts(p) = Handlers!ParsePorts(p)
    BY Zenon DEF HP!ParsePorts, Handlers!ParsePorts, HP!BpfAction, Handlers!BpfAction
<1>4. QED BY <1>2, <1>3, Zenon DEF HP!Normalize, Handlers!Normalize

\* The entries write_port_bitmap makes.
LEMMA HandlersWritten ==
    /\ \A p : Handlers!Inserts(p) = HP!Inserts(p)
    /\ \A pool, idx, p, n : Handlers!Written(pool, idx, p, n) = HP!Written(pool, idx, p, n)
<1>1. \A part : Handlers!PartInserts(part) = HP!PartInserts(part)
    BY Zenon DEF HP!PartInserts, Handlers!PartInserts, HP!BpfAction, Handlers!BpfAction
<1>2. \A p : Handlers!Inserts(p) = HP!Inserts(p)
    BY <1>1, Zenon DEF HP!Inserts, Handlers!Inserts
<1>3. \A f, x, v : Handlers!Insert(f, x, v) = HP!Insert(f, x, v)
    BY Zenon DEF HP!Insert, Handlers!Insert
<1>4. ASSUME NEW pool, NEW idx, NEW p, NEW n
      PROVE  Handlers!Written(pool, idx, p, n) = HP!Written(pool, idx, p, n)
    BY <1>2, <1>3, Zenon DEF HP!Written, Handlers!Written
<1>5. QED BY <1>2, <1>4

\* The handlers, one by one.
LEMMA HandlersAddGroup ==
    ASSUME NEW n, NEW c
    PROVE  Handlers!AddGroup(n, c) <=> HP!AddGroup(n, c)
BY Zenon
   DEF Handlers!AddGroup, Handlers!ApplyAddGroup, Handlers!RollbackAddGroup,
       Handlers!ApplyDeleteGroup, Handlers!Insert, Handlers!Restrict, Handlers!Fail,
       Handlers!Without, Handlers!policyVars, Handlers!qosVars, Handlers!configVars,
       Handlers!switchVars, Handlers!tries, HP!switchVars,
       HP!AddGroup, HP!ApplyAddGroup, HP!RollbackAddGroup, HP!ApplyDeleteGroup, HP!Insert,
       HP!Restrict, HP!Fail, HP!Without, HP!policyVars, HP!qosVars, HP!configVars, HP!tries

\* delete_group
LEMMA HandlersDeleteGroup ==
    ASSUME NEW n
    PROVE  Handlers!DeleteGroup(n) <=> HP!DeleteGroup(n)
BY Zenon
   DEF Handlers!DeleteGroup, Handlers!ApplyDeleteGroup, Handlers!GroupInUse, Handlers!Restrict,
       Handlers!Fail, Handlers!Without, Handlers!policyVars, Handlers!qosVars,
       Handlers!configVars, Handlers!switchVars, Handlers!Cardinality, HP!switchVars,
       HP!DeleteGroup, HP!ApplyDeleteGroup, HP!GroupInUse, HP!Restrict, HP!Fail, HP!Without,
       HP!policyVars, HP!qosVars, HP!configVars, HP!Cardinality

\* add_qos
LEMMA HandlersAddQos ==
    ASSUME NEW n, NEW d, NEW r
    PROVE  Handlers!AddQos(n, d, r) <=> HP!AddQos(n, d, r)
BY Zenon
   DEF Handlers!AddQos, Handlers!QosResolvable, Handlers!QosGroupId, Handlers!Known,
       Handlers!Insert, Handlers!SyncQosEnabled, Handlers!ConfigRead, Handlers!WriteConfig,
       Handlers!Fail, Handlers!groupVars, Handlers!policyVars, Handlers!qosVars,
       Handlers!switchVars, Handlers!tries,
       HP!AddQos, HP!QosResolvable, HP!QosGroupId, HP!Known, HP!Insert, HP!SyncQosEnabled,
       HP!ConfigRead, HP!WriteConfig, HP!Fail, HP!groupVars, HP!policyVars, HP!qosVars,
       HP!switchVars, HP!tries

\* delete_qos
LEMMA HandlersDeleteQos ==
    ASSUME NEW n, NEW d
    PROVE  Handlers!DeleteQos(n, d) <=> HP!DeleteQos(n, d)
BY Zenon
   DEF Handlers!DeleteQos, Handlers!QosResolvable, Handlers!QosGroupId, Handlers!Known,
       Handlers!Insert, Handlers!SyncQosEnabled, Handlers!ConfigRead, Handlers!WriteConfig,
       Handlers!Fail, Handlers!Without, Handlers!Restrict, Handlers!groupVars,
       Handlers!policyVars, Handlers!qosVars, Handlers!switchVars, Handlers!tries,
       HP!ConfigRead, HP!WriteConfig, HP!switchVars,
       HP!DeleteQos, HP!QosResolvable, HP!QosGroupId, HP!Known, HP!Insert, HP!SyncQosEnabled,
       HP!Fail, HP!Without, HP!Restrict, HP!groupVars, HP!policyVars, HP!qosVars, HP!tries

\* update_config
LEMMA HandlersUpdateConfig ==
    ASSUME NEW c, NEW m
    PROVE  Handlers!UpdateConfig(c, m) <=> HP!UpdateConfig(c, m)
BY Zenon
   DEF Handlers!UpdateConfig, Handlers!Given, Handlers!Insert, Handlers!Fail, Handlers!groupVars,
       Handlers!policyVars, Handlers!qosVars, Handlers!configVars, Handlers!tries,
       Handlers!ConfigRead, Handlers!WriteConfig, Handlers!switchVars,
       HP!ConfigRead, HP!WriteConfig, HP!switchVars,
       HP!UpdateConfig, HP!Given, HP!Insert, HP!Fail, HP!groupVars, HP!policyVars, HP!qosVars,
       HP!configVars, HP!tries

\* delete_policy
LEMMA HandlersDeletePolicy ==
    ASSUME NEW r
    PROVE  Handlers!DeletePolicy(r) <=> HP!DeletePolicy(r)
BY Zenon
   DEF Handlers!DeletePolicy, Handlers!Resolvable, Handlers!Known, Handlers!PolicyKey,
       Handlers!ResolveGroupId, Handlers!ApplyRemoveRule, Handlers!RemoveKey,
       Handlers!ReleasePortSet, Handlers!FreeSet, Handlers!LowerCount, Handlers!IdxOf,
       Handlers!HasPortSet, Handlers!PortSetAt, Handlers!NoIdx, Handlers!Restrict, Handlers!Fail,
       Handlers!Without, Handlers!CleanPortSet, Handlers!DeletePortSet, Handlers!ValidPorts,
       Handlers!PortsOf, Handlers!ReleasedPortSets, Handlers!groupVars, Handlers!policyVars,
       Handlers!qosVars, Handlers!configVars, Handlers!switchVars, Handlers!tries,
       HP!switchVars,
       HP!DeletePolicy, HP!Resolvable, HP!Known, HP!PolicyKey, HP!ResolveGroupId,
       HP!ApplyRemoveRule, HP!RemoveKey, HP!ReleasePortSet, HP!FreeSet, HP!LowerCount, HP!IdxOf,
       HP!HasPortSet, HP!PortSetAt, HP!NoIdx, HP!Restrict, HP!Fail, HP!Without, HP!CleanPortSet,
       HP!DeletePortSet, HP!ValidPorts, HP!PortsOf, HP!ReleasedPortSets, HP!groupVars,
       HP!policyVars, HP!qosVars, HP!configVars, HP!tries

\* apply_add_rule
LEMMA HandlersAddRule ==
    ASSUME NEW t, NEW k, NEW a, NEW p
    PROVE  Handlers!ApplyAddRule(t, k, a, p) = HP!ApplyAddRule(t, k, a, p)
<1>1. \A n : Handlers!AcquirePortSet(t, n) = HP!AcquirePortSet(t, n)
    BY Zenon
       DEF Handlers!AcquirePortSet, Handlers!ReuseIdx, Handlers!PopIdx, Handlers!FreshIdx,
           Handlers!Insert,
           HP!AcquirePortSet, HP!ReuseIdx, HP!PopIdx, HP!FreshIdx, HP!Insert
<1>2. \A u, rule : Handlers!PutRule(u, k, rule) = HP!PutRule(u, k, rule)
    BY Zenon DEF Handlers!PutRule, Handlers!Insert, HP!PutRule, HP!Insert
<1>3. \A u, old, new : Handlers!DropOldIdx(u, old, new) = HP!DropOldIdx(u, old, new)
    BY ZenonT(40)
       DEF Handlers!DropOldIdx, Handlers!ReleasePortSet, Handlers!FreeSet, Handlers!LowerCount,
           Handlers!HasPortSet,
           Handlers!PortSetAt, Handlers!NoIdx, Handlers!Restrict,
           HP!DropOldIdx, HP!ReleasePortSet, HP!FreeSet, HP!LowerCount, HP!HasPortSet,
           HP!PortSetAt, HP!NoIdx, HP!Restrict
<1>4. Handlers!IdxOf(t, k) = HP!IdxOf(t, k) /\ Handlers!NoIdx = HP!NoIdx /\ Handlers!AllPorts =
HP!AllPorts
    BY Zenon DEF Handlers!IdxOf, Handlers!NoIdx, Handlers!AllPorts, HP!IdxOf, HP!NoIdx,
                 HP!AllPorts
<1>5. QED BY HandlersNormalize, <1>1, <1>2, <1>3, <1>4, Zenon DEF Handlers!ApplyAddRule,
HP!ApplyAddRule

\* add_policy
LEMMA HandlersAddPolicy ==
    ASSUME NEW r, NEW a, NEW p, Handlers!AddPolicy(r, a, p)
    PROVE  HP!AddPolicy(r, a, p)
<1> DEFINE k     == Handlers!PolicyKey(r)
           added == Handlers!ApplyAddRule(table, k, a, p)
           idx   == added.rules[k].bitmap_idx
           pool  == IF Handlers!IsNewPortSet(table, p)
                    THEN Handlers!WritePortSet(PORT_BITMAP_POOL, idx, p) ELSE PORT_BITMAP_POOL
<1>1. ~Handlers!Fail(1)
    BY DEF Handlers!Fail
<1>2. /\ Handlers!Resolvable(r)
      /\ Handlers!AddRuleAccepts(table, MaxPortPolicies, p)
      /\ table' = added
      /\ POLICY_TABLE' = Handlers!Insert(POLICY_TABLE, k, Handlers!PolicyValue(added.rules[k]))
      /\ Handlers!CleanPortSet(pool, Handlers!ReleasedPortSets(table, added))
      /\ UNCHANGED << Handlers!groupVars, Handlers!qosVars, Handlers!configVars >>
    BY <1>1 DEF Handlers!AddPolicy
<1>3. k = HP!PolicyKey(r)
    BY Zenon DEF Handlers!PolicyKey, Handlers!ResolveGroupId, HP!PolicyKey, HP!ResolveGroupId
<1>4. added = HP!ApplyAddRule(table, HP!PolicyKey(r), a, p)
    BY <1>3, HandlersAddRule
<1>5. HP!Resolvable(r)
    BY <1>2, Zenon DEF Handlers!Resolvable, HP!Resolvable, Handlers!Known, HP!Known
<1>6. HP!AddRuleAccepts(table, MaxPortPolicies, p)
    BY <1>2, HandlersNormalize, Zenon
       DEF Handlers!AddRuleAccepts, Handlers!LimitReached, Handlers!ValidPorts, Handlers!AllPorts,
           HP!AddRuleAccepts, HP!LimitReached, HP!ValidPorts, HP!AllPorts
<1>7. \A v : Handlers!Insert(POLICY_TABLE, k, v) = HP!Insert(POLICY_TABLE, k, v)
    BY Zenon DEF Handlers!Insert, HP!Insert
<1>8. \A rule : Handlers!PolicyValue(rule) = HP!PolicyValue(rule)
    BY Zenon DEF Handlers!PolicyValue, HP!PolicyValue, Handlers!AllPorts, HP!AllPorts,
                 Handlers!NoIdx, HP!NoIdx
<1>9. Handlers!IsNewPortSet(table, p) <=> HP!IsNewPortSet(table, p)
    BY HandlersNormalize, Zenon
       DEF Handlers!IsNewPortSet, Handlers!AllPorts, HP!IsNewPortSet, HP!AllPorts
<1>10. Handlers!WritePortSet(PORT_BITMAP_POOL, idx, p) = HP!WritePortSet(PORT_BITMAP_POOL, idx, p)
    BY HandlersWritten, Zenon DEF Handlers!WritePortSet, HP!WritePortSet
<1>11. Handlers!ReleasedPortSets(table, added) = HP!ReleasedPortSets(table, added)
    BY Zenon DEF Handlers!ReleasedPortSets, HP!ReleasedPortSets
<1>12. \A q, rel : Handlers!CleanPortSet(q, rel) <=> HP!CleanPortSet(q, rel)
    BY Zenon DEF Handlers!CleanPortSet, Handlers!Fail, Handlers!DeletePortSet,
                 Handlers!ValidPorts,
       Handlers!PortsOf, Handlers!Restrict,
       HP!CleanPortSet, HP!Fail, HP!DeletePortSet, HP!ValidPorts, HP!PortsOf, HP!Restrict
<1>13. UNCHANGED << HP!groupVars, HP!qosVars, HP!configVars >>
    BY <1>2, Zenon
       DEF Handlers!groupVars, Handlers!qosVars, Handlers!configVars, Handlers!switchVars,
           HP!groupVars, HP!qosVars, HP!configVars, HP!switchVars
<1> HIDE DEF k, added
<1>14. pool = IF HP!IsNewPortSet(table, p)
              THEN HP!WritePortSet(PORT_BITMAP_POOL, idx, p) ELSE PORT_BITMAP_POOL
    BY <1>9, <1>10
<1>15. POLICY_TABLE' = HP!Insert(POLICY_TABLE, k, HP!PolicyValue(added.rules[k]))
    BY <1>2, <1>7, <1>8
<1>16. HP!CleanPortSet(pool, HP!ReleasedPortSets(table, added))
    BY <1>2, <1>11, <1>12
<1> HIDE DEF pool
<1>17. QED BY <1>2, <1>3, <1>4, <1>5, <1>6, <1>13, <1>14, <1>15, <1>16 DEF HP!AddPolicy

\* The properties of the handlers, and the types.
LEMMA HandlersProperties ==
    /\ Handlers!KernelHasTheRules <=> HP!KernelHasTheRules
    /\ Handlers!LivePortsWritten <=> HP!LivePortsWritten
    /\ Handlers!TriesNameOwners <=> HP!TriesNameOwners
    /\ Handlers!QosInForce <=> HP!QosInForce
    /\ Handlers!SwitchesInForce <=> HP!SwitchesInForce
    /\ Handlers!TypeOK <=> HP!TypeOK
<1>1. Handlers!KernelHasTheRules <=> HP!KernelHasTheRules
    BY Zenon DEF Handlers!PolicyValue, HP!PolicyValue, Handlers!AllPorts, HP!AllPorts,
                 Handlers!NoIdx, HP!NoIdx,
      Handlers!KernelHasTheRules, HP!KernelHasTheRules
<1>2. Handlers!LivePortsWritten <=> HP!LivePortsWritten
    BY Zenon DEF Handlers!LivePortsWritten, HP!LivePortsWritten
<1>3. Handlers!TriesNameOwners <=> HP!TriesNameOwners
    BY Zenon DEF Handlers!TriesNameOwners, HP!TriesNameOwners
<1>4. Handlers!QosInForce <=> HP!QosInForce
    BY Zenon DEF Handlers!QosInForce, HP!QosInForce, Handlers!QosFlagInSync, HP!QosFlagInSync
<1>5. Handlers!SwitchesInForce <=> HP!SwitchesInForce
    BY Zenon DEF Handlers!SwitchesInForce, HP!SwitchesInForce
<1>6. Handlers!TypeOK <=> HP!TypeOK
  <2>1. Handlers!Rules!NormalForms = HP!Rules!NormalForms
    <3>1. \A S : Handlers!Rules!Cardinality(S) = HP!Rules!Cardinality(S)
        BY Zenon DEF Handlers!Rules!Cardinality, HP!Rules!Cardinality
    <3>2. \A s, entry : Handlers!Rules!InsertSorted(s, entry) = HP!Rules!InsertSorted(s, entry)
        BY <3>1, Zenon DEF Handlers!Rules!InsertSorted, HP!Rules!InsertSorted,
                           Handlers!Rules!EntryBefore, HP!Rules!EntryBefore
    <3>3. \A p : Handlers!Rules!ParsePorts(p) = HP!Rules!ParsePorts(p)
        BY Zenon DEF Handlers!Rules!ParsePorts, HP!Rules!ParsePorts,
                     Handlers!Rules!BpfAction, HP!Rules!BpfAction
    <3>4. \A p : Handlers!Rules!Normalize(p) = HP!Rules!Normalize(p)
        BY <3>2, <3>3, Zenon DEF Handlers!Rules!Normalize, HP!Rules!Normalize
    <3>5. QED BY <3>4 DEF Handlers!Rules!NormalForms, HP!Rules!NormalForms
  <2>2. /\ Handlers!Rules!RuleInfo = HP!Rules!RuleInfo
        /\ Handlers!Rules!PortSetInfo = HP!Rules!PortSetInfo
      BY Zenon DEF Handlers!Rules!RuleInfo, HP!Rules!RuleInfo, Handlers!Rules!Actions,
                   HP!Rules!Actions, Handlers!Rules!NoIdx, HP!Rules!NoIdx,
                   Handlers!Rules!PortSetInfo, HP!Rules!PortSetInfo
  <2>3. \A f, S, T : Handlers!Rules!IsMap(f, S, T) <=> HP!Rules!IsMap(f, S, T)
      BY Zenon DEF Handlers!Rules!IsMap, HP!Rules!IsMap
  <2>4. Handlers!RuleKeys = HP!RuleKeys
      BY Zenon DEF Handlers!RuleKeys, HP!RuleKeys
  <2>5. Handlers!Rules!TypeOK <=> HP!Rules!TypeOK
      BY <2>1, <2>2, <2>3, <2>4, Zenon DEF Handlers!Rules!TypeOK, HP!Rules!TypeOK
  <2>6. /\ Handlers!Cidrs = HP!Cidrs
        /\ Handlers!Config = HP!Config
      BY Zenon DEF Handlers!Cidrs, HP!Cidrs, Handlers!Config, HP!Config
  <2>7. Handlers!GroupInfo = HP!GroupInfo
      BY <2>6, Zenon DEF Handlers!GroupInfo, HP!GroupInfo
  <2>8. QED BY <2>3, <2>4, <2>5, <2>6, <2>7, Zenon DEF Handlers!TypeOK, HP!TypeOK
<1>7. QED BY <1>1, <1>2, <1>3, <1>4, <1>5, <1>6

(***************************************************************************)
(* What an entry does to each field.                                       *)
(***************************************************************************)
State(d, t, q, f) == [directory |-> d, table |-> t, qos_rules |-> q, flags |-> f]

\* An AddGroup entry changes the groups only.
LEMMA AddGroupEntry ==
    ASSUME NEW d, NEW t, NEW q, NEW f, NEW n, NEW c
    PROVE  ApplyWalEntry(State(d, t, q, f), [op |-> "AddGroup", name |-> n, cidr |-> c])
               = State(ApplyAddGroup(d, n, c), t, q, f)
BY DEF ApplyWalEntry, State

\* A DeleteGroup entry changes the groups only.
LEMMA DeleteGroupEntry ==
    ASSUME NEW d, NEW t, NEW q, NEW f, NEW n
    PROVE  ApplyWalEntry(State(d, t, q, f), [op |-> "DeleteGroup", name |-> n])
               = State(ApplyDeleteGroup(d, n), t, q, f)
BY DEF ApplyWalEntry, State

\* An AddRule entry the table has room for changes the table only.
LEMMA AddRuleEntry ==
    ASSUME NEW d, NEW t, NEW q, NEW f, NEW k, NEW a, NEW p,
           AddRuleAccepts(t, MaxPortPolicies, p)
    PROVE  ApplyWalEntry(State(d, t, q, f),
                         [op |-> "AddRule", key |-> k, action |-> a, ports |-> p])
               = State(d, ApplyAddRule(t, k, a, p), q, f)
BY DEF ApplyWalEntry, State

\* A RemoveRule entry of a listed rule changes the table only.
LEMMA RemoveRuleEntry ==
    ASSUME NEW d, NEW t, NEW q, NEW f, NEW k, k \in DOMAIN t.rules
    PROVE  ApplyWalEntry(State(d, t, q, f), [op |-> "RemoveRule", key |-> k])
               = State(d, ApplyRemoveRule(t, k), q, f)
BY DEF ApplyWalEntry, State

\* An AddQos entry changes the QoS rules only.
LEMMA AddQosEntry ==
    ASSUME NEW d, NEW t, NEW q, NEW f, NEW k, NEW r
    PROVE  ApplyWalEntry(State(d, t, q, f), [op |-> "AddQos", rate |-> r, key |-> k])
               = State(d, t, Insert(q, k, r), f)
BY DEF ApplyWalEntry, State

\* A DeleteQos entry changes the QoS rules only.
LEMMA DeleteQosEntry ==
    ASSUME NEW d, NEW t, NEW q, NEW f, NEW k
    PROVE  ApplyWalEntry(State(d, t, q, f), [op |-> "DeleteQos", key |-> k])
               = State(d, t, Restrict(q, DOMAIN q \ {k}), f)
BY DEF ApplyWalEntry, State

\* An UpdateConfig entry changes the switches it names.
LEMMA UpdateConfigEntry ==
    ASSUME NEW d, NEW t, NEW q, NEW f, NEW ct, NEW mon
    PROVE  ApplyWalEntry(State(d, t, q, f),
                         [op |-> "UpdateConfig", conntrack |-> ct, monitoring |-> mon])
               = State(d, t, q, [conntrack  |-> Given(ct, f.conntrack),
                                 monitoring |-> Given(mon, f.monitoring)])
BY DEF ApplyWalEntry, State

\* The state in memory, field by field.
LEMMA MemoryIsState ==
    /\ Memory = State(directory, table, qos_rules, flags)
    /\ Memory' = State(directory', table', qos_rules', flags')
BY DEF Memory, State

(***************************************************************************)
(* What a handler leaves in memory is what its entry will do.  The         *)
(* handlers are those of ControlPlane without failing calls.               *)
(***************************************************************************)
\* No kernel call of a handler fails here: MaxFaults is 0.
LEMMA NoCallFails == ASSUME NEW n \in Nat, Handlers!Fail(n) PROVE n = 0
BY DEF Handlers!Fail

\* add_group and delete_group of a handler and of a replay are the same.
LEMMA SameGroups ==
    ASSUME NEW d, NEW n, NEW c
    PROVE  /\ Handlers!ApplyAddGroup(d, n, c) = ApplyAddGroup(d, n, c)
           /\ Handlers!ApplyDeleteGroup(d, n) = ApplyDeleteGroup(d, n)
BY Zenon DEF ApplyAddGroup, ApplyDeleteGroup, Insert, Restrict, Handlers!ApplyAddGroup,
             Handlers!ApplyDeleteGroup, Handlers!Insert, Handlers!Restrict

\* normalize_ports, of the handlers and of the log.
LEMMA SameNormalize == \A p : Handlers!Normalize(p) = Normalize(p)
<1>1. \A S : Handlers!Cardinality(S) = Cardinality(S)
    BY Zenon DEF Handlers!Cardinality, Cardinality
<1>2. \A s, entry : Handlers!InsertSorted(s, entry) = InsertSorted(s, entry)
    BY <1>1, Zenon DEF Handlers!InsertSorted, InsertSorted, Handlers!EntryBefore, EntryBefore
<1>3. \A p : Handlers!ParsePorts(p) = ParsePorts(p)
    BY Zenon DEF Handlers!ParsePorts, ParsePorts, Handlers!BpfAction, BpfAction
<1>4. QED BY <1>2, <1>3, Zenon DEF Handlers!Normalize, Normalize

\* apply_add_rule, likewise.
LEMMA SameAddRule ==
    ASSUME NEW t, NEW k, NEW a, NEW p
    PROVE  Handlers!ApplyAddRule(t, k, a, p) = ApplyAddRule(t, k, a, p)
<1>1. \A n : Handlers!AcquirePortSet(t, n) = AcquirePortSet(t, n)
    BY Zenon
       DEF Handlers!AcquirePortSet, Handlers!ReuseIdx, Handlers!PopIdx, Handlers!FreshIdx,
           Handlers!Insert, AcquirePortSet, ReuseIdx, PopIdx, FreshIdx, Insert
<1>2. \A u, old, new : Handlers!DropOldIdx(u, old, new) = DropOldIdx(u, old, new)
    BY ZenonT(40)
       DEF Handlers!DropOldIdx, Handlers!ReleasePortSet, Handlers!FreeSet, Handlers!LowerCount,
           Handlers!HasPortSet, Handlers!PortSetAt, Handlers!NoIdx, Handlers!Restrict,
           DropOldIdx, ReleasePortSet, FreeSet, LowerCount, HasPortSet,
           PortSetAt, NoIdx, Restrict
<1>3. \A u, rule : Handlers!PutRule(u, k, rule) = PutRule(u, k, rule)
    BY Zenon DEF Handlers!PutRule, Handlers!Insert, PutRule, Insert
<1>4. Handlers!IdxOf(t, k) = IdxOf(t, k) /\ Handlers!NoIdx = NoIdx /\ Handlers!AllPorts = AllPorts
    BY Zenon DEF Handlers!IdxOf, Handlers!NoIdx, Handlers!AllPorts, IdxOf, NoIdx, AllPorts
<1>5. QED BY SameNormalize, <1>1, <1>2, <1>3, <1>4, Zenon DEF Handlers!ApplyAddRule, ApplyAddRule

(***************************************************************************)
(* The states that requests and replays can lead to.                       *)
(***************************************************************************)
\* What the lemmas about the handlers assume.
LEMMA HandlerAssumptions ==
    /\ HP!LimitAssumption
    /\ HP!BoundsAssumption
    /\ HP!PoliciesAssumption
    /\ HP!TextsAssumption
    /\ HP!SwitchesAssumption
<1>1. HP!IsFiniteSet(PolicyRequests) <=> IsFiniteSet(PolicyRequests)
    BY Zenon DEF HP!IsFiniteSet, IsFiniteSet
<1>2. HP!PoliciesAssumption
    BY <1>1, PoliciesAssumption DEF HP!PoliciesAssumption
<1>3. HP!LimitAssumption /\ HP!BoundsAssumption
    BY LimitAssumption, BoundsAssumption DEF HP!LimitAssumption, HP!BoundsAssumption
<1>4. HP!TextsAssumption
    BY TextsAssumption DEF HP!TextsAssumption
<1>5. HP!SwitchesAssumption
    BY SwitchesAssumption DEF HP!SwitchesAssumption
<1>6. QED BY <1>2, <1>3, <1>4, <1>5

\* What an entry does is what a handler does.
LEMMA SameEffects ==
    ASSUME NEW d, NEW n, NEW c, NEW t, NEW k, NEW a, NEW p, NEW q
    PROVE  /\ HP!ApplyAddGroup(d, n, c) = ApplyAddGroup(d, n, c)
           /\ HP!ApplyDeleteGroup(d, n) = ApplyDeleteGroup(d, n)
           /\ HP!ApplyAddRule(t, k, a, p) = ApplyAddRule(t, k, a, p)
           /\ HP!AddRuleAccepts(t, MaxPortPolicies, p) <=> AddRuleAccepts(t, MaxPortPolicies, p)
           /\ HP!ApplyRemoveRule(t, k) = ApplyRemoveRule(t, k)
           /\ HP!Insert(q, k, a) = Insert(q, k, a)
           /\ HP!Restrict(q, DOMAIN q \ {k}) = Restrict(q, DOMAIN q \ {k})
<1>1. /\ HP!ApplyAddGroup(d, n, c) = ApplyAddGroup(d, n, c)
      /\ HP!ApplyDeleteGroup(d, n) = ApplyDeleteGroup(d, n)
    BY Zenon DEF ApplyAddGroup, ApplyDeleteGroup, Insert, Restrict, HP!ApplyAddGroup,
                 HP!ApplyDeleteGroup, HP!Insert, HP!Restrict
<1>2. HP!ApplyAddRule(t, k, a, p) = ApplyAddRule(t, k, a, p)
    BY HandlersAddRule, SameAddRule
<1>3. \A s : HP!Normalize(s) = Normalize(s)
    BY HandlersNormalize, SameNormalize
<1>4. HP!AddRuleAccepts(t, MaxPortPolicies, p) <=> AddRuleAccepts(t, MaxPortPolicies, p)
    BY <1>3, Zenon
       DEF AddRuleAccepts, LimitReached, ValidPorts, AllPorts,
           HP!AddRuleAccepts, HP!LimitReached, HP!ValidPorts, HP!AllPorts
<1>5. HP!ApplyRemoveRule(t, k) = ApplyRemoveRule(t, k)
    BY Zenon
       DEF ApplyRemoveRule, RemoveKey, ReleasePortSet, FreeSet, LowerCount, IdxOf, HasPortSet,
           PortSetAt, NoIdx, Restrict, HP!ApplyRemoveRule, HP!RemoveKey, HP!ReleasePortSet,
           HP!FreeSet, HP!LowerCount, HP!IdxOf, HP!HasPortSet, HP!PortSetAt, HP!NoIdx, HP!Restrict
<1>6. /\ HP!Insert(q, k, a) = Insert(q, k, a)
      /\ HP!Restrict(q, DOMAIN q \ {k}) = Restrict(q, DOMAIN q \ {k})
    BY Zenon DEF Insert, Restrict, HP!Insert, HP!Restrict
<1>7. QED BY <1>1, <1>2, <1>4, <1>5, <1>6

\* The fields: ids are distinct and below the next one, the table is
\* consistent, keys and values have their types.
GoodFields(d, t, q, f) == /\ HP!GoodDirectory(d)
                          /\ HP!GoodTable(t)
                          /\ q \in HP!PartialMaps(HP!QosKeys, Rates)
                          /\ f \in HP!Switches

Good(s) == \E d, t, q, f : s = State(d, t, q, f) /\ GoodFields(d, t, q, f)

\* The entries a handler can append.
Options == SUBSET BOOLEAN

Entries ==
    {[op |-> "AddGroup", name |-> n, cidr |-> c] : n \in HP!Names, c \in HP!Cidrs}
    \cup {[op |-> "DeleteGroup", name |-> n] : n \in HP!Names}
    \cup {[op |-> "AddRule", key |-> k, action |-> 0, ports |-> p] :
              k \in HP!RuleKeys, p \in PortTexts}
    \cup {[op |-> "RemoveRule", key |-> k] : k \in HP!RuleKeys}
    \cup {[op |-> "AddQos", rate |-> r, key |-> k] : r \in Rates, k \in HP!QosKeys}
    \cup {[op |-> "DeleteQos", key |-> k] : k \in HP!QosKeys}
    \cup {[op |-> "UpdateConfig", conntrack |-> ct, monitoring |-> mon] :
              ct \in Options, mon \in Options}

\* The default state is good.
LEMMA GoodDefault == Good(DefaultState)
<1> DEFINE f == [conntrack |-> TRUE, monitoring |-> TRUE]
<1>1. HP!GoodDirectory(NoGroups)
  <2>1. << >> \in HP!PartialMaps(HP!Names, HP!Groups)
      BY HandlerAssumptions, HP!EmptyMap
  <2>2. NoGroups \in HP!Directories
      BY <2>1 DEF NoGroups, HP!Directories
  <2>3. QED BY <2>2 DEF HP!GoodDirectory, NoGroups
<1>2. HP!GoodTable(EmptyTable)
  <2>1. HP!EmptyTable = EmptyTable
      BY Zenon DEF HP!EmptyTable, EmptyTable
  <2>2. QED BY <2>1, HandlerAssumptions, HP!GoodEmpty
<1>3. << >> \in HP!PartialMaps(HP!QosKeys, Rates) /\ f \in HP!Switches
    BY HandlerAssumptions, HP!EmptyMap DEF HP!Switches
<1>4. DefaultState = State(NoGroups, EmptyTable, << >>, f)
    BY Zenon DEF DefaultState, State
<1>5. GoodFields(NoGroups, EmptyTable, << >>, f)
    BY <1>1, <1>2, <1>3 DEF GoodFields
<1>6. QED BY <1>4, <1>5 DEF Good

\* An entry about a group leads to a good directory.
LEMMA GoodGroups ==
    ASSUME NEW d, HP!GoodDirectory(d), NEW n, NEW c
    PROVE  /\ n \in HP!Names /\ c \in HP!Cidrs => HP!GoodDirectory(ApplyAddGroup(d, n, c))
           /\ HP!GoodDirectory(ApplyDeleteGroup(d, n))
<1>1. ASSUME n \in HP!Names, c \in HP!Cidrs
      PROVE  HP!GoodDirectory(HP!ApplyAddGroup(d, n, c))
    BY <1>1, HandlerAssumptions, HP!GroupAdded
<1>2. HP!GoodDirectory(HP!ApplyDeleteGroup(d, n))
    BY HandlerAssumptions, HP!GroupDeleted
<1>3. QED BY <1>1, <1>2, SameEffects

\* An entry about a rule leads to a good table.
LEMMA GoodRules ==
    ASSUME NEW t, HP!GoodTable(t), NEW k \in HP!RuleKeys
    PROVE  /\ \A p \in PortTexts : AddRuleAccepts(t, MaxPortPolicies, p) =>
                  HP!GoodTable(ApplyAddRule(t, k, 0, p))
           /\ k \in DOMAIN t.rules => HP!GoodTable(ApplyRemoveRule(t, k))
<1>1. ASSUME NEW p \in PortTexts, AddRuleAccepts(t, MaxPortPolicies, p)
      PROVE  HP!GoodTable(ApplyAddRule(t, k, 0, p))
  <2>1. HP!AddRuleAccepts(t, MaxPortPolicies, p) /\ 0 \in {0, 1}
      BY <1>1, SameEffects
  <2>2. HP!GoodTable(HP!ApplyAddRule(t, k, 0, p))
      BY <2>1, HandlerAssumptions, HP!GoodRuleAdded
  <2>3. QED BY <2>2, SameEffects
<1>2. ASSUME k \in DOMAIN t.rules
      PROVE  HP!GoodTable(ApplyRemoveRule(t, k))
  <2>1. HP!GoodTable(HP!ApplyRemoveRule(t, k))
      BY <1>2, HandlerAssumptions, HP!GoodRuleRemoved
  <2>2. QED BY <2>1, SameEffects
<1>3. QED BY <1>1, <1>2

\* An entry about a QoS rule keeps them typed.
LEMMA GoodQos ==
    ASSUME NEW q \in HP!PartialMaps(HP!QosKeys, Rates), NEW k \in HP!QosKeys
    PROVE  /\ \A r \in Rates : Insert(q, k, r) \in HP!PartialMaps(HP!QosKeys, Rates)
           /\ Restrict(q, DOMAIN q \ {k}) \in HP!PartialMaps(HP!QosKeys, Rates)
<1>1. ASSUME NEW r \in Rates
      PROVE  Insert(q, k, r) \in HP!PartialMaps(HP!QosKeys, Rates)
  <2>1. HP!Insert(q, k, r) \in HP!PartialMaps(HP!QosKeys, Rates)
      BY HandlerAssumptions, HP!InsertType
  <2>2. QED BY <2>1, SameEffects
<1>2. Restrict(q, DOMAIN q \ {k}) \in HP!PartialMaps(HP!QosKeys, Rates)
  <2>1. HP!Restrict(q, DOMAIN q \ {k}) \in HP!PartialMaps(HP!QosKeys, Rates)
      BY HandlerAssumptions, HP!RestrictType
  <2>2. QED BY <2>1, SameEffects
<1>3. QED BY <1>1, <1>2

\* An entry leads from a good state to a good one.
LEMMA GoodApply ==
    ASSUME NEW s, Good(s), NEW e \in Entries
    PROVE  Good(ApplyWalEntry(s, e))
<1>1. PICK d, t, q, f : s = State(d, t, q, f) /\ GoodFields(d, t, q, f)
    BY DEF Good
<1>2. ASSUME NEW n \in HP!Names, NEW c \in HP!Cidrs, e = [op |-> "AddGroup", name |-> n, cidr |-> c]
      PROVE  Good(ApplyWalEntry(s, e))
  <2>1. ApplyWalEntry(s, e) = State(ApplyAddGroup(d, n, c), t, q, f)
      BY <1>1, <1>2, AddGroupEntry
  <2>2. QED BY <1>1, <2>1, GoodGroups DEF Good, GoodFields
<1>3. ASSUME NEW n \in HP!Names, e = [op |-> "DeleteGroup", name |-> n]
      PROVE  Good(ApplyWalEntry(s, e))
  <2>1. ApplyWalEntry(s, e) = State(ApplyDeleteGroup(d, n), t, q, f)
      BY <1>1, <1>3, DeleteGroupEntry
  <2>2. QED BY <1>1, <2>1, GoodGroups DEF Good, GoodFields
<1>4. ASSUME NEW k \in HP!RuleKeys, NEW p \in PortTexts,
             e = [op |-> "AddRule", key |-> k, action |-> 0, ports |-> p]
      PROVE  Good(ApplyWalEntry(s, e))
  <2>1. CASE AddRuleAccepts(t, MaxPortPolicies, p)
    <3>1. ApplyWalEntry(s, e) = State(d, ApplyAddRule(t, k, 0, p), q, f)
        BY <1>1, <1>4, <2>1, AddRuleEntry
    <3>2. QED BY <1>1, <2>1, <3>1, GoodRules DEF Good, GoodFields
  <2>2. CASE ~AddRuleAccepts(t, MaxPortPolicies, p)
    <3>1. ApplyWalEntry(s, e) = s
        BY <1>1, <1>4, <2>2 DEF ApplyWalEntry, State
    <3>2. QED BY <3>1
  <2>3. QED BY <2>1, <2>2
<1>5. ASSUME NEW k \in HP!RuleKeys, e = [op |-> "RemoveRule", key |-> k]
      PROVE  Good(ApplyWalEntry(s, e))
  <2>1. CASE k \in DOMAIN t.rules
    <3>1. ApplyWalEntry(s, e) = State(d, ApplyRemoveRule(t, k), q, f)
        BY <1>1, <1>5, <2>1, RemoveRuleEntry
    <3>2. QED BY <1>1, <2>1, <3>1, GoodRules DEF Good, GoodFields
  <2>2. CASE k \notin DOMAIN t.rules
    <3>1. ApplyWalEntry(s, e) = s
        BY <1>1, <1>5, <2>2 DEF ApplyWalEntry, State
    <3>2. QED BY <3>1
  <2>3. QED BY <2>1, <2>2
<1>6. ASSUME NEW r \in Rates, NEW k \in HP!QosKeys, e = [op |-> "AddQos", rate |-> r, key |-> k]
      PROVE  Good(ApplyWalEntry(s, e))
  <2>1. ApplyWalEntry(s, e) = State(d, t, Insert(q, k, r), f)
      BY <1>1, <1>6, AddQosEntry
  <2>2. QED BY <1>1, <2>1, GoodQos DEF Good, GoodFields
<1>7. ASSUME NEW k \in HP!QosKeys, e = [op |-> "DeleteQos", key |-> k]
      PROVE  Good(ApplyWalEntry(s, e))
  <2>1. ApplyWalEntry(s, e) = State(d, t, Restrict(q, DOMAIN q \ {k}), f)
      BY <1>1, <1>7, DeleteQosEntry
  <2>2. QED BY <1>1, <2>1, GoodQos DEF Good, GoodFields
<1>8. ASSUME NEW ct \in Options, NEW mon \in Options,
             e = [op |-> "UpdateConfig", conntrack |-> ct, monitoring |-> mon]
      PROVE  Good(ApplyWalEntry(s, e))
  <2> DEFINE g == [conntrack  |-> Given(ct, f.conntrack), monitoring |-> Given(mon, f.monitoring)]
  <2>1. ApplyWalEntry(s, e) = State(d, t, q, g)
      BY <1>1, <1>8, UpdateConfigEntry
  <2>2. ASSUME NEW o \in Options, NEW b \in BOOLEAN
        PROVE  Given(o, b) \in BOOLEAN
    <3>1. CASE o = {}
        BY <3>1 DEF Given
    <3>2. CASE o # {}
        BY <3>2 DEF Given, Options
    <3>3. QED BY <3>1, <3>2
  <2>3. f.conntrack \in BOOLEAN /\ f.monitoring \in BOOLEAN
      BY <1>1 DEF GoodFields, HP!Switches
  <2>4. g \in HP!Switches
      BY <2>2, <2>3 DEF HP!Switches
  <2> HIDE DEF g
  <2>5. QED BY <1>1, <2>1, <2>4 DEF Good, GoodFields
<1>9. QED BY <1>2, <1>3, <1>4, <1>5, <1>6, <1>7, <1>8 DEF Entries

\* The keys of the handlers.
LEMMA HandlersPolicyKey ==
    ASSUME NEW r
    PROVE  /\ Handlers!PolicyKey(r) = HP!PolicyKey(r)
           /\ Handlers!Resolvable(r) <=> HP!Resolvable(r)
BY Zenon DEF Handlers!PolicyKey, Handlers!ResolveGroupId, Handlers!Resolvable, Handlers!Known,
             HP!PolicyKey, HP!ResolveGroupId, HP!Resolvable, HP!Known

\* Likewise those of QoS rules.
LEMMA HandlersQosGroup ==
    ASSUME NEW n
    PROVE  /\ Handlers!QosGroupId(n) = HP!QosGroupId(n)
           /\ Handlers!QosResolvable(n) <=> HP!QosResolvable(n)
BY Zenon DEF Handlers!QosGroupId, Handlers!QosResolvable, Handlers!Known,
             HP!QosGroupId, HP!QosResolvable, HP!Known

(***************************************************************************)
(* What a handler leaves in memory is what its entry will do.              *)
(***************************************************************************)
\* A good state's fields.
LEMMA MemoryFields ==
    ASSUME Good(Memory)
    PROVE  GoodFields(directory, table, qos_rules, flags)
<1>1. PICK d, t, q, f : Memory = State(d, t, q, f) /\ GoodFields(d, t, q, f)
    BY DEF Good
<1>2. d = directory /\ t = table /\ q = qos_rules /\ f = flags
    BY <1>1 DEF Memory, State
<1>3. QED BY <1>1, <1>2

\* A good memory with ids within the bound is typed, as the handlers need it.
LEMMA MemoryTypes ==
    ASSUME Good(Memory), IdsLeft(Memory)
    PROVE  HP!MemoryTyped
<1>1. GoodFields(directory, table, qos_rules, flags)
    BY MemoryFields
<1>2. directory.next_group_id <= MaxGroupId + 1
    BY DEF IdsLeft, Memory
<1>3. QED BY <1>1, <1>2 DEF GoodFields, HP!MemoryTyped, HP!GoodTable

Effect(e) == /\ e \in Entries
             /\ pending' = << e >>
             /\ Memory' = ApplyWalEntry(Memory, e)

\* The kinds of entries, one by one.
LEMMA EntryKinds ==
    /\ \A n \in HP!Names : /\ [op |-> "DeleteGroup", name |-> n] \in Entries
                           /\ \A c \in HP!Cidrs :
                                  [op |-> "AddGroup", name |-> n, cidr |-> c] \in Entries
    /\ \A ct, mon \in Options :
           [op |-> "UpdateConfig", conntrack |-> ct, monitoring |-> mon] \in Entries
<1>1. ASSUME NEW n \in HP!Names
      PROVE  [op |-> "DeleteGroup", name |-> n] \in Entries
    BY DEF Entries
<1>2. ASSUME NEW n \in HP!Names, NEW c \in HP!Cidrs
      PROVE  [op |-> "AddGroup", name |-> n, cidr |-> c] \in Entries
    BY DEF Entries
<1>3. ASSUME NEW ct \in Options, NEW mon \in Options
      PROVE  [op |-> "UpdateConfig", conntrack |-> ct, monitoring |-> mon] \in Entries
    BY DEF Entries
<1>4. QED BY <1>1, <1>2, <1>3

\* A group request leaves in memory what its one entry will do.
LEMMA AddGroupEffect ==
    ASSUME NEW r \in GroupRequests, AddGroup(r)
    PROVE  \E e : Effect(e)
<1> DEFINE e == [op |-> "AddGroup", name |-> r[1], cidr |-> r[2]]
<1>1. ~Handlers!Fail(1) /\ ~Handlers!Fail(2)
    BY NoCallFails
<1>2. /\ directory' = Handlers!ApplyAddGroup(directory, r[1], r[2])
      /\ UNCHANGED << table, qos_rules, flags >>
      /\ pending' = << e >>
    BY <1>1 DEF AddGroup, Handled, Handlers!AddGroup, Handlers!policyVars,
                       Handlers!qosVars, Handlers!configVars
<1>3. Memory' = ApplyWalEntry(Memory, e)
    BY <1>2, SameGroups, MemoryIsState, AddGroupEntry
<1>4. e \in Entries
  <2>1. r[1] \in HP!Names /\ r[2] \in HP!Cidrs
      BY DEF HP!Names, HP!Cidrs
  <2>2. QED BY <2>1, EntryKinds
<1>5. QED BY <1>2, <1>3, <1>4 DEF Effect

\* The deletion of a group, which removes its CIDRs one by one, leaves in
\* memory what its one entry will do.
LEMMA DeleteGroupEffect ==
    ASSUME NEW r \in GroupRequests, DeleteGroup(r), Good(Memory)
    PROVE  \E e : Effect(e)
<1> DEFINE n == r[1]
           e == [op |-> "DeleteGroup", name |-> n]
<1>1. PICK srcKept \in SUBSET directory.groups[n].cidrs,
           dstKept \in SUBSET directory.groups[n].cidrs :
          /\ Handlers!Fail(Cardinality(srcKept) + Cardinality(dstKept))
          /\ \/ directory' = Handlers!ApplyDeleteGroup(directory, n)
             \/ srcKept \cup dstKept # {}
  <2>1. \A S : Handlers!Cardinality(S) = Cardinality(S)
      BY Zenon DEF Cardinality, Handlers!Cardinality
  <2>2. QED BY <2>1 DEF DeleteGroup, Handlers!DeleteGroup
<1>2. /\ n \in DOMAIN directory.groups
      /\ UNCHANGED << table, qos_rules, flags >>
      /\ pending' = << e >>
    BY DEF DeleteGroup, Handled, Handlers!DeleteGroup, Handlers!policyVars, Handlers!qosVars,
           Handlers!configVars
<1>3. HP!GoodDirectory(directory)
    BY MemoryFields DEF GoodFields
<1>4. IsFiniteSet(directory.groups[n].cidrs)
  <2>1. HP!IsFiniteSet(directory.groups[n].cidrs)
      BY <1>2, <1>3, HandlerAssumptions, HP!DirectoryParts
  <2>2. QED BY <2>1, Zenon DEF HP!IsFiniteSet, IsFiniteSet
<1>5. /\ IsFiniteSet(srcKept) /\ Cardinality(srcKept) \in Nat
      /\ IsFiniteSet(dstKept) /\ Cardinality(dstKept) \in Nat
    BY <1>4, FS_Subset, FS_CardinalityType
<1>6. Cardinality(srcKept) + Cardinality(dstKept) = 0
    BY <1>1, <1>5, NoCallFails
<1>7. Cardinality(srcKept) = 0 /\ Cardinality(dstKept) = 0
    BY <1>5, <1>6
<1>8. srcKept = {} /\ dstKept = {}
    BY <1>5, <1>7, FS_EmptySet
<1>9. directory' = ApplyDeleteGroup(directory, n)
    BY <1>1, <1>8, SameGroups
<1>10. Memory' = ApplyWalEntry(Memory, e)
    BY <1>2, <1>9, MemoryIsState, DeleteGroupEntry
<1>11. e \in Entries
  <2>1. n \in HP!Names
      BY DEF HP!Names
  <2>2. QED BY <2>1, EntryKinds
<1>12. QED BY <1>2, <1>10, <1>11 DEF Effect

\* So does a policy request that is accepted.
LEMMA AddPolicyEffect ==
    ASSUME NEW r \in PolicyRequests, NEW p \in PortTexts, AddPolicy(r, p), HP!MemoryTyped
    PROVE  \E e : Effect(e)
<1> DEFINE k == Handlers!PolicyKey(r)
           e == [op |-> "AddRule", key |-> k, action |-> 0, ports |-> p]
<1>1. ~Handlers!Fail(1)
    BY NoCallFails
<1>2. /\ table' = Handlers!ApplyAddRule(table, k, 0, p)
      /\ Handlers!Resolvable(r)
      /\ Handlers!AddRuleAccepts(table, MaxPortPolicies, p)
      /\ UNCHANGED << directory, qos_rules, flags >>
      /\ pending' = << e >>
    BY <1>1 DEF AddPolicy, Handled, Handlers!AddPolicy, Handlers!groupVars,
                       Handlers!qosVars, Handlers!configVars
<1>3. Handlers!ApplyAddRule(table, k, 0, p) = ApplyAddRule(table, k, 0, p)
    BY SameAddRule
<1>4. Handlers!AddRuleAccepts(table, MaxPortPolicies, p)
          <=> AddRuleAccepts(table, MaxPortPolicies, p)
    BY SameNormalize, Zenon
       DEF AddRuleAccepts, LimitReached, ValidPorts, AllPorts,
           Handlers!AddRuleAccepts, Handlers!LimitReached, Handlers!ValidPorts,
           Handlers!AllPorts
<1>5. Memory' = ApplyWalEntry(Memory, e)
    BY <1>2, <1>3, <1>4, MemoryIsState, AddRuleEntry
<1>6. k \in HP!RuleKeys
    BY <1>2, HandlerAssumptions, HandlersPolicyKey, HP!PolicyKeyType
<1>7. e \in Entries
    BY <1>6 DEF Entries
<1>8. QED BY <1>2, <1>5, <1>7 DEF Effect

\* So does the deletion of a policy.
LEMMA DeletePolicyEffect ==
    ASSUME NEW r \in PolicyRequests, DeletePolicy(r), HP!MemoryTyped
    PROVE  \E e : Effect(e)
<1> DEFINE k == Handlers!PolicyKey(r)
           e == [op |-> "RemoveRule", key |-> k]
<1>1. ~Handlers!Fail(1)
    BY NoCallFails
<1>2. /\ table' = Handlers!ApplyRemoveRule(table, k)
      /\ Handlers!Resolvable(r)
      /\ k \in DOMAIN table.rules
      /\ UNCHANGED << directory, qos_rules, flags >>
      /\ pending' = << e >>
    BY <1>1 DEF DeletePolicy, Handled, Handlers!DeletePolicy, Handlers!groupVars,
                       Handlers!qosVars, Handlers!configVars
<1>3. Handlers!ApplyRemoveRule(table, k) = ApplyRemoveRule(table, k)
    BY Zenon
       DEF ApplyRemoveRule, RemoveKey, ReleasePortSet, FreeSet, LowerCount, IdxOf, HasPortSet,
           PortSetAt, NoIdx, Restrict, Handlers!ApplyRemoveRule, Handlers!RemoveKey,
           Handlers!ReleasePortSet, Handlers!FreeSet, Handlers!LowerCount, Handlers!IdxOf,
           Handlers!HasPortSet, Handlers!PortSetAt, Handlers!NoIdx, Handlers!Restrict
<1>4. Memory' = ApplyWalEntry(Memory, e)
    BY <1>2, <1>3, MemoryIsState, RemoveRuleEntry
<1>5. k \in HP!RuleKeys
    BY <1>2, HandlerAssumptions, HandlersPolicyKey, HP!PolicyKeyType
<1>6. e \in Entries
    BY <1>5 DEF Entries
<1>7. QED BY <1>2, <1>4, <1>6 DEF Effect

\* So does a QoS request.
LEMMA AddQosEffect ==
    ASSUME NEW r \in QosRequests, NEW rate \in Rates, AddQos(r, rate), HP!MemoryTyped
    PROVE  \E e : Effect(e)
<1> DEFINE k == << Handlers!QosGroupId(r[1]), r[2] >>
           e == [op |-> "AddQos", rate |-> rate, key |-> k]
<1>1. ~Handlers!Fail(1)
    BY NoCallFails
<1>2. /\ qos_rules' = Handlers!Insert(qos_rules, k, rate)
      /\ Handlers!QosResolvable(r[1])
      /\ UNCHANGED << directory, table, flags >>
      /\ pending' = << e >>
    BY <1>1 DEF AddQos, Handled, Handlers!AddQos, Handlers!groupVars, Handlers!policyVars
<1>3. Handlers!Insert(qos_rules, k, rate) = Insert(qos_rules, k, rate)
    BY Zenon DEF Insert, Handlers!Insert
<1>4. Memory' = ApplyWalEntry(Memory, e)
    BY <1>2, <1>3, MemoryIsState, AddQosEntry
<1>5. k \in HP!QosKeys
    BY <1>2, HandlerAssumptions, HandlersQosGroup, HP!QosKeyType
<1>6. e \in Entries
    BY <1>5 DEF Entries
<1>7. QED BY <1>2, <1>4, <1>6 DEF Effect

\* So does the deletion of a QoS rule.
LEMMA DeleteQosEffect ==
    ASSUME NEW r \in QosRequests, DeleteQos(r), HP!MemoryTyped
    PROVE  \E e : Effect(e)
<1> DEFINE k == << Handlers!QosGroupId(r[1]), r[2] >>
           e == [op |-> "DeleteQos", key |-> k]
<1>1. ~Handlers!Fail(1)
    BY NoCallFails
<1>2. /\ qos_rules' = Handlers!Without(qos_rules, {k})
      /\ Handlers!QosResolvable(r[1])
      /\ UNCHANGED << directory, table, flags >>
      /\ pending' = << e >>
    BY <1>1 DEF DeleteQos, Handled, Handlers!DeleteQos, Handlers!groupVars,
                       Handlers!policyVars
<1>3. Handlers!Without(qos_rules, {k}) = Restrict(qos_rules, DOMAIN qos_rules \ {k})
    BY Zenon DEF Restrict, Handlers!Restrict, Handlers!Without
<1>4. Memory' = ApplyWalEntry(Memory, e)
    BY <1>2, <1>3, MemoryIsState, DeleteQosEntry
<1>5. k \in HP!QosKeys
    BY <1>2, HandlerAssumptions, HandlersQosGroup, HP!QosKeyType
<1>6. e \in Entries
    BY <1>5 DEF Entries
<1>7. QED BY <1>2, <1>4, <1>6 DEF Effect

\* So does a change of the switches.
LEMMA UpdateConfigEffect ==
    ASSUME NEW r \in ConfigRequests, UpdateConfig(r)
    PROVE  \E e : Effect(e)
<1> DEFINE e == [op |-> "UpdateConfig", conntrack |-> r[1], monitoring |-> r[2]]
<1>1. ~Handlers!Fail(1)
    BY NoCallFails
<1>2. /\ flags' = [conntrack  |-> Handlers!Given(r[1], flags.conntrack),
                   monitoring |-> Handlers!Given(r[2], flags.monitoring)]
      /\ UNCHANGED << directory, table, qos_rules >>
      /\ pending' = << e >>
    BY <1>1 DEF UpdateConfig, Handled, Handlers!UpdateConfig, Handlers!groupVars,
                       Handlers!policyVars, Handlers!qosVars
<1>3. \A o, b : Handlers!Given(o, b) = Given(o, b)
    BY Zenon DEF Given, Handlers!Given
<1>4. Memory' = ApplyWalEntry(Memory, e)
    BY <1>2, <1>3, MemoryIsState, UpdateConfigEntry
<1>5. e \in Entries
    BY SwitchesAssumption, EntryKinds DEF Options
<1>6. QED BY <1>2, <1>4, <1>5 DEF Effect

\* A handler leaves in memory what its entry, replayed, would make of it.
LEMMA HandleEffect ==
    ASSUME Handle, Good(Memory), IdsLeft(Memory)
    PROVE  \E e : Effect(e)
BY AddGroupEffect, DeleteGroupEffect, AddPolicyEffect, DeletePolicyEffect, AddQosEffect,
   DeleteQosEffect, UpdateConfigEffect, MemoryTypes DEF Handle

\* A handler is one of those of ControlPlane.
LEMMA HandleIsStep == Handle => HP!Next
BY Zenon, HandlersAddGroup, HandlersDeleteGroup, HandlersAddPolicy, HandlersDeletePolicy,
   HandlersAddQos, HandlersDeleteQos, HandlersUpdateConfig
   DEF Handle, AddGroup, DeleteGroup, AddPolicy, DeletePolicy, AddQos, DeleteQos, UpdateConfig,
       HP!Next

\* A handler that adds a group hands out an id within the bound.
LEMMA HandleIds ==
    ASSUME Handle, Good(Memory), IdsLeft(Memory)
    PROVE  IdsLeft(Memory')
<1>1. IdsLeft(Memory') <=> directory'.next_group_id <= MaxGroupId + 1
    BY DEF IdsLeft, Memory
<1>2. directory.next_group_id <= MaxGroupId + 1
    BY DEF IdsLeft, Memory
<1>3. HP!GoodDirectory(directory)
    BY MemoryFields DEF GoodFields
<1>4. CASE \E r \in GroupRequests : AddGroup(r)
    BY <1>1, <1>4, NoCallFails DEF AddGroup, Handlers!AddGroup
<1>5. CASE \E r \in GroupRequests : DeleteGroup(r)
  <2>1. PICK r \in GroupRequests : DeleteGroup(r)
      BY <1>5
  <2>2. directory' \in {directory, Handlers!ApplyDeleteGroup(directory, r[1])}
      BY <2>1 DEF DeleteGroup, Handlers!DeleteGroup
  <2>3. Handlers!ApplyDeleteGroup(directory, r[1]) = HP!ApplyDeleteGroup(directory, r[1])
      BY SameGroups, SameEffects
  <2>4. HP!ApplyDeleteGroup(directory, r[1]).next_group_id = directory.next_group_id
      BY <1>3, HandlerAssumptions, HP!GroupDeleted
  <2>5. QED BY <1>1, <1>2, <2>2, <2>3, <2>4
<1>6. CASE \/ \E r \in PolicyRequests, p \in PortTexts : AddPolicy(r, p)
           \/ \E r \in PolicyRequests : DeletePolicy(r)
           \/ \E r \in QosRequests, rate \in Rates : AddQos(r, rate)
           \/ \E r \in QosRequests : DeleteQos(r)
           \/ \E r \in ConfigRequests : UpdateConfig(r)
  <2>1. UNCHANGED directory
      BY <1>6 DEF AddPolicy, DeletePolicy, AddQos, DeleteQos, UpdateConfig, Handlers!AddPolicy,
             Handlers!DeletePolicy, Handlers!AddQos, Handlers!DeleteQos, Handlers!UpdateConfig,
             Handlers!groupVars
  <2>2. QED BY <1>1, <1>2, <2>1
<1>7. QED BY <1>4, <1>5, <1>6 DEF Handle

(***************************************************************************)
(* Replaying one entry, or none, after a log.                              *)
(***************************************************************************)
\* What may be in it: entries, and lines that do not parse.
Lines == Entries \cup {Corrupt}
IsLog(q) == q \in Seq(Lines)
Short(q) == q = << >> \/ \E e \in Entries : q = << e >>

\* The replay of a log leads from a good state to a good one: a shortest log
\* that did not would have a last entry that spoils a good state.
LEMMA GoodReplay ==
    ASSUME NEW s, Good(s), NEW log, IsLog(log)
    PROVE  Good(Replay(s, log))
<1>1. log \in Seq(Lines) /\ Len(log) \in Nat /\ \A i \in 1 .. Len(log) : log[i] \in Lines
    BY DEF IsLog
<1>2. PICK f : Run(f, s, log, Len(log)) /\ Replay(s, log) = f[Len(log)]
    BY <1>1, ReplayIsRun
<1> DEFINE Bad == {i \in 0 .. Len(log) : ~Good(f[i])}
<1>3. Bad = {}
    <2>1. SUFFICES ASSUME Bad # {} PROVE FALSE
        OBVIOUS
    <2>2. Bad \in SUBSET Nat
        BY <1>1
    <2>3. PICK i \in Bad : \A k \in Bad : i <= k
      <3> HIDE DEF Bad
      <3>1. QED BY <2>1, <2>2, SmallestIndex
    <2>4. f[i] = IF i = 0 THEN s ELSE ApplyWalEntry(f[i - 1], log[i])
        BY <1>2 DEF Run
    <2>5. i # 0
        BY <2>4
    <2>6. Good(f[i - 1]) /\ log[i] \in Lines
        BY <1>1, <2>3, <2>5
    <2>7. log[i] = Corrupt => ApplyWalEntry(f[i - 1], log[i]) = f[i - 1]
        BY DEF Corrupt, ApplyWalEntry
    <2>8. QED BY <2>3, <2>4, <2>5, <2>6, <2>7, GoodApply DEF Lines
<1>4. QED BY <1>1, <1>2, <1>3

\* Replaying a log and then what is still to be written is replaying both.
LEMMA ReplayMore ==
    ASSUME NEW log, IsLog(log), NEW q, Short(q), NEW s
    PROVE  /\ IsLog(log \o q)
           /\ Len(log \o q) = Len(log) + Len(q)
           /\ Replay(s, log \o q) = Replay(Replay(s, log), q)
<1>1. log \in Seq(Lines)
    BY DEF IsLog
<1>2. CASE q = << >>
    <2>1. log \o q = log /\ Len(q) = 0
        BY <1>1, <1>2
    <2>2. QED BY <1>1, <1>2, <2>1, ReplayNothing DEF IsLog
<1>3. ASSUME NEW e \in Entries, q = << e >>
      PROVE  /\ IsLog(log \o q)
             /\ Len(log \o q) = Len(log) + Len(q)
             /\ Replay(s, log \o q) = Replay(Replay(s, log), q)
    <2>1. log \o q = Append(log, e) /\ log \o q \in Seq(Lines) /\ Len(q) = 1 /\ e \in Lines
        BY <1>1, <1>3 DEF Lines
    <2>2. Replay(s, log \o q) = ApplyWalEntry(Replay(s, log), e)
        BY <1>1, <2>1, ReplayAppend
    <2>3. << >> \in Seq(Lines) /\ q = Append(<< >>, e)
        BY <1>3
    <2>4. Replay(Replay(s, log), q) = ApplyWalEntry(Replay(Replay(s, log), << >>), e)
        BY <2>1, <2>3, ReplayAppend
    <2>5. Len(Append(log, e)) = Len(log) + 1
        BY <1>1
    <2>6. QED BY <2>1, <2>2, <2>4, <2>5, ReplayNothing DEF IsLog
<1>4. QED BY <1>2, <1>3 DEF Short

\* A line over others leaves a log that is longer by one line at most.
LEMMA WrittenAtIsLog ==
    ASSUME IsLog(wal), NEW n \in 0 .. Len(wal), NEW hit \in n .. Len(wal), NEW l \in Lines
    PROVE  LET log == SubSeq(wal, 1, n) \o << l >> \o SubSeq(wal, hit + 1, Len(wal))
           IN  IsLog(log) /\ log # << >> /\ Len(log) <= Len(wal) + 1
<1> DEFINE front == SubSeq(wal, 1, n)
           rest  == SubSeq(wal, hit + 1, Len(wal))
           line  == << l >>
<1>1. wal \in Seq(Lines) /\ Len(wal) \in Nat /\ n \in Nat /\ hit \in Nat /\ n <= hit
    BY DEF IsLog
<1>2. front \in Seq(Lines) /\ Len(front) = n
    BY <1>1
<1>3. rest \in Seq(Lines) /\ Len(rest) = Len(wal) - hit
  <2>1. rest \in Seq(Lines)
      BY <1>1
  <2>2. CASE hit = Len(wal)
      BY <1>1, <2>2
  <2>3. CASE hit < Len(wal)
      BY <1>1, <2>3
  <2>4. QED BY <1>1, <2>1, <2>2, <2>3
<1>4. line \in Seq(Lines) /\ Len(line) = 1
    OBVIOUS
<1> HIDE DEF front, rest, line
<1>5. front \o line \in Seq(Lines) /\ Len(front \o line) = n + 1
  <2>1. front \o line \in Seq(Lines) /\ Len(front \o line) = Len(front) + Len(line)
      BY <1>2, <1>4, ConcatProperties, Zenon
  <2>2. QED BY <1>2, <1>4, <2>1
<1>6. /\ (front \o line) \o rest \in Seq(Lines)
      /\ Len((front \o line) \o rest) = n + 1 + (Len(wal) - hit)
  <2>1. /\ (front \o line) \o rest \in Seq(Lines)
        /\ Len((front \o line) \o rest) = Len(front \o line) + Len(rest)
      BY <1>3, <1>5, ConcatProperties, Zenon
  <2>2. QED BY <1>3, <1>5, <2>1
<1>7. n + 1 + (Len(wal) - hit) # 0 /\ n + 1 + (Len(wal) - hit) <= Len(wal) + 1
    BY <1>1
<1>8. (front \o line) \o rest # << >>
    BY <1>6, <1>7
<1>9. QED BY <1>6, <1>7, <1>8 DEF IsLog, front, rest, line

\* So does whatever a writer may make of the log.
LEMMA WrittenIsLog ==
    ASSUME IsLog(wal), NEW w, NEW line, Short(line), line # << >>, NEW log \in WrittenBy(w, line)
    PROVE  IsLog(log) /\ log # << >> /\ Len(log) <= Len(wal) + 1
<1>1. PICK e \in Entries : line = << e >>
    BY DEF Short
<1>2. e \in Lines /\ Corrupt \in Lines /\ Len(wal) \in Nat
    BY DEF Lines, IsLog
<1>3. ASSUME NEW n \in 0 .. Len(wal), NEW l \in Lines, log \in WrittenAt(n, << l >>)
      PROVE  IsLog(log) /\ log # << >> /\ Len(log) <= Len(wal) + 1
  <2>1. PICK hit \in n .. Len(wal) :
            log = SubSeq(wal, 1, n) \o << l >> \o SubSeq(wal, hit + 1, Len(wal))
      BY <1>3 DEF WrittenAt
  <2>2. QED BY <2>1, WrittenAtIsLog
<1>4. CASE log = wal \o line
  <2>1. IsLog(log) /\ Len(log) = Len(wal) + Len(line)
      BY <1>4, ReplayMore
  <2>2. Len(line) = 1
      BY <1>1
  <2>3. QED BY <1>2, <2>1, <2>2
<1>5. CASE w = "truncated"
  <2>1. log \in WrittenAt(0, line)
      BY <1>5 DEF WrittenBy
  <2>2. QED BY <1>1, <1>2, <1>3, <2>1
<1>6. CASE w = "adrift"
  <2>1. \/ \E n \in 1 .. Len(wal) : log \in WrittenAt(n, line)
        \/ \E n \in 0 .. Len(wal) : log \in WrittenAt(n, << Corrupt >>)
    <3> DEFINE whole  == UNION {WrittenAt(n, line) : n \in 1 .. Len(wal)}
           broken == UNION {WrittenAt(n, << Corrupt >>) : n \in 0 .. Len(wal)}
    <3>1. WrittenBy(w, line) = whole \cup broken
        BY <1>6 DEF WrittenBy
    <3>2. log \in whole \/ log \in broken
        BY <3>1
    <3>3. QED BY <3>2
  <2>2. QED BY <1>1, <1>2, <1>3, <2>1
<1>7. CASE w \notin {"truncated", "adrift"}
    BY <1>4, <1>7 DEF WrittenBy
<1>8. QED BY <1>5, <1>6, <1>7

\* Where a writer stands in the log.
Places == {"opened", "appended", "truncated", "own", "adrift"}

\* Its own line and another's do not make it leave them.
LEMMA PlacesKept ==
    ASSUME NEW w \in Places
    PROVE  AfterWrite(w) \in Places /\ AfterOther(w) \in Places
BY DEF Places, AfterWrite, AfterOther

\* Replaying one entry is applying it.
LEMMA ReplayOne == \A s, e : Replay(s, << e >>) = ApplyWalEntry(s, e)
<1>1. TAKE s, e
<1>2. << >> \in Seq({e}) /\ e \in {e} /\ << e >> = Append(<< >>, e)
    OBVIOUS
<1>3. Replay(s, << e >>) = ApplyWalEntry(Replay(s, << >>), e)
    BY <1>2, ReplayAppend
<1>4. QED BY <1>3, ReplayNothing

(***************************************************************************)
(* The inductive invariant.                                                *)
(***************************************************************************)
\* What state.json holds, or will hold when the with_state under way ends.
Kept == IF rewrite = "truncated" THEN read ELSE Saved

\* A state requests can lead to, with no more ids than the bound allows.
Fine(s) == Good(s) /\ IdsLeft(s)

\* The default state is one.
LEMMA FineDefault == Fine(DefaultState)
<1>1. DefaultState.directory.next_group_id = 1
    BY DEF DefaultState, NoGroups
<1>2. QED BY <1>1, GoodDefault, BoundsAssumption DEF Fine, IdsLeft

FilesOK == /\ IsLog(wal) /\ Short(pending) /\ Short(late)
           /\ Fine(Memory) /\ Fine(Saved) /\ Fine(read)

\* What each operation of the life cycle relies on: a start that gets as far
\* as the registration finds no instance.
OpsOK ==
    /\ standalone \in BOOLEAN /\ registered \in BOOLEAN
    /\ op \in {"idle", "limit", "attach", "iface", "replay", "register", "open", "unlink",
               "clear", "remove", "unregister", "forget"}
    /\ pinned \in {"none", "all", "maps", "stale"}
    /\ {writer, late_writer} \subseteq Places
    /\ mishaps \subseteq {"lost", "missed", "torn", "behind"}
    /\ rewrite \in {"none", "read", "truncated", "unlinked"}
    /\ rewrite # "none" <=> op \in {"limit", "iface", "clear"}
    /\ ~registered => pending = << >>
    /\ op \in {"iface", "replay", "register", "open"} => ~registered /\ pinned # "none"
    /\ ~standalone /\ op \in {"limit", "attach", "unlink", "clear", "remove"} => ~registered
    /\ registered /\ op \notin {"unregister", "forget"} => pinned # "none"
    /\ ~standalone /\ op \in {"unregister", "forget"} => registered
    /\ ~standalone => op \notin {"iface", "clear"}
    /\ ~standalone /\ op = "remove" => ~Linked

\* A running instance has what was acknowledged, and the request under way.
MemoryKept == registered /\ "missed" \notin mishaps => Memory = Replay(promised, pending)

\* So have its files, without that request.
DiskKept == "lost" \notin mishaps => Replay(Kept, wal) = promised

\* What a with_state is going to write back is what it replaces.
ReadKept == "lost" \notin mishaps /\ rewrite = "read" => read = Saved

\* What a registration has loaded is what the files have when it opens the
\* log, unless there is a line it has not read.
LoadKept == op = "open" => /\ "lost" \notin mishaps => read = Replay(Saved, wal)
                           /\ wal = << >> => read = Saved

StateKept == FilesOK /\ MemoryKept /\ DiskKept /\ ReadKept /\ LoadKept

IInv == OpsOK /\ StateKept

\* The writers keep their types.
LEMMA WritersStep ==
    ASSUME IInv, [Next]_vars
    PROVE  {writer', late_writer'} \subseteq Places
<1>1. writer \in Places /\ late_writer \in Places
    BY DEF IInv, OpsOK
<1>2. "opened" \in Places /\ "truncated" \in Places
    BY DEF Places
<1>3. \A w \in Places : AfterWrite(w) \in Places /\ AfterOther(w) \in Places
    BY PlacesKept
<1>4. CASE Acknowledge \/ AcknowledgeLate
    BY <1>1, <1>2, <1>3, <1>4 DEF Acknowledge, AcknowledgeLate
<1>5. CASE Compact \/ Unregister \/ Register \/ Shutdown
    BY <1>1, <1>2, <1>3, <1>5
       DEF Compact, Unregister, Register, Shutdown, CompactMemory, CompactTo, diskVars
<1>6. CASE Forget \/ Crash \/ Reboot
    BY <1>1, <1>2, <1>6 DEF Forget, Crash, Reboot, AgentGone
<1>7. CASE UNCHANGED << writer, late_writer >>
    BY <1>1, <1>7
<1>8. QED
    BY <1>4, <1>5, <1>6, <1>7
    DEF Next, Handle, Start, Truncate, WriteBack, AttachFound, AttachNew, AttachBeside, ReplayState,
        LoadWithWal, Stop, RemoveLink, RemovePins, CleanUp, diskVars, vars

\* The life cycle alone.
LEMMA OpsStep ==
    ASSUME IInv, [Next]_vars
    PROVE  OpsOK'
<1> USE WritersStep DEF IInv, OpsOK
<1>1. CASE Handle
    BY <1>1 DEF Handle, opVars, historyVars
<1>2. CASE Acknowledge \/ AcknowledgeLate
  <2>1. CASE Acknowledge
    <3>1. mishaps' \subseteq {"lost", "missed", "torn", "behind"}
        BY <2>1 DEF Acknowledge, Note, When
    <3>2. QED BY <2>1, <3>1 DEF Acknowledge, opVars, Linked
  <2>2. CASE AcknowledgeLate
    <3>1. mishaps' \subseteq {"lost", "missed", "torn", "behind"}
        BY <2>2 DEF AcknowledgeLate, Note, When
    <3>2. QED BY <2>2, <3>1 DEF AcknowledgeLate, opVars, Linked
  <2>3. QED BY <1>2, <2>1, <2>2
<1>3. CASE Compact
    BY <1>3 DEF Compact, CompactMemory, CompactTo, Note, When, historyVars
<1>4. CASE Start
    BY <1>4 DEF Start, BeginRewrite, historyVars
<1>5. CASE Truncate
    BY <1>5 DEF Truncate, historyVars
<1>6. CASE WriteBack
    BY <1>6 DEF WriteBack, After, historyVars
<1>7. CASE AttachFound
    BY <1>7 DEF AttachFound, Linked, Note, When
<1>8. CASE AttachNew
    BY <1>8 DEF AttachNew, BeginRewrite, Note, When
<1>9. CASE AttachBeside
    BY <1>9 DEF AttachBeside, historyVars
<1>10. CASE ReplayState
    BY <1>10 DEF ReplayState, Note, When
<1>11. CASE LoadWithWal \/ Register
  <2>1. CASE LoadWithWal
      BY <2>1 DEF LoadWithWal, Linked, historyVars
  <2>2. CASE Register
      BY <2>2 DEF Register, CompactTo, Linked, Note, diskVars
  <2>3. QED BY <1>11, <2>1, <2>2
<1>12. CASE Stop
    BY <1>12 DEF Stop, historyVars
<1>13. CASE RemoveLink
    BY <1>13 DEF RemoveLink, BeginRewrite, Linked, historyVars
<1>14. CASE RemovePins
    BY <1>14 DEF RemovePins, Linked, historyVars
<1>15. CASE Unregister
    BY <1>15 DEF Unregister, CompactMemory, CompactTo, Note, When
<1>16. CASE Forget
    BY <1>16 DEF Forget, historyVars
<1>17. CASE CleanUp
    BY <1>17 DEF CleanUp, opVars, historyVars
<1>18. CASE Shutdown
    BY <1>18 DEF Shutdown, Note, When, opVars
<1>19. CASE Crash \/ Reboot
    BY <1>19 DEF Crash, Reboot, AgentGone, Note, When
<1>20. CASE UNCHANGED vars
    BY <1>20 DEF vars, opVars, historyVars, Linked
<1>21. QED BY <1>1, <1>2, <1>3, <1>4, <1>5, <1>6, <1>7, <1>8, <1>9, <1>10, <1>11, <1>12,
              <1>13, <1>14, <1>15, <1>16, <1>17, <1>18, <1>19, <1>20 DEF Next

(***************************************************************************)
(* What is kept, step by step.                                             *)
(***************************************************************************)
Untouched == UNCHANGED << memoryVars, diskVars, pending, late, promised, registered >>

SameLosses == /\ "lost" \in mishaps' <=> "lost" \in mishaps
              /\ "missed" \in mishaps' <=> "missed" \in mishaps

\* A step that touches neither memory nor files, but may begin a with_state.
LEMMA UntouchedKept ==
    ASSUME IInv, Untouched, SameLosses,
           \/ UNCHANGED << rewrite, read >>
           \/ rewrite # "truncated" /\ rewrite' = "read" /\ read' = Saved,
           op' = "open" => op = "open" /\ UNCHANGED read
    PROVE  StateKept'
<1>1. Memory' = Memory /\ Saved' = Saved /\ Kept' = Kept
    BY DEF Untouched, memoryVars, diskVars, Memory, Saved, Kept
<1>2. FilesOK'
    BY <1>1 DEF IInv, StateKept, FilesOK, Untouched, diskVars
<1>3. MemoryKept'
    BY <1>1 DEF IInv, StateKept, MemoryKept, Untouched, SameLosses
<1>4. DiskKept'
    BY <1>1 DEF IInv, StateKept, DiskKept, Untouched, diskVars, SameLosses
<1>5. ReadKept'
    BY <1>1 DEF IInv, StateKept, ReadKept, SameLosses
<1>6. LoadKept'
    BY <1>1 DEF IInv, StateKept, LoadKept, Untouched, diskVars, SameLosses
<1>7. QED BY <1>2, <1>3, <1>4, <1>5, <1>6 DEF StateKept

\* The steps of the life cycle between its reads and writes.
LEMMA LifeCycleKept ==
    ASSUME IInv,
           \/ Start \/ AttachFound \/ AttachNew \/ AttachBeside \/ ReplayState
           \/ Stop \/ RemoveLink \/ RemovePins \/ CleanUp
    PROVE  StateKept'
<1>1. Untouched
    BY DEF Start, AttachFound, AttachNew, AttachBeside, ReplayState, Stop, RemoveLink,
           RemovePins, CleanUp, historyVars, Untouched
<1>2. SameLosses
    BY DEF Start, AttachFound, AttachNew, AttachBeside, ReplayState, Stop, RemoveLink,
           RemovePins, CleanUp, historyVars, Note, When, SameLosses
<1>3. \/ UNCHANGED << rewrite, read >>
      \/ rewrite # "truncated" /\ rewrite' = "read" /\ read' = Saved
    BY DEF Start, AttachFound, AttachNew, AttachBeside, ReplayState, Stop, RemoveLink,
           RemovePins, CleanUp, opVars, BeginRewrite, IInv, OpsOK
<1>4. op' = "open" => op = "open" /\ UNCHANGED read
    BY DEF Start, AttachFound, AttachNew, AttachBeside, ReplayState, Stop, RemoveLink,
           RemovePins, CleanUp, opVars, BeginRewrite
<1>5. QED BY <1>1, <1>2, <1>3, <1>4, UntouchedKept

\* A handler: memory runs ahead of what is acknowledged by its entry.
LEMMA HandleKept ==
    ASSUME IInv, Handle
    PROVE  StateKept'
<1>1. Good(Memory) /\ IdsLeft(Memory)
    BY DEF IInv, StateKept, FilesOK, Fine
<1>2. PICK e : e \in Entries /\ pending' = << e >> /\ Memory' = ApplyWalEntry(Memory, e)
    BY <1>1, HandleEffect DEF Effect
<1>3. Fine(Memory')
    BY <1>1, <1>2, GoodApply, HandleIds DEF Fine
<1>4. /\ pending = << >>
      /\ UNCHANGED << snapshot, wal, rewrite, read, registered, late, promised, mishaps >>
    BY DEF Handle, diskVars, opVars, historyVars
<1>5. Saved' = Saved /\ Kept' = Kept
    BY <1>4 DEF Saved, Kept
<1>6. FilesOK'
    BY <1>2, <1>3, <1>4, <1>5 DEF IInv, StateKept, FilesOK, Short
<1>7. MemoryKept'
    BY <1>2, <1>4, ReplayNothing, ReplayOne DEF IInv, StateKept, MemoryKept
<1>8. DiskKept'
    BY <1>4, <1>5 DEF IInv, StateKept, DiskKept
<1>9. ReadKept'
    BY <1>4, <1>5 DEF IInv, StateKept, ReadKept
<1>10. LoadKept'
    BY <1>4, <1>5 DEF IInv, StateKept, LoadKept, Handle, opVars
<1>11. QED BY <1>6, <1>7, <1>8, <1>9, <1>10 DEF StateKept

\* The answer: the entry has come to the log, after what was there, or it is
\* noted that it has not.
LEMMA AcknowledgeKept ==
    ASSUME IInv, Acknowledge
    PROVE  StateKept'
<1>1. /\ wal' \in WrittenBy(writer, pending)
      /\ pending' = << >> /\ promised' = Replay(promised, pending)
      /\ pending # << >>
      /\ "lost" \notin mishaps' => "lost" \notin mishaps /\ wal' = wal \o pending
      /\ "missed" \in mishaps' <=> "missed" \in mishaps
      /\ UNCHANGED << memoryVars, snapshot, rewrite, read, registered, late, op >>
    BY DEF Acknowledge, opVars, Note, When
<1>2. Memory' = Memory /\ Saved' = Saved /\ Kept' = Kept
    BY <1>1 DEF memoryVars, Memory, Saved, Kept
<1>3. IsLog(wal) /\ Short(pending) /\ registered
    BY <1>1 DEF IInv, OpsOK, StateKept, FilesOK
<1>4. IsLog(wal') /\ Replay(Kept, wal \o pending) = Replay(Replay(Kept, wal), pending)
    BY <1>1, <1>3, WrittenIsLog, ReplayMore
<1>5. FilesOK'
    BY <1>1, <1>2, <1>4 DEF IInv, StateKept, FilesOK, Short
<1>6. MemoryKept'
    BY <1>1, <1>2, ReplayNothing DEF IInv, StateKept, MemoryKept
<1>7. DiskKept'
    BY <1>1, <1>2, <1>4 DEF IInv, StateKept, DiskKept
<1>8. ReadKept'
    BY <1>1, <1>2 DEF IInv, StateKept, ReadKept
<1>9. LoadKept'
    BY <1>1, <1>3 DEF IInv, OpsOK, LoadKept
<1>10. QED BY <1>5, <1>6, <1>7, <1>8, <1>9 DEF StateKept

\* The answer of a handler that outlived its instance: an instance that has
\* been registered since has not got it, one that has read the log will not,
\* and lines it falls on are lost.
LEMMA AcknowledgeLateKept ==
    ASSUME IInv, AcknowledgeLate
    PROVE  StateKept'
<1>1. /\ wal' \in WrittenBy(late_writer, late)
      /\ late # << >> /\ late' = << >> /\ promised' = Replay(promised, late)
      /\ registered => "missed" \in mishaps'
      /\ "lost" \notin mishaps' => /\ "lost" \notin mishaps
                                   /\ wal' = wal \o late
                                   /\ op # "open"
      /\ UNCHANGED << memoryVars, snapshot, rewrite, read, registered, pending, op >>
    BY DEF AcknowledgeLate, opVars, Note, When
<1>2. Memory' = Memory /\ Saved' = Saved /\ Kept' = Kept
    BY <1>1 DEF memoryVars, Memory, Saved, Kept
<1>3. IsLog(wal) /\ Short(late)
    BY DEF IInv, StateKept, FilesOK
<1>4. /\ IsLog(wal') /\ wal' # << >>
      /\ Replay(Kept, wal \o late) = Replay(Replay(Kept, wal), late)
    BY <1>1, <1>3, WrittenIsLog, ReplayMore
<1>5. FilesOK'
    BY <1>1, <1>2, <1>4 DEF IInv, StateKept, FilesOK, Short
<1>6. MemoryKept'
    BY <1>1 DEF MemoryKept
<1>7. DiskKept'
    BY <1>1, <1>2, <1>4 DEF IInv, StateKept, DiskKept
<1>8. ReadKept'
    BY <1>1, <1>2 DEF IInv, StateKept, ReadKept
<1>9. LoadKept'
    BY <1>1, <1>4 DEF LoadKept
<1>10. QED BY <1>5, <1>6, <1>7, <1>8, <1>9 DEF StateKept

\* A compaction by the instance: its memory replaces snapshot and log.  It
\* also mends a snapshot that has lost something.
LEMMA CompactionKept ==
    ASSUME IInv, CompactMemory, registered, pending = << >>, UNCHANGED << promised, read >>
    PROVE  /\ IsLog(wal') /\ Fine(Saved')
           /\ DiskKept' /\ ReadKept'
           /\ "missed" \in mishaps' <=> "missed" \in mishaps
<1>1. IsLog(wal) /\ Fine(Memory) /\ Fine(Saved)
    BY DEF IInv, StateKept, FilesOK
<1>2. "missed" \notin mishaps => Memory = promised
    BY ReplayNothing DEF IInv, StateKept, MemoryKept
<1>3. /\ snapshot' = << Memory >> /\ wal' = << >>
      /\ rewrite' = IF rewrite = "truncated" THEN "unlinked" ELSE rewrite
      /\ mishaps' = (mishaps \ {"lost"})
                    \cup (IF rewrite = "read" \/ "missed" \in mishaps THEN {"lost"} ELSE {})
    BY DEF CompactMemory, CompactTo, Note, When
<1>4. Saved' = Memory
    BY <1>3 DEF Saved
<1>5. rewrite' # "truncated"
    BY <1>3 DEF IInv, OpsOK
<1>6. Kept' = Memory
    BY <1>4, <1>5 DEF Kept
<1>7. << >> \in Seq(Lines)
    OBVIOUS
<1>8. IsLog(wal')
    BY <1>3, <1>7 DEF IsLog
<1>9. DiskKept'
    BY <1>2, <1>3, <1>6, ReplayNothing DEF DiskKept
<1>10. ReadKept'
    BY <1>3 DEF ReadKept
<1>11. QED BY <1>1, <1>3, <1>4, <1>8, <1>9, <1>10

\* The compact task, and the one before an instance is forgotten.
LEMMA CompactKept ==
    ASSUME IInv, Compact
    PROVE  StateKept'
<1>1. /\ CompactMemory /\ registered /\ pending = << >>
      /\ UNCHANGED << memoryVars, registered, pending, late, read, promised >>
    BY DEF Compact
<1>2. Memory' = Memory
    BY <1>1 DEF memoryVars, Memory
<1>3. /\ IsLog(wal') /\ Fine(Saved') /\ DiskKept' /\ ReadKept'
      /\ "missed" \in mishaps' <=> "missed" \in mishaps
    BY <1>1, CompactionKept
<1>4. FilesOK'
    BY <1>1, <1>2, <1>3 DEF IInv, StateKept, FilesOK
<1>5. MemoryKept'
    BY <1>1, <1>2, <1>3 DEF IInv, StateKept, MemoryKept
<1>6. LoadKept'
    BY <1>1 DEF IInv, OpsOK, LoadKept, Compact
<1>7. QED BY <1>3, <1>4, <1>5, <1>6 DEF StateKept

\* An instance that is unregistered compacts its memory first, which is safe.
LEMMA UnregisterKept ==
    ASSUME IInv, Unregister
    PROVE  StateKept'
<1>1. /\ pending = << >>
      /\ UNCHANGED << memoryVars, registered, pending, late, read, promised >>
    BY DEF Unregister
<1>2. Memory' = Memory
    BY <1>1 DEF memoryVars, Memory
<1>3. /\ IsLog(wal') /\ Fine(Saved') /\ DiskKept' /\ ReadKept'
      /\ "missed" \in mishaps' <=> "missed" \in mishaps
    <2>1. CASE registered /\ HasEntries(writer)
        BY <1>1, <2>1, CompactionKept DEF Unregister
    <2>2. CASE ~(registered /\ HasEntries(writer))
        <3>1. UNCHANGED << snapshot, wal, rewrite, mishaps >>
            BY <2>2 DEF Unregister, diskVars
        <3>2. Saved' = Saved /\ Kept' = Kept
            BY <1>1, <3>1 DEF Saved, Kept
        <3>3. QED BY <1>1, <3>1, <3>2 DEF IInv, StateKept, FilesOK, DiskKept, ReadKept
    <2>3. QED BY <2>1, <2>2
<1>4. FilesOK'
    BY <1>1, <1>2, <1>3 DEF IInv, StateKept, FilesOK
<1>5. MemoryKept'
    BY <1>1, <1>2, <1>3 DEF IInv, StateKept, MemoryKept
<1>6. LoadKept'
    BY DEF LoadKept, Unregister
<1>7. QED BY <1>3, <1>4, <1>5, <1>6 DEF StateKept

\* The state of an instance that is gone.
LEMMA MemoryGone ==
    ASSUME MemoryBecomes(DefaultState)
    PROVE  Fine(Memory')
<1>1. Memory' = DefaultState
    BY Zenon DEF MemoryBecomes, Memory, DefaultState
<1>2. QED BY <1>1, FineDefault

\* A shutdown compacts every instance, and ends the agent.
LEMMA ShutdownKept ==
    ASSUME IInv, Shutdown
    PROVE  StateKept'
<1>1. /\ registered /\ pending = << >> /\ ~registered' /\ op = "idle" /\ op' = "idle"
      /\ MemoryBecomes(DefaultState)
      /\ UNCHANGED << pending, late, rewrite, read, promised >>
    BY DEF Shutdown, opVars
<1>2. Fine(Memory')
    BY <1>1, MemoryGone
<1>3. rewrite = "none"
    BY <1>1 DEF IInv, OpsOK
<1>4. IsLog(wal') /\ Fine(Saved') /\ DiskKept'
  <2>1. CASE HasEntries(writer)
    <3>1. /\ snapshot' = << Memory >> /\ wal' = << >>
          /\ "lost" \notin mishaps' => "missed" \notin mishaps
        BY <2>1 DEF Shutdown, Note, When
    <3>2. "missed" \notin mishaps => Memory = promised
        BY <1>1, ReplayNothing DEF IInv, StateKept, MemoryKept
    <3>3. Saved' = Memory /\ Kept' = Memory
        BY <1>1, <1>3, <3>1 DEF Saved, Kept
    <3>4. << >> \in Seq(Lines) /\ Fine(Memory)
        BY DEF IInv, StateKept, FilesOK
    <3>5. QED BY <1>1, <3>1, <3>2, <3>3, <3>4, ReplayNothing DEF DiskKept, IsLog
  <2>2. CASE ~HasEntries(writer)
    <3>1. UNCHANGED << snapshot, wal, mishaps >>
        BY <2>2 DEF Shutdown
    <3>2. Saved' = Saved /\ Kept' = Kept
        BY <1>1, <3>1 DEF Saved, Kept
    <3>3. QED BY <1>1, <3>1, <3>2 DEF IInv, StateKept, FilesOK, DiskKept
  <2>3. QED BY <2>1, <2>2
<1>5. FilesOK'
    BY <1>1, <1>2, <1>4 DEF IInv, StateKept, FilesOK
<1>6. MemoryKept' /\ ReadKept' /\ LoadKept'
    BY <1>1, <1>3 DEF MemoryKept, ReadKept, LoadKept
<1>7. QED BY <1>4, <1>5, <1>6 DEF StateKept

\* with_state empties the file: what it has read is what will be there.
LEMMA TruncateKept ==
    ASSUME IInv, Truncate
    PROVE  StateKept'
<1>1. /\ rewrite = "read" /\ rewrite' = "truncated" /\ snapshot' = << >>
      /\ UNCHANGED << memoryVars, wal, registered, pending, late, read, promised, mishaps >>
    BY DEF Truncate, historyVars
<1>2. Memory' = Memory /\ Saved' = DefaultState /\ Kept' = read /\ Kept = Saved
    BY <1>1 DEF memoryVars, Memory, Saved, Kept
<1>3. FilesOK'
    BY <1>1, <1>2, FineDefault DEF IInv, StateKept, FilesOK
<1>4. MemoryKept'
    BY <1>1, <1>2 DEF IInv, StateKept, MemoryKept
<1>5. DiskKept'
    BY <1>1, <1>2 DEF IInv, StateKept, DiskKept, ReadKept
<1>6. ReadKept' /\ LoadKept'
    BY <1>1 DEF ReadKept, LoadKept, Truncate, IInv, OpsOK
<1>7. QED BY <1>3, <1>4, <1>5, <1>6 DEF StateKept

\* It writes the file, or one that has been renamed over.
LEMMA WriteBackKept ==
    ASSUME IInv, WriteBack
    PROVE  StateKept'
<1>1. /\ rewrite \in {"truncated", "unlinked"} /\ rewrite' = "none"
      /\ snapshot' = IF rewrite = "truncated" THEN << read >> ELSE snapshot
      /\ read' = DefaultState
      /\ UNCHANGED << memoryVars, wal, registered, pending, late, promised, mishaps >>
    BY DEF WriteBack, historyVars
<1>2. Memory' = Memory
    BY <1>1 DEF memoryVars, Memory
<1>3. Saved' = Kept /\ Kept' = Kept
    BY <1>1 DEF Saved, Kept
<1>4. FilesOK'
    BY <1>1, <1>2, <1>3, FineDefault DEF IInv, StateKept, FilesOK, Kept
<1>5. MemoryKept'
    BY <1>1, <1>2 DEF IInv, StateKept, MemoryKept
<1>6. DiskKept'
    BY <1>1, <1>3 DEF IInv, StateKept, DiskKept
<1>7. ReadKept' /\ LoadKept'
    BY <1>1 DEF ReadKept, LoadKept, WriteBack, After, IInv, OpsOK
<1>8. QED BY <1>4, <1>5, <1>6, <1>7 DEF StateKept

\* A registration reads what the files have.
LEMMA LoadWithWalKept ==
    ASSUME IInv, LoadWithWal
    PROVE  StateKept'
<1>1. /\ read' = Replay(Saved, wal) /\ IdsLeft(read')
      /\ UNCHANGED << memoryVars, snapshot, wal, registered, pending, late, rewrite, promised,
                      mishaps >>
      /\ rewrite = "none"
    BY DEF LoadWithWal, diskVars, historyVars, IInv, OpsOK
<1>2. Memory' = Memory /\ Saved' = Saved /\ Kept' = Kept
    BY <1>1 DEF memoryVars, Memory, Saved, Kept
<1>3. Fine(read')
    BY <1>1, GoodReplay DEF IInv, StateKept, FilesOK, Fine
<1>4. FilesOK'
    BY <1>1, <1>2, <1>3 DEF IInv, StateKept, FilesOK
<1>5. MemoryKept' /\ DiskKept' /\ ReadKept'
    BY <1>1, <1>2 DEF IInv, StateKept, MemoryKept, DiskKept, ReadKept
<1>6. LoadKept'
    BY <1>1, <1>2, ReplayNothing DEF LoadKept
<1>7. QED BY <1>4, <1>5, <1>6 DEF StateKept

\* It takes what it has read, and compacts it.
LEMMA RegisterKept ==
    ASSUME IInv, Register
    PROVE  /\ StateKept'
           /\ Memory' = read
<1>1. /\ MemoryBecomes(read) /\ promised' = read
      /\ rewrite = "none" /\ pending = << >> /\ op = "open" /\ op' = "idle"
      /\ read' = DefaultState
      /\ UNCHANGED << pending, late >>
    BY DEF Register, IInv, OpsOK
<1>2. IsLog(wal) /\ Fine(Saved) /\ Fine(read)
    BY DEF IInv, StateKept, FilesOK
<1>3. PICK d, t, q, f : read = State(d, t, q, f)
    BY <1>2 DEF Fine, Good
<1>4. Memory' = read
    BY <1>1, <1>3 DEF MemoryBecomes, Memory, State
<1>5. /\ IsLog(wal') /\ Fine(Saved') /\ rewrite' = "none" /\ Replay(Saved', wal') = read
    <2>1. CASE wal = << >>
        <3>1. UNCHANGED << snapshot, wal, rewrite >>
            BY <2>1 DEF Register, diskVars
        <3>2. Saved' = Saved
            BY <3>1 DEF Saved
        <3>3. read = Saved
            BY <1>1, <2>1 DEF IInv, StateKept, LoadKept
        <3>4. QED BY <1>1, <1>2, <2>1, <3>1, <3>2, <3>3, ReplayNothing
    <2>2. CASE wal # << >>
        <3>1. snapshot' = << read >> /\ wal' = << >> /\ rewrite' = "none"
            BY <1>1, <2>2 DEF Register, CompactTo
        <3>2. Saved' = read
            BY <3>1 DEF Saved
        <3>3. << >> \in Seq(Lines)
            OBVIOUS
        <3>4. QED BY <1>2, <3>1, <3>2, <3>3, ReplayNothing DEF IsLog
    <2>3. QED BY <2>1, <2>2
<1>6. FilesOK'
    BY <1>1, <1>2, <1>4, <1>5, FineDefault DEF IInv, StateKept, FilesOK
<1>7. MemoryKept'
    BY <1>1, <1>4, ReplayNothing DEF MemoryKept
<1>8. Kept' = Saved'
    BY <1>5 DEF Kept
<1>9. DiskKept'
    BY <1>1, <1>5, <1>8 DEF DiskKept
<1>10. ReadKept' /\ LoadKept'
    BY <1>1, <1>5 DEF ReadKept, LoadKept
<1>11. QED BY <1>4, <1>6, <1>7, <1>9, <1>10 DEF StateKept

\* An instance is forgotten with a request under way, which keeps its entry.
LEMMA ForgetKept ==
    ASSUME IInv, Forget
    PROVE  StateKept'
<1>1. /\ late' = pending /\ pending' = << >> /\ ~registered'
      /\ MemoryBecomes(DefaultState)
      /\ UNCHANGED << snapshot, wal, rewrite, read, promised, mishaps >>
    BY DEF Forget, diskVars, historyVars
<1>2. Saved' = Saved /\ Kept' = Kept /\ Fine(Memory')
    BY <1>1, MemoryGone DEF Saved, Kept
<1>3. FilesOK'
    BY <1>1, <1>2 DEF IInv, StateKept, FilesOK, Short
<1>4. MemoryKept'
    BY <1>1 DEF MemoryKept
<1>5. DiskKept'
    BY <1>1, <1>2 DEF IInv, StateKept, DiskKept
<1>6. ReadKept'
    BY <1>1, <1>2 DEF IInv, StateKept, ReadKept
<1>7. LoadKept'
    BY DEF LoadKept, Forget
<1>8. QED BY <1>3, <1>4, <1>5, <1>6, <1>7 DEF StateKept

\* The agent goes at any point: only a with_state between its two writes
\* takes something along.
LEMMA CrashKept ==
    ASSUME IInv, Crash \/ Reboot
    PROVE  StateKept'
<1>1. /\ pending' = << >> /\ late' = << >> /\ ~registered'
      /\ rewrite' = "none" /\ read' = DefaultState
      /\ MemoryBecomes(DefaultState)
      /\ UNCHANGED << snapshot, wal, promised >>
      /\ "lost" \notin mishaps' => "lost" \notin mishaps /\ rewrite # "truncated"
    BY DEF Crash, Reboot, AgentGone, diskVars, Note, When
<1>2. Saved' = Saved /\ Kept' = Saved /\ Fine(Memory')
    BY <1>1, MemoryGone DEF Saved, Kept
<1>3. FilesOK'
    BY <1>1, <1>2, FineDefault DEF IInv, StateKept, FilesOK, Short
<1>4. MemoryKept'
    BY <1>1 DEF MemoryKept
<1>5. DiskKept'
    BY <1>1, <1>2 DEF IInv, StateKept, DiskKept, Kept
<1>6. ReadKept' /\ LoadKept'
    BY <1>1 DEF ReadKept, LoadKept, Crash, Reboot, AgentGone
<1>7. QED BY <1>3, <1>4, <1>5, <1>6 DEF StateKept

\* The invariant holds in a fresh installation.
LEMMA InitInv == Init => IInv
<1>1. SUFFICES ASSUME Init PROVE IInv
    OBVIOUS
<1>2. OpsOK
    BY <1>1 DEF Init, OpsOK, Places
<1>3. /\ directory = NoGroups /\ table = EmptyTable /\ qos_rules = << >>
      /\ flags = [conntrack |-> TRUE, monitoring |-> TRUE]
    BY <1>1, Zenon DEF Init, Handlers!Init, NoGroups, Handlers!NoGroups, EmptyTable,
                       Handlers!EmptyTable
<1>4. Memory = DefaultState
    BY <1>3, Zenon DEF Memory, DefaultState
<1>5. Saved = DefaultState /\ Kept = DefaultState
    BY <1>1 DEF Init, Saved, Kept
<1>6. wal \in Seq(Lines) /\ wal = << >>
  <2>1. << >> \in Seq(Lines)
      OBVIOUS
  <2>2. QED BY <1>1, <2>1 DEF Init
<1>7. FilesOK
    BY <1>1, <1>4, <1>5, <1>6, FineDefault DEF Init, FilesOK, IsLog, Short
<1>8. MemoryKept /\ DiskKept /\ ReadKept /\ LoadKept
    BY <1>1, <1>5, <1>6, ReplayNothing DEF Init, MemoryKept, DiskKept, ReadKept, LoadKept
<1>9. QED BY <1>2, <1>7, <1>8 DEF IInv, StateKept

\* And every step of the agent, its crash and a reboot keep it.
LEMMA StepInv == IInv /\ [Next]_vars => IInv'
<1>1. SUFFICES ASSUME IInv, [Next]_vars PROVE StateKept'
    BY OpsStep DEF IInv
<1>2. CASE UNCHANGED vars
    <2>1. Untouched /\ UNCHANGED << rewrite, read, mishaps, op >>
        BY <1>2 DEF vars, opVars, historyVars, Untouched
    <2>2. QED BY <1>1, <2>1, UntouchedKept DEF SameLosses
<1>3. CASE Next
    BY <1>1, <1>3, LifeCycleKept, HandleKept, AcknowledgeKept, AcknowledgeLateKept, CompactKept,
       UnregisterKept, ShutdownKept, TruncateKept, WriteBackKept, LoadWithWalKept,
       RegisterKept, ForgetKept, CrashKept DEF Next
<1>4. QED BY <1>1, <1>2, <1>3

\* What is in memory and in the files is what acknowledged requests have led
\* to, but for the mishaps that are recorded.
THEOREM Invariant == Spec => []IInv
<1>1. QED BY InitInv, StepInv, PTL DEF Spec

\* Only a registration makes an instance.
LEMMA OnlyRegister ==
    ASSUME IInv, [Next]_vars, ~registered, registered'
    PROVE  Register
BY DEF Next, Handle, Acknowledge, AcknowledgeLate, Compact, Start, Truncate, WriteBack,
       AttachFound, AttachNew, AttachBeside, ReplayState, LoadWithWal, Stop, RemoveLink,
       RemovePins, Unregister, Forget, CleanUp, Shutdown, Crash, Reboot, AgentGone, vars

\* Wherever stops, crashes and reboots cut the work of the agent, a start
\* brings back exactly what was acknowledged, unless a with_state was cut
\* after its truncation or crossed a compaction, or a handler that outlived
\* its instance appended its entry when the next one had read the log: then
\* that one compacts without the entry, or each writes over the other's
\* lines.  (The log may be in any state the two writers can bring it to.)
THEOREM AcknowledgedSurvives == Spec => OnlyMishapsForget
<1>1. ASSUME IInv, [Next]_vars, "lost" \notin mishaps
      PROVE  Restores
    <2>1. SUFFICES ASSUME registered', ~registered
                   PROVE  Memory' = promised
        BY DEF Restores
    <2>2. Register
        BY <1>1, <2>1, OnlyRegister
    <2>3. Memory' = Replay(Saved, wal)
        BY <1>1, <2>2, RegisterKept DEF IInv, StateKept, LoadKept, Register
    <2>4. rewrite = "none"
        BY <1>1, <2>2 DEF IInv, OpsOK, Register
    <2>5. Replay(Saved, wal) = promised
        BY <1>1, <2>4 DEF IInv, StateKept, DiskKept, Kept
    <2>6. QED BY <2>3, <2>5
<1>2. IInv /\ [Next]_vars => ["lost" \notin mishaps => Restores]_vars
    BY <1>1
<1>3. QED BY <1>2, Invariant, PTL DEF Spec, OnlyMishapsForget

(***************************************************************************)
(* Types.                                                                  *)
(***************************************************************************)
\* A log, with the entry that is still to come, has room for it.
BoundsOK == /\ Len(wal) + Len(pending) <= MaxLog
            /\ snapshot = << >> \/ \E s : snapshot = << s >>

\* The length of a log and of an entry or none.
LEMMA Lengths ==
    /\ \A log : IsLog(log) => Len(log) \in Nat
    /\ \A q : Short(q) => Len(q) \in {0, 1}
    /\ Len(<< >>) = 0
BY DEF IsLog, Short

\* A compaction makes room.
LEMMA CompactionBounds ==
    ASSUME BoundsOK, NEW s, CompactTo(s), UNCHANGED pending, pending = << >>
    PROVE  BoundsOK'
<1>1. snapshot' = << s >> /\ wal' = << >> /\ pending' = << >>
    BY DEF CompactTo
<1>2. QED BY <1>1, Lengths, BoundsAssumption DEF BoundsOK

\* No step makes the log longer than its bound.
LEMMA BoundsStep ==
    ASSUME IInv, BoundsOK, [Next]_vars
    PROVE  BoundsOK'
<1>1. IsLog(wal) /\ Short(pending) /\ Short(late) /\ (~registered => pending = << >>)
    BY DEF IInv, OpsOK, StateKept, FilesOK
<1>2. Len(wal) \in Nat /\ Len(pending) \in {0, 1} /\ Len(late) \in {0, 1}
    BY <1>1, Lengths
<1>3. CASE Handle
  <2>1. /\ \E e : pending' = << e >>
        /\ Len(wal) < MaxLog /\ UNCHANGED << snapshot, wal >>
      BY <1>3, HandleEffect DEF Handle, diskVars, Effect, IInv, StateKept, FilesOK, Fine
  <2>2. Len(pending') = 1
      BY <2>1
  <2>3. QED BY <1>2, <2>1, <2>2, BoundsAssumption DEF BoundsOK
<1>4. CASE Acknowledge
  <2>1. /\ wal' \in WrittenBy(writer, pending) /\ pending # << >>
        /\ pending' = << >> /\ UNCHANGED snapshot
      BY <1>4 DEF Acknowledge
  <2>2. Len(wal') <= Len(wal) + 1 /\ Len(wal') \in Nat /\ Len(pending') = 0
      BY <1>1, <2>1, WrittenIsLog, Lengths
  <2>3. Len(pending) = 1
      BY <1>1, <2>1 DEF Short
  <2>4. QED BY <1>2, <2>1, <2>2, <2>3, BoundsAssumption DEF BoundsOK
<1>5. CASE AcknowledgeLate
  <2>1. /\ wal' \in WrittenBy(late_writer, late) /\ late # << >>
        /\ Len(wal \o pending) < MaxLog /\ UNCHANGED << snapshot, pending >>
      BY <1>5 DEF AcknowledgeLate
  <2>2. /\ Len(wal') <= Len(wal) + 1 /\ Len(wal') \in Nat
        /\ Len(wal \o pending) = Len(wal) + Len(pending)
      BY <1>1, <2>1, WrittenIsLog, ReplayMore, Lengths
  <2>3. QED BY <1>2, <2>1, <2>2, BoundsAssumption, SMTT(40) DEF BoundsOK
<1>6. CASE Compact
    BY <1>6, CompactionBounds DEF Compact, CompactMemory
<1>7. CASE Register
  <2>1. CASE wal = << >>
      BY <1>7, <2>1 DEF Register, diskVars, BoundsOK
  <2>2. CASE wal # << >>
      BY <1>1, <1>7, <2>2, CompactionBounds DEF Register, IInv, OpsOK
  <2>3. QED BY <2>1, <2>2
<1>8. CASE Unregister
  <2>1. CASE registered /\ HasEntries(writer)
      BY <1>8, <2>1, CompactionBounds DEF Unregister, CompactMemory
  <2>2. CASE ~(registered /\ HasEntries(writer))
      BY <1>8, <2>2 DEF Unregister, diskVars, BoundsOK
  <2>3. QED BY <2>1, <2>2
<1>12. CASE Shutdown
  <2>1. CASE HasEntries(writer)
    <3>1. snapshot' = << Memory >> /\ wal' = << >> /\ pending' = << >>
        BY <1>12, <2>1 DEF Shutdown
    <3>2. QED BY <3>1, Lengths, BoundsAssumption DEF BoundsOK
  <2>2. CASE ~HasEntries(writer)
      BY <1>12, <2>2 DEF Shutdown, BoundsOK
  <2>3. QED BY <2>1, <2>2
<1>9. CASE Truncate \/ WriteBack
    BY <1>9 DEF Truncate, WriteBack, BoundsOK
<1>10. CASE Forget \/ Crash \/ Reboot
  <2>1. pending' = << >> /\ UNCHANGED << snapshot, wal >>
      BY <1>10 DEF Forget, Crash, Reboot, AgentGone, diskVars
  <2>2. Len(pending') = 0
      BY <2>1, Lengths
  <2>3. QED BY <1>2, <2>1, <2>2, BoundsAssumption DEF BoundsOK
<1>11. CASE \/ Start \/ AttachFound \/ AttachNew \/ AttachBeside \/ ReplayState \/ LoadWithWal
            \/ Stop \/ RemoveLink \/ RemovePins \/ CleanUp \/ UNCHANGED vars
  <2>1. UNCHANGED << snapshot, wal, pending >>
      BY <1>11 DEF Start, AttachFound, AttachNew, AttachBeside, ReplayState, LoadWithWal, Stop,
                   RemoveLink, RemovePins, CleanUp, vars, diskVars
  <2>2. QED BY <2>1 DEF BoundsOK
<1>13. QED BY <1>3, <1>4, <1>5, <1>6, <1>7, <1>8, <1>9, <1>10, <1>11, <1>12 DEF Next

\* An empty map is typed.
LEMMA EmptiedTyped ==
    ASSUME MapsEmptied
    PROVE  HP!KernelTyped'
BY HandlerAssumptions, HP!EmptyMap DEF MapsEmptied, HP!KernelTyped, HP!Pools

(***************************************************************************)
(* What it means that the maps enforce a state, whatever the memory has.   *)
(***************************************************************************)
EnforcedBy(s, policies, pool, src, dst, limits, config) ==
    /\ policies = PoliciesOf(s.table.rules)
    /\ HP!SetsWritten(pool, s.table.port_sets)
    /\ src = dst
    /\ \A c \in DOMAIN src : \E n \in DOMAIN s.directory.groups :
           s.directory.groups[n].id = src[c] /\ c \in s.directory.groups[n].cidrs
    /\ limits = s.qos_rules
    /\ 0 \in DOMAIN config => (config[0].qos <=> DOMAIN limits # {})
    /\ DOMAIN limits # {} => 0 \in DOMAIN config
    /\ LET seen == IF 0 \in DOMAIN config THEN config[0]
                   ELSE [conntrack |-> TRUE, monitoring |-> TRUE]
       IN  seen.conntrack = s.flags.conntrack /\ seen.monitoring = s.flags.monitoring

Enforces(s) == EnforcedBy(s, POLICY_TABLE, PORT_BITMAP_POOL, SRC_TRIE, DST_TRIE, QOS_CONFIG,
                          FIREWALL_CONFIG)

\* A good state, in its fields.
LEMMA FineFields ==
    ASSUME NEW s, Fine(s)
    PROVE  /\ HP!GoodDirectory(s.directory)
           /\ s.directory.next_group_id <= MaxGroupId + 1
           /\ HP!GoodTable(s.table)
           /\ s.qos_rules \in HP!PartialMaps(HP!QosKeys, Rates)
           /\ s.flags \in HP!Switches
<1>1. PICK d, t, q, f : s = State(d, t, q, f) /\ GoodFields(d, t, q, f)
    BY DEF Fine, Good
<1>2. s.directory = d /\ s.table = t /\ s.qos_rules = q /\ s.flags = f
    BY <1>1 DEF State
<1>3. QED BY <1>1, <1>2 DEF GoodFields, Fine, IdsLeft

\* The tries replay_state fills name owners, whichever owner a CIDR with
\* several gets.
LEMMA TriesReplayed ==
    ASSUME NEW s, Fine(s), NEW owner \in Owners(s.directory.groups)
    PROVE  LET trie == TrieOf(s.directory.groups, owner)
           IN  /\ trie \in HP!PartialMaps(HP!Cidrs, 1 .. MaxGroupId)
               /\ \A c \in DOMAIN trie : \E n \in DOMAIN s.directory.groups :
                      s.directory.groups[n].id = trie[c] /\ c \in s.directory.groups[n].cidrs
<1> DEFINE groups == s.directory.groups
           trie   == TrieOf(groups, owner)
<1>1. /\ s.directory \in HP!Directories
      /\ \A n \in DOMAIN groups : HP!GoodGroup(groups[n], s.directory.next_group_id)
      /\ s.directory.next_group_id \in Nat
      /\ s.directory.next_group_id <= MaxGroupId + 1
    BY FineFields DEF HP!GoodDirectory, HP!Directories
<1>2. /\ DOMAIN owner = UNION {groups[n].cidrs : n \in DOMAIN groups}
      /\ \A c \in DOMAIN owner : owner[c] \in DOMAIN groups /\ c \in groups[owner[c]].cidrs
    BY DEF Owners
<1>3. ASSUME NEW n \in DOMAIN groups
      PROVE  groups[n].id \in 1 .. MaxGroupId /\ groups[n].cidrs \subseteq HP!Cidrs
    BY <1>1, BoundsAssumption DEF HP!GoodGroup, HP!Groups
<1>4. DOMAIN trie = DOMAIN owner /\ \A c \in DOMAIN owner : trie[c] = groups[owner[c]].id
    BY DEF TrieOf
<1>5. trie \in [DOMAIN owner -> 1 .. MaxGroupId]
    BY <1>2, <1>3 DEF TrieOf
<1>6. DOMAIN owner \in SUBSET HP!Cidrs
    BY <1>2, <1>3
<1>7. trie \in HP!PartialMaps(HP!Cidrs, 1 .. MaxGroupId)
    BY <1>5, <1>6 DEF HP!PartialMaps
<1>8. QED BY <1>2, <1>4, <1>7

\* The policies of a table, in the handlers' words.
LEMMA SamePolicies ==
    \A rules : PoliciesOf(rules) = [k \in DOMAIN rules |-> HP!PolicyValue(rules[k])]
BY Zenon DEF PoliciesOf, Handlers!PolicyValue, HP!PolicyValue, Handlers!AllPorts, HP!AllPorts,
             Handlers!NoIdx, HP!NoIdx

\* So do the policies and their ports.
LEMMA PoliciesReplayed ==
    ASSUME NEW t, HP!GoodTable(t), NEW first \in FirstRules(t.rules)
    PROVE  /\ PoliciesOf(t.rules) \in HP!PartialMaps(HP!RuleKeys, HP!PolicyValues)
           /\ PoolOf(t.rules, first) \in HP!Pools
           /\ HP!SetsWritten(PoolOf(t.rules, first), t.port_sets)
<1>1. PoliciesOf(t.rules) = [k \in DOMAIN t.rules |-> HP!PolicyValue(t.rules[k])]
    BY SamePolicies
<1>2. PoliciesOf(t.rules) \in HP!PartialMaps(HP!RuleKeys, HP!PolicyValues)
    BY <1>1, HandlerAssumptions, HP!GoodPolicies
<1>3. /\ DOMAIN first = {t.rules[k].bitmap_idx : k \in DOMAIN t.rules} \ {HP!NoIdx}
      /\ \A i \in DOMAIN first : first[i] \in DOMAIN t.rules /\ t.rules[first[i]].bitmap_idx = i
    BY DEF FirstRules, NoIdx, HP!NoIdx
<1>4. \A p : HP!PortsOf(p) = PortsOf(p)
    BY Zenon DEF HP!PortsOf, PortsOf
<1>5. \A p : HP!Meaning(p) = Meaning(p)
  <2>1. \A part : HP!PartInserts(part) = PartInserts(part)
      BY Zenon DEF HP!PartInserts, PartInserts, HP!BpfAction, BpfAction
  <2>2. \A p : HP!Inserts(p) = Inserts(p)
      BY <2>1, Zenon DEF HP!Inserts, Inserts
  <2>3. \A f, x, v : HP!Insert(f, x, v) = Insert(f, x, v)
      BY Zenon DEF HP!Insert, Insert
  <2>4. ASSUME NEW q, NEW idx, NEW p, NEW n
        PROVE  HP!Written(q, idx, p, n) = Written(q, idx, p, n)
      BY <2>2, <2>3, Zenon DEF HP!Written, Written
  <2>5. \A q, idx, p : HP!WritePortSet(q, idx, p) = WritePortSet(q, idx, p)
      BY <2>2, <2>4, Zenon DEF HP!WritePortSet, WritePortSet
  <2>6. QED BY <1>4, <2>5, Zenon DEF HP!Meaning, Meaning
<1>6. /\ HP!ReplayedPool(first, t.rules) \in HP!Pools
      /\ HP!SetsWritten(HP!ReplayedPool(first, t.rules), t.port_sets)
    BY <1>3, HandlerAssumptions, HP!PoolReplayed DEF HP!OfEachIdx
<1>7. PoolOf(t.rules, first) = HP!ReplayedPool(first, t.rules)
    BY <1>4, <1>5, Zenon DEF PoolOf, HP!ReplayedPool
<1>8. QED BY <1>2, <1>6, <1>7

\* So do the QoS rules and the switches.
LEMMA ConfigReplayed ==
    ASSUME NEW s, Fine(s)
    PROVE  /\ ConfigOf(s) \in HP!PartialMaps({0}, HP!Config)
           /\ DOMAIN ConfigOf(s) = {0}
           /\ ConfigOf(s)[0].qos <=> DOMAIN s.qos_rules # {}
           /\ ConfigOf(s)[0].conntrack = s.flags.conntrack
           /\ ConfigOf(s)[0].monitoring = s.flags.monitoring
<1> DEFINE v == [conntrack  |-> s.flags.conntrack,
                 monitoring |-> s.flags.monitoring,
                 num_cpus   |-> NumCpus,
                 qos        |-> DOMAIN s.qos_rules # {}]
<1>1. v.qos <=> DOMAIN s.qos_rules # {}
    BY Zenon
<1>2. v.qos \in BOOLEAN /\ s.flags.conntrack \in BOOLEAN /\ s.flags.monitoring \in BOOLEAN
    BY FineFields DEF HP!Switches
<1>3. v \in HP!Config
    BY <1>2 DEF HP!Config
<1>4. v.conntrack = s.flags.conntrack /\ v.monitoring = s.flags.monitoring
    OBVIOUS
<1>5. ConfigOf(s) = Insert(<< >>, 0, v)
    BY Zenon DEF ConfigOf
<1> HIDE DEF v
<1>6. Insert(<< >>, 0, v) = HP!Insert(<< >>, 0, v)
    BY Zenon DEF Insert, HP!Insert
<1>7. HP!Insert(<< >>, 0, v) \in HP!PartialMaps({0}, HP!Config)
    BY <1>3, HandlerAssumptions, HP!EmptyMap, HP!InsertType
<1>8. DOMAIN Insert(<< >>, 0, v) = {0} /\ Insert(<< >>, 0, v)[0] = v
  <2>1. DOMAIN << >> = {}
      OBVIOUS
  <2>2. QED BY <2>1 DEF Insert
<1>9. QED BY <1>1, <1>4, <1>5, <1>6, <1>7, <1>8

\* replay_state fills empty maps with typed values that enforce the snapshot.
LEMMA SnapshotReplayed ==
    ASSUME NEW s, Fine(s), NEW owner \in Owners(s.directory.groups),
           NEW first \in FirstRules(s.table.rules)
    PROVE  EnforcedBy(s, PoliciesOf(s.table.rules), PoolOf(s.table.rules, first),
                      TrieOf(s.directory.groups, owner), TrieOf(s.directory.groups, owner),
                      s.qos_rules, ConfigOf(s))
BY FineFields, TriesReplayed, PoliciesReplayed, ConfigReplayed DEF EnforcedBy

\* Every value in the maps keeps its type.
LEMMA KernelStep ==
    ASSUME IInv, HP!KernelTyped, [Next]_vars
    PROVE  HP!KernelTyped'
<1>1. Fine(Memory) /\ Fine(Saved)
    BY DEF IInv, StateKept, FilesOK
<1>2. CASE Handle
    BY <1>1, <1>2, HandleIsStep, MemoryTypes, HandlerAssumptions, HP!StepTyped DEF Fine
<1>3. CASE ReplayState
  <2>1. CASE UNCHANGED kernelVars
      BY <2>1 DEF kernelVars, HP!KernelTyped
  <2>2. CASE ~UNCHANGED kernelVars
    <3>1. PICK owner \in Owners(Saved.directory.groups) :
              /\ SRC_TRIE' = TrieOf(Saved.directory.groups, owner)
              /\ DST_TRIE' = TrieOf(Saved.directory.groups, owner)
        BY <1>3, <2>2 DEF ReplayState
    <3>2. PICK first \in FirstRules(Saved.table.rules) :
              PORT_BITMAP_POOL' = PoolOf(Saved.table.rules, first)
        BY <1>3, <2>2 DEF ReplayState
    <3>3. /\ POLICY_TABLE' = PoliciesOf(Saved.table.rules)
          /\ QOS_CONFIG' = Saved.qos_rules
          /\ FIREWALL_CONFIG' = ConfigOf(Saved)
        BY <1>3, <2>2 DEF ReplayState
    <3>4. /\ SRC_TRIE' \in HP!PartialMaps(HP!Cidrs, 1 .. MaxGroupId)
          /\ DST_TRIE' \in HP!PartialMaps(HP!Cidrs, 1 .. MaxGroupId)
        BY <1>1, <3>1, TriesReplayed
    <3>5. /\ POLICY_TABLE' \in HP!PartialMaps(HP!RuleKeys, HP!PolicyValues)
          /\ PORT_BITMAP_POOL' \in HP!Pools
        BY <1>1, <3>2, <3>3, FineFields, PoliciesReplayed
    <3>6. /\ QOS_CONFIG' \in HP!PartialMaps(HP!QosKeys, Rates)
          /\ FIREWALL_CONFIG' \in HP!PartialMaps({0}, HP!Config)
        BY <1>1, <3>3, FineFields, ConfigReplayed
    <3>7. QED BY <3>4, <3>5, <3>6 DEF HP!KernelTyped
  <2>3. QED BY <2>1, <2>2
<1>4. CASE RemovePins \/ CleanUp \/ Reboot
    BY <1>4, EmptiedTyped DEF RemovePins, CleanUp, Reboot
<1>5. CASE UNCHANGED kernelVars
    BY <1>5 DEF kernelVars, HP!KernelTyped
<1>6. CASE UNCHANGED vars
    BY <1>5, <1>6 DEF vars
<1>7. QED
    BY <1>2, <1>3, <1>4, <1>5, <1>6
    DEF Next, Acknowledge, AcknowledgeLate, Compact, Start, Truncate, WriteBack, AttachFound,
        AttachNew, AttachBeside, LoadWithWal, Register, Stop, RemoveLink, Unregister, Forget,
        Shutdown, Crash

\* Bounds and types hold in a fresh installation.
LEMMA InitTyped == Init => BoundsOK /\ HP!KernelTyped
<1>1. SUFFICES ASSUME Init PROVE BoundsOK /\ HP!KernelTyped
    OBVIOUS
<1>2. BoundsOK
    BY <1>1, Lengths, BoundsAssumption DEF Init, BoundsOK
<1>3. HP!KernelTyped
    BY <1>1, HandlerAssumptions, HP!EmptyMap DEF Init, Handlers!Init, HP!KernelTyped, HP!Pools
<1>4. QED BY <1>2, <1>3

TInv == IInv /\ BoundsOK /\ HP!KernelTyped

\* And always.
LEMMA AlwaysTyped == Spec => []TInv
<1>1. Init => TInv
    BY InitInv, InitTyped DEF TInv
<1>2. TInv /\ [Next]_vars => TInv'
    BY StepInv, BoundsStep, KernelStep DEF TInv
<1>3. QED BY <1>1, <1>2, PTL DEF Spec

\* Memory, maps, files and the life cycle keep their types and bounds,
\* whatever a start finds: a replay of the log neither hands out an id twice
\* nor leaves a table, or a policy in the kernel, the handlers could not have.
THEOREM TypeCorrect == Spec => []TypeOK
<1>1. ASSUME TInv PROVE TypeOK
  <2>1. IInv /\ BoundsOK /\ HP!KernelTyped
      BY <1>1 DEF TInv
  <2>2. HP!MemoryTyped
      BY <2>1, MemoryTypes DEF IInv, StateKept, FilesOK, Fine
  <2>3. Handlers!TypeOK
      BY <2>1, <2>2, HandlerAssumptions, HP!TypesOK, HandlersProperties
  <2>4. Len(snapshot) <= 1 /\ Len(pending) <= 1 /\ Len(late) <= 1 /\ Len(wal) <= MaxLog
    <3>1. Len(wal) \in Nat /\ Len(pending) \in {0, 1} /\ Len(late) \in {0, 1}
        BY <2>1, Lengths DEF IInv, StateKept, FilesOK
    <3>2. Len(snapshot) \in {0, 1}
      <4>1. CASE snapshot = << >>
          BY <4>1
      <4>2. ASSUME NEW s, snapshot = << s >>
            PROVE  Len(snapshot) = 1
          BY <4>2
      <4>3. QED BY <2>1, <4>1, <4>2 DEF BoundsOK
    <3>3. Len(wal) + Len(pending) <= MaxLog
        BY <2>1 DEF BoundsOK
    <3>4. \A n \in Nat, m \in {0, 1} : n + m <= MaxLog => n <= MaxLog /\ m <= 1
        BY BoundsAssumption
    <3>5. \A m \in {0, 1} : m <= 1
        OBVIOUS
    <3>6. QED BY <3>1, <3>2, <3>3, <3>4, <3>5, Zenon
  <2>5. DOMAIN After = {"limit", "iface", "clear"}
      BY DEF After
  <2>6. QED BY <2>1, <2>3, <2>4, <2>5 DEF IInv, OpsOK, Places, TypeOK
<1>2. TInv => TypeOK
    BY <1>1
<1>3. QED BY <1>2, AlwaysTyped, PTL

(***************************************************************************)
(* The maps of a linked program, from start to start.                      *)
(***************************************************************************)
\* A linked program with its own maps, and nothing noted against them.
Clean == pinned = "all" /\ mishaps \cap {"torn", "behind"} = {}

\* What the maps enforce at each point of the life cycle: the memory of a
\* running instance; what is about to be registered; what a tap that is not
\* running was acknowledged; and the same with the entry it still has to come.
RunningEnforced == Clean /\ registered => Enforces(Memory)
FoundEnforced == Clean /\ ~registered /\ op = "register" => Enforces(Replay(Saved, wal))
LoadedEnforced == Clean /\ ~registered /\ op = "open" => Enforces(read)
LeftEnforced ==
    /\ Clean /\ mishaps \cap {"lost", "missed"} = {}
    /\ ~standalone /\ ~registered /\ op \in {"idle", "limit", "attach"}
    => Enforces(promised)
StoppedEnforced ==
    /\ Clean /\ "missed" \notin mishaps
    /\ ~standalone /\ op = "unlink"
    => Enforces(Replay(promised, late))

\* New pins are noted, and empty until the replay.
NewPins == op \in {"replay", "iface"} /\ pinned = "all" => "behind" \in mishaps

MapsAreEmpty == /\ POLICY_TABLE = << >> /\ PORT_BITMAP_POOL = << >>
                /\ SRC_TRIE = << >> /\ DST_TRIE = << >>
                /\ QOS_CONFIG = << >> /\ FIREWALL_CONFIG = << >>
NewMaps == \/ pinned = "none"
           \/ op \in {"replay", "iface"} /\ pinned = "all"
           => MapsAreEmpty

\* By the time a tap can be started again, a handler that outlived its
\* instance finds no pins.
NobodyLate ==
    ~standalone /\ ~registered /\ op \in {"idle", "limit", "attach"} /\ late # << >>
    => pinned = "none"

EInv == /\ RunningEnforced /\ FoundEnforced /\ LoadedEnforced /\ LeftEnforced
        /\ StoppedEnforced /\ NewPins /\ NewMaps /\ NobodyLate

\* A step that leaves the maps alone.
LEMMA MapsKept ==
    ASSUME UNCHANGED kernelVars
    PROVE  /\ \A s : EnforcedBy(s, POLICY_TABLE', PORT_BITMAP_POOL', SRC_TRIE', DST_TRIE',
                                QOS_CONFIG', FIREWALL_CONFIG') <=> Enforces(s)
           /\ MapsAreEmpty' <=> MapsAreEmpty
BY DEF kernelVars, Enforces, MapsAreEmpty

\* A running instance whose maps enforce its memory satisfies ControlPlane's
\* invariant.
LEMMA HandlersStart ==
    ASSUME HP!MemoryTyped, HP!KernelTyped, Enforces(Memory)
    PROVE  HP!IInv
<1>1. /\ Memory.table = table /\ Memory.directory = directory
      /\ Memory.qos_rules = qos_rules /\ Memory.flags = flags
    BY DEF Memory
<1>2. HP!KernelHasTheRules
    BY <1>1, SamePolicies DEF Enforces, EnforcedBy, HP!KernelHasTheRules
<1>3. HP!LivePortsWritten
    BY <1>1, HandlerAssumptions, HP!LiveDef DEF Enforces, EnforcedBy
<1>4. HP!TriesNameOwners
    BY <1>1 DEF Enforces, EnforcedBy, HP!TriesNameOwners
<1>5. HP!QosInForce
    BY <1>1, Zenon DEF Enforces, EnforcedBy, HP!QosInForce, HP!QosFlagInSync
<1>6. HP!SwitchesInForce
    BY <1>1, Zenon DEF Enforces, EnforcedBy, HP!SwitchesInForce
<1>7. QED
    BY <1>2, <1>3, <1>4, <1>5, <1>6
    DEF HP!IInv, HP!GroupInv, HP!PolicyInv, HP!PoolInv, HP!QosInv, HP!SwitchInv,
        HP!MemoryTyped, HP!KernelTyped

\* And where its invariant holds after a step the maps enforce the memory.
LEMMA HandlersEnd ==
    ASSUME HP!IInv'
    PROVE  Enforces(Memory)'
<1>1. /\ Memory'.table = table' /\ Memory'.directory = directory'
      /\ Memory'.qos_rules = qos_rules' /\ Memory'.flags = flags'
    BY DEF Memory
<1>2. POLICY_TABLE' = PoliciesOf(Memory'.table.rules)
    BY <1>1, SamePolicies DEF HP!IInv, HP!PolicyInv, HP!KernelHasTheRules
<1>3. HP!SetsWritten(PORT_BITMAP_POOL', Memory'.table.port_sets)
    BY <1>1, HandlerAssumptions, HP!LiveDef DEF HP!IInv, HP!PoolInv
<1>4. /\ SRC_TRIE' = DST_TRIE'
      /\ \A c \in DOMAIN SRC_TRIE' : \E n \in DOMAIN Memory'.directory.groups :
             /\ Memory'.directory.groups[n].id = SRC_TRIE'[c]
             /\ c \in Memory'.directory.groups[n].cidrs
    BY <1>1 DEF HP!IInv, HP!GroupInv, HP!TriesNameOwners
<1>5. /\ QOS_CONFIG' = Memory'.qos_rules
      /\ 0 \in DOMAIN FIREWALL_CONFIG' => (FIREWALL_CONFIG'[0].qos <=> DOMAIN QOS_CONFIG' # {})
      /\ DOMAIN QOS_CONFIG' # {} => 0 \in DOMAIN FIREWALL_CONFIG'
  <2>1. HP!QosInForce'
      BY DEF HP!IInv, HP!QosInv
  <2>2. QED BY <1>1, <2>1, Zenon DEF HP!QosInForce, HP!QosFlagInSync
<1>6. LET seen == IF 0 \in DOMAIN FIREWALL_CONFIG' THEN FIREWALL_CONFIG'[0]
                  ELSE [conntrack |-> TRUE, monitoring |-> TRUE]
      IN  seen.conntrack = Memory'.flags.conntrack /\ seen.monitoring = Memory'.flags.monitoring
  <2>1. HP!SwitchesInForce'
      BY DEF HP!IInv, HP!SwitchInv
  <2>2. QED BY <1>1, <2>1, Zenon DEF HP!SwitchesInForce
<1>7. QED BY <1>2, <1>3, <1>4, <1>5, <1>6, Zenon DEF Enforces, EnforcedBy

\* A handler.
LEMMA HandleEnforced ==
    ASSUME TInv, EInv, Handle
    PROVE  EInv'
<1>1. /\ registered /\ registered' /\ pinned # "none" /\ pinned' = pinned
      /\ op' = op /\ standalone' = standalone /\ mishaps' = mishaps
    BY DEF Handle, opVars, historyVars
<1>2. /\ op \notin {"iface", "replay", "register", "open"}
      /\ ~standalone => op \notin {"limit", "attach", "unlink", "clear", "remove"}
    BY <1>1 DEF TInv, IInv, OpsOK
<1>3. RunningEnforced'
  <2>1. SUFFICES ASSUME Clean PROVE Enforces(Memory)'
      BY <1>1 DEF RunningEnforced, Clean
  <2>2. Enforces(Memory)
      BY <1>1, <2>1 DEF EInv, RunningEnforced
  <2>3. HP!MemoryTyped /\ HP!KernelTyped
      BY MemoryTypes DEF TInv, IInv, StateKept, FilesOK, Fine
  <2>4. HP!IInv
      BY <2>2, <2>3, HandlersStart
  <2>5. HP!IInv'
      BY <2>4, HandleIsStep, HandlerAssumptions, HP!StepInv
  <2>6. QED BY <2>5, HandlersEnd
<1>4. QED
    BY <1>1, <1>2, <1>3
    DEF EInv, FoundEnforced, LoadedEnforced, LeftEnforced, StoppedEnforced, NewPins, NewMaps,
        NobodyLate

\* A step that touches neither maps nor memory, nor the noted pins, has only
\* to say what becomes of the other states.
LEMMA RunningKept ==
    ASSUME RunningEnforced, UNCHANGED << kernelVars, memoryVars >>,
           Clean' /\ registered' => Clean /\ registered
    PROVE  RunningEnforced'
<1>1. Memory' = Memory
    BY DEF memoryVars, Memory
<1>2. QED BY <1>1, MapsKept DEF RunningEnforced, Enforces

\* The answers to requests.
LEMMA AcknowledgeEnforced ==
    ASSUME TInv, EInv, Acknowledge \/ AcknowledgeLate
    PROVE  EInv'
<1>1. /\ UNCHANGED << kernelVars, memoryVars, pinned, registered, standalone, op, read, snapshot >>
      /\ mishaps \subseteq mishaps'
    BY DEF Acknowledge, AcknowledgeLate, opVars, Note, When
<1>2. RunningEnforced'
    BY <1>1, RunningKept DEF EInv, Clean
<1>3. NewPins' /\ NewMaps' /\ LoadedEnforced'
    BY <1>1, MapsKept DEF EInv, NewPins, NewMaps, LoadedEnforced, Clean, Enforces
<1>4. CASE Acknowledge
  <2>1. registered /\ late' = late
      BY <1>4 DEF Acknowledge, TInv, IInv, OpsOK
  <2>2. ~standalone => op # "unlink"
      BY <2>1 DEF TInv, IInv, OpsOK
  <2>3. QED
      BY <1>1, <1>2, <1>3, <2>1, <2>2
      DEF EInv, FoundEnforced, LeftEnforced, StoppedEnforced, NobodyLate
<1>5. CASE AcknowledgeLate
  <2>1. /\ late # << >> /\ late' = << >> /\ promised' = Replay(promised, late)
        /\ op = "register" => "behind" \in mishaps'
      BY <1>5 DEF AcknowledgeLate, Note, When
  <2>2. FoundEnforced'
      BY <1>1, <2>1 DEF FoundEnforced, Clean
  <2>3. LeftEnforced'
      BY <1>1, <2>1 DEF EInv, LeftEnforced, NobodyLate, Clean
  <2>4. StoppedEnforced'
    <3>1. SUFFICES ASSUME Clean', "missed" \notin mishaps', ~standalone, op = "unlink"
                   PROVE  Enforces(Replay(promised, late))'
        BY <1>1 DEF StoppedEnforced
    <3>2. Enforces(Replay(promised, late))
        BY <1>1, <3>1 DEF EInv, StoppedEnforced, Clean
    <3>3. Replay(promised', late') = Replay(promised, late)
        BY <2>1, ReplayNothing
    <3>4. QED BY <1>1, <3>2, <3>3, MapsKept DEF Enforces
  <2>5. NobodyLate'
      BY <2>1 DEF NobodyLate
  <2>6. QED BY <1>2, <1>3, <2>2, <2>3, <2>4, <2>5 DEF EInv
<1>6. QED BY <1>4, <1>5

\* A compaction by a running instance.
LEMMA CompactEnforced ==
    ASSUME TInv, EInv, Compact \/ Unregister
    PROVE  EInv'
<1>1. /\ UNCHANGED << kernelVars, memoryVars, pinned, registered, standalone, late >>
      /\ "torn" \in mishaps' <=> "torn" \in mishaps
      /\ "behind" \in mishaps' <=> "behind" \in mishaps
      /\ op' = op \/ (op = "unregister" /\ op' = "forget")
  <2>1. ASSUME CompactMemory \/ UNCHANGED mishaps
        PROVE  /\ "torn" \in mishaps' <=> "torn" \in mishaps
               /\ "behind" \in mishaps' <=> "behind" \in mishaps
      BY <2>1 DEF CompactMemory, Note, When
  <2>2. CompactMemory \/ UNCHANGED mishaps
      BY DEF Compact, Unregister
  <2>3. /\ UNCHANGED << kernelVars, memoryVars, pinned, registered, standalone, late >>
        /\ op' = op \/ (op = "unregister" /\ op' = "forget")
      BY DEF Compact, Unregister
  <2>4. QED BY <2>1, <2>2, <2>3
<1>2. RunningEnforced'
    BY <1>1, RunningKept DEF EInv, Clean
<1>3. NewPins' /\ NewMaps' /\ NobodyLate'
    BY <1>1, MapsKept DEF EInv, NewPins, NewMaps, NobodyLate
<1>4. /\ registered => op' \notin {"iface", "replay", "register", "open"}
      /\ registered \/ op' = "forget"
      /\ ~standalone /\ op' \in {"limit", "attach", "unlink"} => ~registered
    BY DEF TInv, IInv, OpsOK, Compact, Unregister
<1>5. FoundEnforced' /\ LoadedEnforced' /\ LeftEnforced' /\ StoppedEnforced'
    BY <1>1, <1>4 DEF FoundEnforced, LoadedEnforced, LeftEnforced, StoppedEnforced
<1>6. QED BY <1>2, <1>3, <1>5 DEF EInv

\* What a start and a stop do to state.json, between their other steps.
LEMMA RewriteEnforced ==
    ASSUME TInv, EInv, Start \/ Truncate \/ WriteBack \/ Stop
    PROVE  EInv'
<1>1. UNCHANGED << kernelVars, memoryVars, pinned, registered, standalone, late, promised,
                   mishaps >>
    BY DEF Start, Truncate, WriteBack, Stop, historyVars
<1>2. /\ op' \notin {"register", "open"}
      /\ op' \in {"idle", "limit", "attach"} => op \in {"idle", "limit", "attach"}
      /\ op' \in {"replay", "iface"} => op \in {"replay", "iface"}
      /\ op' = "unlink" => standalone
    BY DEF TInv, IInv, OpsOK, Start, Truncate, WriteBack, Stop, After, BeginRewrite
<1>3. RunningEnforced'
    BY <1>1, RunningKept DEF EInv, Clean
<1>4. NewPins' /\ NewMaps' /\ NobodyLate'
    BY <1>1, <1>2, MapsKept DEF EInv, NewPins, NewMaps, NobodyLate
<1>5. FoundEnforced' /\ LoadedEnforced' /\ StoppedEnforced'
    BY <1>1, <1>2 DEF FoundEnforced, LoadedEnforced, StoppedEnforced
<1>6. LeftEnforced'
    BY <1>1, <1>2, MapsKept DEF EInv, LeftEnforced, Clean, Enforces
<1>7. QED BY <1>3, <1>4, <1>5, <1>6 DEF EInv

\* What is on disk when no with_state is under way and nothing was lost.
LEMMA DiskIsPromised ==
    ASSUME TInv, rewrite = "none", "lost" \notin mishaps
    PROVE  Replay(Saved, wal) = promised
BY DEF TInv, IInv, StateKept, DiskKept, Kept

\* A tap that keeps its pins is registered with what they enforce.
LEMMA AttachFoundEnforced ==
    ASSUME TInv, EInv, AttachFound
    PROVE  EInv'
<1>1. /\ UNCHANGED << kernelVars, memoryVars, pinned, registered, standalone, late, promised,
                      snapshot, wal >>
      /\ mishaps \subseteq mishaps'
      /\ op = "attach" /\ Linked
      /\ op' = IF standalone THEN "idle" ELSE "register"
    BY DEF AttachFound, Note, When, diskVars
<1>2. ~standalone => /\ "lost" \in mishaps => "torn" \in mishaps'
                     /\ "missed" \in mishaps => "behind" \in mishaps'
    BY DEF AttachFound, Note, When
<1>3. RunningEnforced'
    BY <1>1, RunningKept DEF EInv, Clean
<1>4. /\ NewPins' /\ NewMaps' /\ NobodyLate'
      /\ LoadedEnforced' /\ LeftEnforced' /\ StoppedEnforced'
    BY <1>1, MapsKept DEF EInv, NewPins, NewMaps, NobodyLate, LoadedEnforced, LeftEnforced,
                          StoppedEnforced, Linked
<1>5. FoundEnforced'
  <2>1. SUFFICES ASSUME Clean', ~registered, ~standalone
                 PROVE  Enforces(Replay(Saved, wal))'
      BY <1>1 DEF FoundEnforced
  <2>2. Clean /\ mishaps \cap {"lost", "missed"} = {}
      BY <1>1, <1>2, <2>1 DEF Clean
  <2>3. Enforces(promised)
      BY <1>1, <2>1, <2>2 DEF EInv, LeftEnforced
  <2>4. rewrite = "none"
      BY <1>1 DEF TInv, IInv, OpsOK
  <2>5. Replay(Saved, wal) = promised
      BY <2>2, <2>4, DiskIsPromised
  <2>6. Saved' = Saved /\ wal' = wal
      BY <1>1 DEF Saved
  <2>7. QED BY <1>1, <2>3, <2>5, <2>6, MapsKept DEF Enforces
<1>6. QED BY <1>3, <1>4, <1>5 DEF EInv

\* A program that is attached has new maps, or is not linked to its pins.
LEMMA AttachNewEnforced ==
    ASSUME TInv, EInv, AttachNew \/ AttachBeside
    PROVE  EInv'
<1>1. /\ UNCHANGED kernelVars
      /\ \/ (pinned = "none" /\ pinned' = "all" /\ "behind" \in mishaps')
         \/ pinned' = "stale"
      /\ op' \in {"replay", "iface"} \/ (standalone /\ op' = "idle")
      /\ standalone' = standalone
  <2>1. CASE AttachNew
      BY <2>1 DEF AttachNew, Note, BeginRewrite
  <2>2. CASE AttachBeside
      BY <2>2 DEF AttachBeside
  <2>3. QED BY <2>1, <2>2
<1>2. ~Clean'
    BY <1>1 DEF Clean
<1>3. NewPins' /\ NewMaps' /\ NobodyLate'
    BY <1>1, MapsKept DEF EInv, NewPins, NewMaps, NobodyLate
<1>4. QED
    BY <1>2, <1>3
    DEF EInv, RunningEnforced, FoundEnforced, LoadedEnforced, LeftEnforced, StoppedEnforced

\* Empty maps enforce a state without groups, rules and QoS rules, if its
\* switches are on.
LEMMA NothingEnforced ==
    ASSUME NEW s, Fine(s), NothingToReplay(s), s.flags = DefaultState.flags
    PROVE  EnforcedBy(s, << >>, << >>, << >>, << >>, << >>, << >>)
<1>1. DOMAIN s.table.rules = {} /\ DOMAIN s.qos_rules = {}
    BY DEF NothingToReplay
<1>2. << >> = PoliciesOf(s.table.rules)
    BY <1>1 DEF PoliciesOf
<1>3. << >> = s.qos_rules
  <2>1. PICK D : s.qos_rules \in [D -> Rates]
      BY FineFields DEF HP!PartialMaps
  <2>2. s.qos_rules = [x \in DOMAIN s.qos_rules |-> s.qos_rules[x]]
      BY <2>1
  <2>3. QED BY <1>1, <2>2
<1>4. DOMAIN s.table.port_sets = {}
    BY <1>1, FineFields, HandlerAssumptions, HP!SetHasRule
<1>5. HP!SetsWritten(<< >>, s.table.port_sets)
    BY <1>4 DEF HP!SetsWritten
<1>6. s.flags.conntrack = TRUE /\ s.flags.monitoring = TRUE
    BY DEF DefaultState
<1>7. DOMAIN << >> = {}
    OBVIOUS
<1>8. QED BY <1>2, <1>3, <1>5, <1>6, <1>7 DEF EnforcedBy

\* The replay fills new maps with the snapshot, which is everything if there
\* is no log.
LEMMA ReplayEnforced ==
    ASSUME TInv, EInv, ReplayState
    PROVE  EInv'
<1>1. /\ op = "replay" /\ op' = "register" /\ ~registered /\ registered' = registered
      /\ pinned # "none" /\ pinned' = pinned /\ UNCHANGED << snapshot, wal >>
    BY DEF ReplayState, diskVars, TInv, IInv, OpsOK
<1>2. FoundEnforced'
  <2>1. SUFFICES ASSUME Clean'
                 PROVE  Enforces(Replay(Saved, wal))'
      BY DEF FoundEnforced
  <2>2. /\ pinned = "all" /\ wal = << >>
        /\ NothingToReplay(Saved) => Saved.flags = DefaultState.flags
      BY <1>1, <2>1 DEF Clean, ReplayState, Note, When
  <2>3. Replay(Saved', wal') = Saved
      BY <1>1, <2>2, ReplayNothing DEF Saved
  <2>4. Fine(Saved)
      BY DEF TInv, IInv, StateKept, FilesOK
  <2>5. EnforcedBy(Saved, POLICY_TABLE', PORT_BITMAP_POOL', SRC_TRIE', DST_TRIE', QOS_CONFIG',
                   FIREWALL_CONFIG')
    <3>1. CASE NothingToReplay(Saved)
      <4>1. UNCHANGED kernelVars
          BY <3>1 DEF ReplayState
      <4>2. MapsAreEmpty
          BY <1>1, <2>2 DEF EInv, NewMaps
      <4>3. QED BY <2>2, <2>4, <3>1, <4>1, <4>2, NothingEnforced DEF kernelVars, MapsAreEmpty
    <3>2. CASE ~NothingToReplay(Saved)
      <4>1. PICK owner \in Owners(Saved.directory.groups) :
                /\ SRC_TRIE' = TrieOf(Saved.directory.groups, owner)
                /\ DST_TRIE' = TrieOf(Saved.directory.groups, owner)
          BY <2>2, <3>2 DEF ReplayState
      <4>2. PICK first \in FirstRules(Saved.table.rules) :
                PORT_BITMAP_POOL' = PoolOf(Saved.table.rules, first)
          BY <2>2, <3>2 DEF ReplayState
      <4>3. /\ POLICY_TABLE' = PoliciesOf(Saved.table.rules)
            /\ QOS_CONFIG' = Saved.qos_rules
            /\ FIREWALL_CONFIG' = ConfigOf(Saved)
          BY <2>2, <3>2 DEF ReplayState
      <4>4. QED BY <2>4, <4>1, <4>2, <4>3, SnapshotReplayed
    <3>3. QED BY <3>1, <3>2
  <2>6. QED BY <2>3, <2>5 DEF Enforces
<1>3. QED
    BY <1>1, <1>2
    DEF EInv, RunningEnforced, LoadedEnforced, LeftEnforced, StoppedEnforced, NewPins, NewMaps,
        NobodyLate

\* What a registration reads is what the maps enforce.
LEMMA LoadWithWalEnforced ==
    ASSUME TInv, EInv, LoadWithWal
    PROVE  EInv'
<1>1. /\ op = "register" /\ op' = "open" /\ ~registered /\ read' = Replay(Saved, wal)
      /\ UNCHANGED << kernelVars, pinned, standalone, registered, mishaps >>
    BY DEF LoadWithWal, historyVars, TInv, IInv, OpsOK
<1>2. LoadedEnforced'
  <2>1. SUFFICES ASSUME Clean' PROVE Enforces(read)'
      BY DEF LoadedEnforced
  <2>2. Enforces(Replay(Saved, wal))
      BY <1>1, <2>1 DEF EInv, FoundEnforced, Clean
  <2>3. QED BY <1>1, <2>2, MapsKept DEF Enforces
<1>3. NewMaps'
    BY <1>1, MapsKept DEF EInv, NewMaps
<1>4. QED
    BY <1>1, <1>2, <1>3
    DEF EInv, RunningEnforced, FoundEnforced, LeftEnforced, StoppedEnforced, NewPins, NobodyLate

\* A registration takes over what the maps enforce.
LEMMA RegisterEnforced ==
    ASSUME TInv, EInv, Register
    PROVE  EInv'
<1>1. /\ op = "open" /\ op' = "idle" /\ ~registered /\ registered' /\ pinned # "none"
      /\ UNCHANGED << kernelVars, pinned, standalone >>
      /\ "torn" \in mishaps' <=> "torn" \in mishaps
      /\ "behind" \in mishaps' <=> "behind" \in mishaps
    BY DEF Register, TInv, IInv, OpsOK, Note
<1>2. RunningEnforced'
  <2>1. SUFFICES ASSUME Clean' PROVE Enforces(Memory)'
      BY DEF RunningEnforced
  <2>2. Enforces(read)
      BY <1>1, <2>1 DEF EInv, LoadedEnforced, Clean
  <2>3. Memory' = read
      BY RegisterKept DEF TInv
  <2>4. QED BY <1>1, <2>2, <2>3, MapsKept DEF Enforces
<1>3. QED
    BY <1>1, <1>2
    DEF EInv, FoundEnforced, LoadedEnforced, LeftEnforced, StoppedEnforced, NewPins, NewMaps,
        NobodyLate

\* The link is removed: the maps are nobody's.
LEMMA RemoveLinkEnforced ==
    ASSUME TInv, EInv, RemoveLink
    PROVE  EInv'
<1>1. /\ UNCHANGED kernelVars
      /\ op' \in {"clear", "remove"}
      /\ pinned' # "all" /\ (pinned' = "none" => pinned = "none")
    BY DEF RemoveLink, BeginRewrite, Linked, TInv, IInv, OpsOK
<1>2. ~Clean'
    BY <1>1 DEF Clean
<1>3. NewPins' /\ NewMaps' /\ NobodyLate'
    BY <1>1, MapsKept DEF EInv, NewPins, NewMaps, NobodyLate
<1>4. QED
    BY <1>2, <1>3
    DEF EInv, RunningEnforced, FoundEnforced, LoadedEnforced, LeftEnforced, StoppedEnforced

\* The pins are removed, or have gone with the host.
LEMMA PinsGoneEnforced ==
    ASSUME RemovePins \/ CleanUp \/ Reboot
    PROVE  EInv'
<1>1. pinned' = "none" /\ MapsEmptied
    BY DEF RemovePins, CleanUp, Reboot
<1>2. ~Clean'
    BY <1>1 DEF Clean
<1>3. NewPins' /\ NewMaps' /\ NobodyLate'
    BY <1>1 DEF NewPins, NewMaps, NobodyLate, MapsAreEmpty, MapsEmptied
<1>4. QED
    BY <1>2, <1>3
    DEF EInv, RunningEnforced, FoundEnforced, LoadedEnforced, LeftEnforced, StoppedEnforced

\* A tap that is forgotten leaves maps that enforce what was acknowledged,
\* and the request that was under way.
LEMMA ForgetEnforced ==
    ASSUME TInv, EInv, Forget
    PROVE  EInv'
<1>1. /\ UNCHANGED << kernelVars, pinned, standalone, promised, mishaps >>
      /\ op = "forget" /\ op' = IF standalone THEN "idle" ELSE "unlink"
      /\ late' = pending /\ ~registered'
    BY DEF Forget, historyVars
<1>2. StoppedEnforced'
  <2>1. SUFFICES ASSUME Clean', "missed" \notin mishaps, ~standalone
                 PROVE  Enforces(Replay(promised, late))'
      BY <1>1 DEF StoppedEnforced
  <2>2. registered
      BY <1>1, <2>1 DEF TInv, IInv, OpsOK
  <2>3. Enforces(Memory)
      BY <1>1, <2>1, <2>2 DEF EInv, RunningEnforced, Clean
  <2>4. Memory = Replay(promised, pending)
      BY <2>1, <2>2 DEF TInv, IInv, StateKept, MemoryKept
  <2>5. QED BY <1>1, <2>3, <2>4, MapsKept DEF Enforces
<1>3. NewPins' /\ NewMaps' /\ NobodyLate'
    BY <1>1, MapsKept DEF EInv, NewPins, NewMaps, NobodyLate
<1>4. QED BY <1>1, <1>2, <1>3
       DEF EInv, RunningEnforced, FoundEnforced, LoadedEnforced, LeftEnforced

\* A shutdown leaves the system instance its pins.
LEMMA ShutdownEnforced ==
    ASSUME TInv, EInv, Shutdown
    PROVE  EInv'
<1>1. /\ UNCHANGED << kernelVars, pinned, standalone, op >>
      /\ op = "idle" /\ standalone /\ ~registered'
    BY DEF Shutdown, opVars
<1>2. NewPins' /\ NewMaps' /\ NobodyLate'
    BY <1>1, MapsKept DEF EInv, NewPins, NewMaps, NobodyLate
<1>3. QED
    BY <1>1, <1>2
    DEF EInv, RunningEnforced, FoundEnforced, LoadedEnforced, LeftEnforced, StoppedEnforced

\* Wherever a crash comes, the maps of a tap that stay enforce what was
\* acknowledged, or the crash is noted.
LEMMA CrashEnforced ==
    ASSUME TInv, EInv, Crash
    PROVE  EInv'
<1>1. /\ UNCHANGED << kernelVars, pinned, standalone, promised >>
      /\ op' = "idle" /\ ~registered' /\ late' = << >>
      /\ mishaps \subseteq mishaps'
      /\ pending # << >> => "torn" \in mishaps'
      /\ late # << >> /\ op \in {"unlink", "remove"} => "torn" \in mishaps'
      /\ rewrite = "truncated" => "lost" \in mishaps'
    BY DEF Crash, AgentGone, Note, When
<1>2. NewPins' /\ NewMaps' /\ NobodyLate'
    BY <1>1, MapsKept DEF EInv, NewPins, NewMaps, NobodyLate
<1>3. LeftEnforced'
  <2>1. SUFFICES ASSUME Clean', mishaps' \cap {"lost", "missed"} = {}, ~standalone
                 PROVE  Enforces(promised)'
      BY <1>1 DEF LeftEnforced
  <2>2. /\ Clean /\ mishaps \cap {"lost", "missed"} = {}
        /\ pending = << >> /\ rewrite # "truncated"
        /\ op \in {"unlink", "remove"} => late = << >>
      BY <1>1, <2>1 DEF Clean
  <2>3. OpsOK /\ MemoryKept
      BY DEF TInv, IInv, StateKept
  <2>4. Enforces(promised)
    <3>1. CASE registered
      <4>1. Memory = promised
          BY <2>2, <2>3, <3>1, ReplayNothing DEF MemoryKept
      <4>2. QED BY <2>2, <3>1, <4>1 DEF EInv, RunningEnforced
    <3>2. CASE ~registered /\ op \in {"idle", "limit", "attach"}
        BY <2>1, <2>2, <3>2 DEF EInv, LeftEnforced
    <3>3. CASE ~registered /\ op = "register"
      <4>1. rewrite = "none"
          BY <2>3, <3>3 DEF OpsOK
      <4>2. QED BY <2>2, <3>3, <4>1, DiskIsPromised DEF EInv, FoundEnforced
    <3>4. CASE ~registered /\ op = "open"
      <4>1. rewrite = "none"
          BY <2>3, <3>4 DEF OpsOK
      <4>2. read = Replay(Saved, wal)
          BY <2>2, <3>4 DEF TInv, IInv, StateKept, LoadKept
      <4>3. QED BY <2>2, <3>4, <4>1, <4>2, DiskIsPromised DEF EInv, LoadedEnforced
    <3>5. CASE op = "unlink"
      <4>1. Replay(promised, late) = promised
          BY <2>2, <3>5, ReplayNothing
      <4>2. QED BY <2>1, <2>2, <3>5, <4>1 DEF EInv, StoppedEnforced
    <3>6. ~registered => op \in {"idle", "limit", "attach", "register", "open", "unlink"}
        BY <2>1, <2>2, <2>3 DEF OpsOK, EInv, NewPins, Clean, Linked
    <3>7. QED BY <3>1, <3>2, <3>3, <3>4, <3>5, <3>6
  <2>5. QED BY <1>1, <2>4, MapsKept DEF Enforces
<1>4. QED BY <1>1, <1>2, <1>3
       DEF EInv, RunningEnforced, FoundEnforced, LoadedEnforced, StoppedEnforced

\* A fresh installation has no pins.
LEMMA InitEnforced == Init => EInv
<1>1. SUFFICES ASSUME Init PROVE EInv
    OBVIOUS
<1>2. pinned = "none" /\ late = << >> /\ ~registered /\ op = "idle"
    BY <1>1 DEF Init
<1>3. MapsAreEmpty
    BY <1>1 DEF Init, Handlers!Init, MapsAreEmpty
<1>4. QED
    BY <1>2, <1>3
    DEF EInv, RunningEnforced, FoundEnforced, LoadedEnforced, LeftEnforced, StoppedEnforced, Clean,
        NewPins, NewMaps, NobodyLate

\* No step of a handler, a start, a stop, a crash or a reboot breaks it.
LEMMA StepEnforced ==
    ASSUME TInv, EInv, [Next]_vars
    PROVE  EInv'
<1>1. CASE UNCHANGED vars
  <2>1. /\ UNCHANGED << kernelVars, memoryVars, pinned, registered, standalone, op, late, promised,
                        mishaps, snapshot, wal, read >>
      BY <1>1 DEF vars, opVars, historyVars, diskVars
  <2>2. Memory' = Memory /\ Saved' = Saved
      BY <2>1 DEF memoryVars, Memory, Saved
  <2>3. RunningEnforced'
      BY <2>1, RunningKept DEF EInv, Clean
  <2>4. FoundEnforced' /\ LoadedEnforced' /\ LeftEnforced' /\ StoppedEnforced'
      BY <2>1, <2>2, MapsKept
         DEF EInv, FoundEnforced, LoadedEnforced, LeftEnforced, StoppedEnforced, Clean, Enforces
  <2>5. NewPins' /\ NewMaps' /\ NobodyLate'
      BY <2>1, MapsKept DEF EInv, NewPins, NewMaps, NobodyLate
  <2>6. QED BY <2>3, <2>4, <2>5 DEF EInv
<1>2. CASE Next
    BY <1>2, HandleEnforced, AcknowledgeEnforced, CompactEnforced, RewriteEnforced,
       AttachFoundEnforced, AttachNewEnforced, ReplayEnforced, LoadWithWalEnforced,
       RegisterEnforced, RemoveLinkEnforced, PinsGoneEnforced, ForgetEnforced, ShutdownEnforced, CrashEnforced
       DEF Next
<1>3. QED BY <1>1, <1>2

\* The maps a running instance finds or replays enforce all of its state,
\* whatever stops, crashes and reboots came before, but for what is noted.
THEOREM ListedEnforced == Spec => []OnlyMishapsUnenforced
<1>1. Init => TInv /\ EInv
    BY InitInv, InitTyped, InitEnforced DEF TInv
<1>2. TInv /\ EInv /\ [Next]_vars => TInv' /\ EInv'
    BY StepInv, BoundsStep, KernelStep, StepEnforced DEF TInv
<1>3. TInv /\ EInv => OnlyMishapsUnenforced
  <2>1. SUFFICES ASSUME TInv, EInv, pinned # "stale", mishaps \cap {"torn", "behind"} = {},
                        registered, Linked
                 PROVE  /\ pinned = "all"
                        /\ Handlers!KernelHasTheRules
                        /\ Handlers!LivePortsWritten
                        /\ Handlers!TriesNameOwners
                        /\ Handlers!QosInForce
                        /\ Handlers!SwitchesInForce
      BY DEF OnlyMishapsUnenforced, ListedIsEnforced
  <2>2. pinned = "all"
      BY <2>1 DEF Linked
  <2>3. Enforces(Memory)
      BY <2>1, <2>2 DEF EInv, RunningEnforced, Clean
  <2>4. HP!MemoryTyped /\ HP!KernelTyped
      BY <2>1, MemoryTypes DEF TInv, IInv, StateKept, FilesOK, Fine
  <2>5. HP!IInv
      BY <2>3, <2>4, HandlersStart
  <2>6. QED
      BY <2>2, <2>5, HandlersProperties
      DEF HP!IInv, HP!GroupInv, HP!PolicyInv, HP!PoolInv, HP!QosInv, HP!SwitchInv
<1>4. QED BY <1>1, <1>2, <1>3, PTL DEF Spec
=============================================================================
