----------------------------- MODULE WalProofs -----------------------------
(***************************************************************************)
(* Crash safety, for all requests and any number of crashes, restarts and  *)
(* compactions: the log implements the durable store.                      *)
(***************************************************************************)
EXTENDS Wal, SequenceTheorems, WellFoundedInduction, TLAPS

(***************************************************************************)
(* Replaying a log: an empty one changes nothing, and one with one more    *)
(* entry is replayed by applying that entry last.  The entries themselves  *)
(* do not matter.                                                          *)
(***************************************************************************)
\* The states after each of the first n entries of a log.
Run(f, s, log, n) ==
    f = [i \in 0 .. n |-> IF i = 0 THEN s ELSE ApplyWalEntry(f[i - 1], log[i])]

\* A set of naturals that is not empty has a least element.
LEMMA LeastNat ==
    ASSUME NEW T \in SUBSET Nat, T # {}
    PROVE  \E n \in T : \A m \in T : n <= m
<1>1. PICK n \in T : \A m \in T : ~(<< m, n >> \in OpToRel(<, Nat))
    BY NatLessThanWellFounded, WFMin, Zenon
<1>2. \A m \in T : ~(m < n)
    BY <1>1 DEF OpToRel
<1>3. QED BY <1>2

\* Every log can be replayed.
LEMMA RunExists ==
    ASSUME NEW s, NEW log, NEW n \in Nat
    PROVE  \E f : Run(f, s, log, n)
<1> DEFINE Endless == {m \in Nat : ~ \E f : Run(f, s, log, m)}
<1>1. SUFFICES ASSUME Endless # {} PROVE FALSE
    OBVIOUS
<1>2. PICK m \in Endless : \A k \in Endless : m <= k
    BY <1>1, LeastNat
<1>3. ~ \E f : Run(f, s, log, m)
    BY <1>2
<1>4. m # 0
  <2>1. Run([i \in 0 .. 0 |-> s], s, log, 0)
      BY DEF Run
  <2>2. QED BY <1>3, <2>1
<1>5. PICK f : Run(f, s, log, m - 1)
    BY <1>2, <1>4
<1> DEFINE g == [i \in 0 .. m |-> IF i = m THEN ApplyWalEntry(f[m - 1], log[m]) ELSE f[i]]
<1>6. \A i \in 0 .. m - 1 : f[i] = IF i = 0 THEN s ELSE ApplyWalEntry(f[i - 1], log[i])
    BY <1>5 DEF Run
<1>7. \A i \in 0 .. m : g[i] = IF i = 0 THEN s ELSE ApplyWalEntry(g[i - 1], log[i])
    BY <1>4, <1>6
<1>8. Run(g, s, log, m)
  <2>1. DOMAIN g = 0 .. m /\ g = [i \in 0 .. m |-> g[i]]
      OBVIOUS
  <2> HIDE DEF g
  <2>2. QED BY <1>7, <2>1 DEF Run
<1>9. QED BY <1>3, <1>8

\* Two replays agree as long as their logs do.
LEMMA RunsAgree ==
    ASSUME NEW s, NEW log, NEW more, NEW f, NEW g, NEW n \in Nat, NEW m \in Nat,
           Run(f, s, log, n), Run(g, s, more, m), n <= m,
           \A i \in 1 .. n : log[i] = more[i]
    PROVE  f[n] = g[n]
<1> DEFINE Apart == {i \in 0 .. n : f[i] # g[i]}
<1>1. SUFFICES ASSUME Apart # {} PROVE FALSE
    OBVIOUS
<1>2. PICK i \in Apart : \A k \in Apart : i <= k
  <2>1. Apart \in SUBSET Nat
      OBVIOUS
  <2> HIDE DEF Apart
  <2>2. QED BY <1>1, <2>1, LeastNat
<1>3. f[i] = IF i = 0 THEN s ELSE ApplyWalEntry(f[i - 1], log[i])
    BY DEF Run
<1>4. g[i] = IF i = 0 THEN s ELSE ApplyWalEntry(g[i - 1], more[i])
    BY DEF Run
<1>5. i # 0
    BY <1>3, <1>4
<1>6. f[i - 1] = g[i - 1]
    BY <1>2, <1>5
<1>7. QED BY <1>3, <1>4, <1>5, <1>6

\* What Replay computes.
LEMMA ReplayIsRun ==
    ASSUME NEW s, NEW log, Len(log) \in Nat
    PROVE  \E f : Run(f, s, log, Len(log)) /\ Replay(s, log) = f[Len(log)]
BY RunExists DEF Replay, Run

\* Nothing is replayed from an empty log.
LEMMA ReplayNothing == \A s : Replay(s, << >>) = s
<1>1. TAKE s
<1>2. PICK f : Run(f, s, << >>, 0) /\ Replay(s, << >>) = f[0]
    BY ReplayIsRun
<1>3. QED BY <1>2 DEF Run

\* The last entry is applied last.
LEMMA ReplayAppend ==
    ASSUME NEW S, NEW log \in Seq(S), NEW e \in S, NEW s
    PROVE  Replay(s, Append(log, e)) = ApplyWalEntry(Replay(s, log), e)
<1> DEFINE more == Append(log, e)
           n == Len(log)
<1>1. n \in Nat /\ Len(more) = n + 1 /\ more[n + 1] = e /\ \A i \in 1 .. n : log[i] = more[i]
    OBVIOUS
<1> HIDE DEF more, n
<1>2. PICK f : Run(f, s, log, n) /\ Replay(s, log) = f[n]
    BY <1>1, ReplayIsRun DEF n
<1>3. PICK g : Run(g, s, more, n + 1) /\ Replay(s, more) = g[n + 1]
    BY <1>1, ReplayIsRun
<1>4. g[n + 1] = ApplyWalEntry(g[n], e)
    BY <1>1, <1>3 DEF Run
<1>5. f[n] = g[n]
  <2>1. n <= n + 1 /\ n + 1 \in Nat
      BY <1>1
  <2>2. n \in Nat /\ \A i \in 1 .. n : log[i] = more[i]
      BY <1>1
  <2>3. Run(f, s, log, n) /\ Run(g, s, more, n + 1)
      BY <1>2, <1>3
  <2> HIDE DEF Run
  <2>4. QED BY <2>1, <2>2, <2>3, RunsAgree, Z3
<1>6. QED BY <1>2, <1>3, <1>4, <1>5 DEF more

(***************************************************************************)
(* The store's entries and their effect are those of the log.              *)
(***************************************************************************)
\* The state an empty installation starts from.
LEMMA SameDefault == Store!DefaultState = DefaultState
BY Zenon DEF DefaultState, NoGroups, EmptyTable,
             Store!DefaultState, Store!NoGroups, Store!EmptyTable

\* normalize_ports, of the durable store and of the log.
LEMMA SameNormalize == \A p : Store!Normalize(p) = Normalize(p)
<1>1. \A S : Store!Cardinality(S) = Cardinality(S)
    BY Zenon DEF Store!Cardinality, Cardinality
<1>2. \A s, entry : Store!InsertSorted(s, entry) = InsertSorted(s, entry)
    BY <1>1, Zenon DEF Store!InsertSorted, InsertSorted, Store!EntryBefore, EntryBefore
<1>3. \A p : Store!ParsePorts(p) = ParsePorts(p)
    BY Zenon DEF Store!ParsePorts, ParsePorts, Store!BpfAction, BpfAction
<1>4. QED BY <1>2, <1>3, Zenon DEF Store!Normalize, Normalize

\* apply_add_rule.
LEMMA SameAddRule ==
    ASSUME NEW t, NEW k, NEW a, NEW p
    PROVE  Store!ApplyAddRule(t, k, a, p) = ApplyAddRule(t, k, a, p)
<1>1. \A n : Store!AcquirePortSet(t, n) = AcquirePortSet(t, n)
    BY Zenon
       DEF Store!AcquirePortSet, Store!ReuseIdx, Store!PopIdx, Store!FreshIdx,
           Store!Insert, AcquirePortSet, ReuseIdx, PopIdx, FreshIdx, Insert
<1>2. \A u, old, new : Store!DropOldIdx(u, old, new) = DropOldIdx(u, old, new)
    BY ZenonT(40)
       DEF Store!DropOldIdx, Store!ReleasePortSet, Store!FreeSet, Store!LowerCount,
           Store!HasPortSet, Store!PortSetAt, Store!NoIdx, Store!Restrict,
           DropOldIdx, ReleasePortSet, FreeSet, LowerCount, HasPortSet,
           PortSetAt, NoIdx, Restrict
<1>3. \A u, rule : Store!PutRule(u, k, rule) = PutRule(u, k, rule)
    BY Zenon DEF Store!PutRule, Store!Insert, PutRule, Insert
<1>4. Store!IdxOf(t, k) = IdxOf(t, k) /\ Store!NoIdx = NoIdx /\ Store!AllPorts = AllPorts
    BY Zenon DEF Store!IdxOf, Store!NoIdx, Store!AllPorts, IdxOf, NoIdx, AllPorts
<1>5. QED BY SameNormalize, <1>1, <1>2, <1>3, <1>4, Zenon DEF Store!ApplyAddRule, ApplyAddRule

\* apply_wal_entry.
LEMMA SameApply ==
    ASSUME NEW s, NEW e
    PROVE  Store!ApplyWalEntry(s, e) = ApplyWalEntry(s, e)
<1>1. \A t, k, a, p : Store!ApplyAddRule(t, k, a, p) = ApplyAddRule(t, k, a, p)
    BY SameAddRule
<1>2. \A t, max, p : Store!AddRuleAccepts(t, max, p) <=> AddRuleAccepts(t, max, p)
    BY SameNormalize, Zenon
       DEF AddRuleAccepts, LimitReached, ValidPorts, AllPorts,
           Store!AddRuleAccepts, Store!LimitReached, Store!ValidPorts, Store!AllPorts
<1>3. QED
    BY <1>1, <1>2, Zenon
       DEF ApplyWalEntry, ApplyAddGroup, ApplyDeleteGroup, Given, Insert, Restrict,
           ApplyRemoveRule, RemoveKey, ReleasePortSet, FreeSet, LowerCount, IdxOf, HasPortSet,
           PortSetAt, NoIdx,
           Store!ApplyWalEntry, Store!ApplyAddGroup, Store!ApplyDeleteGroup, Store!Given,
           Store!Insert, Store!Restrict, Store!ApplyRemoveRule, Store!RemoveKey,
           Store!ReleasePortSet, Store!FreeSet, Store!LowerCount, Store!IdxOf,
           Store!HasPortSet, Store!PortSetAt, Store!NoIdx

\* The requests the handlers accept.
LEMMA SameAccepted ==
    ASSUME NEW s
    PROVE  Store!Accepted(s) = Accepted(s)
<1>1. Store!AddGroupEntries(s) = AddGroupEntries(s)
    BY Zenon DEF AddGroupEntries, ApplyAddGroup, Insert,
                 Store!AddGroupEntries, Store!ApplyAddGroup, Store!Insert
<1>2. Store!DeleteGroupEntries(s) = DeleteGroupEntries(s)
    BY Zenon DEF DeleteGroupEntries, InUse, Store!DeleteGroupEntries, Store!InUse
<1>3. /\ Store!RequestedRules(s) = RequestedRules(s)
      /\ Store!RequestedQos(s) = RequestedQos(s)
    BY Zenon
       DEF RequestedRules, RequestedQos, RuleKeyOf, ResolvedPolicies, GroupId, Resolves,
           QosGroupId, QosResolves,
           Store!RequestedRules, Store!RequestedQos, Store!RuleKeyOf, Store!ResolvedPolicies,
           Store!GroupId, Store!Resolves, Store!QosGroupId, Store!QosResolves
<1>4. \A p : Store!AddRuleAccepts(s.table, MaxPortPolicies, p)
              <=> AddRuleAccepts(s.table, MaxPortPolicies, p)
    BY SameNormalize, Zenon
       DEF AddRuleAccepts, LimitReached, ValidPorts, AllPorts,
           Store!AddRuleAccepts, Store!LimitReached, Store!ValidPorts, Store!AllPorts
<1>5. Store!AddRuleEntries(s) = AddRuleEntries(s)
    BY <1>3, <1>4 DEF AddRuleEntries, Store!AddRuleEntries
<1>6. /\ Store!RemoveRuleEntries(s) = RemoveRuleEntries(s)
      /\ Store!AddQosEntries(s) = AddQosEntries(s)
      /\ Store!DeleteQosEntries(s) = DeleteQosEntries(s)
      /\ Store!UpdateConfigEntries = UpdateConfigEntries
    BY <1>3 DEF RemoveRuleEntries, AddQosEntries, DeleteQosEntries, UpdateConfigEntries,
                Store!RemoveRuleEntries, Store!AddQosEntries, Store!DeleteQosEntries,
                Store!UpdateConfigEntries
<1>7. QED BY <1>1, <1>2, <1>5, <1>6, Zenon DEF Accepted, Store!Accepted

(***************************************************************************)
(* The inductive invariant: what is in memory is what a restart would make *)
(* of snapshot and log, and the writer is at the end of the log with       *)
(* nothing left in its buffer.                                             *)
(***************************************************************************)
IsLog(q) == \E S : q \in Seq(S)

InStep ==
    /\ IsLog(wal)
    /\ buffer = << >>
    /\ stage # "down" => offset = Len(wal)
    /\ stage \in {"up", "loaded"} => memory = LoadWithWal
    /\ stage = "renamed" => memory = snapshot

IInv ==
    /\ interrupted \in Nat
    /\ append_faults \in Nat
    /\ stage \in {"down", "loaded", "up", "renamed"}
    /\ Undisturbed => InStep

\* At the end of the log nothing is written over: the line is appended.
LEMMA LineAppended ==
    ASSUME IsLog(wal), buffer = << >>, offset = Len(wal), NEW e, WriteLines(Append(buffer, e))
    PROVE  /\ wal' = Append(wal, e) /\ IsLog(wal')
           /\ offset' = Len(wal')
           /\ Replay(snapshot, wal') = ApplyWalEntry(LoadWithWal, e)
<1>1. PICK S : wal \in Seq(S)
    BY DEF IsLog
<1>2. Append(buffer, e) = << e >>
    OBVIOUS
<1>3. SubSeq(wal, offset + 1, Len(wal)) = << >>
    BY <1>1
<1>4. SubSeq(wal, 1, offset) = wal
    BY <1>1
<1>5. wal' = wal \o << e >> \o SubSeq(<< >>, 1, 0)
    BY <1>2, <1>3, <1>4 DEF WriteLines
<1>6. wal \in Seq(S \cup {e}) /\ e \in S \cup {e}
    BY <1>1
<1>7. wal' = Append(wal, e)
    BY <1>5, <1>6
<1>8. wal' \in Seq(S \cup {e}) /\ Len(wal') = Len(wal) + 1
    BY <1>6, <1>7
<1>9. offset' = Len(wal')
    BY <1>2, <1>8 DEF WriteLines
<1>10. Replay(snapshot, wal') = ApplyWalEntry(LoadWithWal, e)
    BY <1>6, <1>7, ReplayAppend DEF LoadWithWal
<1>11. QED BY <1>7, <1>8, <1>9, <1>10 DEF IsLog

\* Interruptions and failing appends are counted, and not forgotten.
LEMMA StaysDisturbed ==
    ASSUME IInv, [Next]_vars
    PROVE  /\ interrupted' \in Nat /\ append_faults' \in Nat
           /\ Undisturbed' => Undisturbed /\ interrupted' = interrupted
                                         /\ append_faults' = append_faults
<1>1. interrupted' \in {interrupted, interrupted + 1}
    BY DEF Next, Handle, AppendEntry, AppendFails, CompactRename, CompactFails, CompactTruncate,
           CompactTruncateFails, Stop, Register, Interrupted, vars, boundVars, fileVars
<1>2. append_faults' \in {append_faults, append_faults + 1}
    BY DEF Next, Handle, AppendEntry, AppendFails, CompactRename, CompactFails, CompactTruncate,
           CompactTruncateFails, Stop, Register, Interrupted, vars, boundVars, fileVars
<1>3. QED BY <1>1, <1>2 DEF IInv, Undisturbed

\* The invariant holds at first.
LEMMA InitInv == Init => IInv
<1>1. SUFFICES ASSUME Init PROVE IInv
    OBVIOUS
<1>2. wal \in Seq({})
    BY <1>1 DEF Init
<1>3. LoadWithWal = DefaultState
    BY <1>1, ReplayNothing DEF Init, LoadWithWal
<1>4. QED BY <1>1, <1>2, <1>3 DEF Init, IInv, InStep, IsLog

\* Each step keeps it.
LEMMA StepInv == IInv /\ [Next]_vars => IInv'
<1>1. SUFFICES ASSUME IInv, [Next]_vars PROVE IInv'
    OBVIOUS
<1>2. stage' \in {"down", "loaded", "up", "renamed"}
    BY <1>1 DEF IInv, Next, Handle, CompactRename, CompactFails, CompactTruncate,
                CompactTruncateFails, Stop, Register, vars
<1>3. ASSUME Undisturbed' PROVE InStep'
    <2>1. /\ InStep /\ interrupted' = interrupted /\ append_faults' = append_faults
          /\ interrupted \in Nat /\ append_faults \in Nat
        BY <1>1, <1>3, StaysDisturbed DEF IInv
    <2>2. ASSUME NEW e \in Accepted(memory), Handle(e) PROVE InStep'
        <3>1. AppendEntry(e)
            BY <2>1, <2>2 DEF Handle, AppendFails
        <3>2. /\ IsLog(wal') /\ offset' = Len(wal')
              /\ Replay(snapshot, wal') = ApplyWalEntry(LoadWithWal, e)
            BY <2>1, <2>2, <3>1, LineAppended DEF InStep, Handle, AppendEntry
        <3>3. LoadWithWal' = memory'
            BY <2>1, <2>2, <3>2 DEF InStep, Handle, LoadWithWal
        <3>4. QED BY <2>2, <3>1, <3>2, <3>3 DEF InStep, Handle, AppendEntry
    <2>3. CASE CompactRename
        BY <2>1, <2>3 DEF InStep, CompactRename, fileVars
    <2>4. CASE CompactFails
        BY <2>1, <2>4 DEF InStep, CompactFails, fileVars, LoadWithWal
    <2>5. CASE CompactTruncate
        <3>1. wal' = << >> /\ offset' = Len(wal') /\ buffer' = << >>
            BY <2>1, <2>5 DEF InStep, CompactTruncate, Leftover
        <3>2. LoadWithWal' = memory'
            BY <2>1, <2>5, <3>1, ReplayNothing DEF InStep, CompactTruncate, LoadWithWal
        <3>3. wal' \in Seq({})
            BY <3>1
        <3>4. QED BY <2>5, <3>1, <3>2, <3>3 DEF InStep, CompactTruncate, IsLog
    <2>6. CASE CompactTruncateFails
        BY <2>1, <2>6 DEF CompactTruncateFails, Interrupted
    <2>7. CASE Stop
        <3>1. stage' = "down" /\ buffer' = << >> /\ wal' = wal
            BY <2>1, <2>7 DEF InStep, Stop
        <3>2. QED BY <2>1, <3>1 DEF InStep
    <2>8. CASE Register
        BY <2>1, <2>8 DEF InStep, Register, LoadWithWal
    <2>9. CASE UNCHANGED vars
        BY <2>1, <2>9 DEF InStep, vars, fileVars, LoadWithWal
    <2>10. QED BY <1>1, <2>2, <2>3, <2>4, <2>5, <2>6, <2>7, <2>8, <2>9 DEF Next
<1>4. QED BY <1>1, <1>2, <1>3, StaysDisturbed DEF IInv

\* While nothing fails half way, what is in memory is what a restart would
\* make of snapshot and log, at any time.
THEOREM Invariant == Spec => []IInv
<1>1. QED BY InitInv, StepInv, PTL DEF Spec

(***************************************************************************)
(* The refinement                                                          *)
(***************************************************************************)
LEMMA StoreInit == Init => Store!Init
<1>1. SUFFICES ASSUME Init PROVE stored = DefaultState
    BY SameDefault DEF Store!Init
<1>2. QED BY <1>1 DEF Init, stored

\* A handler's step is one request of the store; what the agent does to
\* files and stages, and what a crash and the next start do, cannot be seen.
LEMMA StoreStep ==
    ASSUME IInv, [Next]_vars, Undisturbed'
    PROVE  Store!Next \/ UNCHANGED stored
<1>1. /\ InStep /\ interrupted' = interrupted /\ append_faults' = append_faults
      /\ interrupted \in Nat
    BY StaysDisturbed DEF IInv
<1>2. ASSUME NEW e \in Accepted(memory), Handle(e) PROVE Store!Next
    <2>1. stored = memory /\ stored' = ApplyWalEntry(memory, e)
        BY <1>2 DEF Handle, stored
    <2>2. e \in Store!Accepted(stored) /\ stored' = Store!ApplyWalEntry(stored, e)
        BY <2>1, SameAccepted, SameApply
    <2>3. QED BY <2>2 DEF Store!Next, Store!Request
<1>3. CASE CompactRename
    BY <1>3 DEF CompactRename, stored
<1>4. CASE CompactFails
    BY <1>4 DEF CompactFails, stored
<1>5. CASE CompactTruncate
    BY <1>5 DEF CompactTruncate, stored
<1>6. CASE CompactTruncateFails
    BY <1>1, <1>6 DEF CompactTruncateFails, Interrupted
<1>7. CASE Stop
    <2>1. stage \in {"up", "loaded"} /\ stage' = "down" /\ wal' = wal /\ snapshot' = snapshot
        BY <1>1, <1>7 DEF InStep, Stop, Interrupted
    <2>2. stored' = LoadWithWal /\ stored = memory
        BY <2>1 DEF stored, LoadWithWal
    <2>3. QED BY <1>1, <2>1, <2>2 DEF InStep
<1>8. CASE Register
    BY <1>8 DEF Register, stored
<1>9. CASE UNCHANGED vars
    BY <1>9 DEF vars, fileVars, stored, LoadWithWal
<1>10. QED BY <1>2, <1>3, <1>4, <1>5, <1>6, <1>7, <1>8, <1>9 DEF Next

\* For any requests, and any number of crashes, restarts and compactions at
\* any point of a handler's work, an instance is a durable store until an
\* append fails or a compaction stops half way.
THEOREM Refinement == Spec => ImplementsDurableStore
<1>1. Init => Store!Init
    BY StoreInit
<1>2. IInv /\ [Next]_vars => [Undisturbed' => Store!Next \/ UNCHANGED stored]_vars
    BY StoreStep
<1>3. QED BY <1>1, <1>2, Invariant, PTL DEF Spec, ImplementsDurableStore
=============================================================================
