------------------------------ MODULE Recovery ------------------------------
(***************************************************************************)
(* How an instance comes to life and ends: what survives of it in          *)
(* state.json, in the log and in the pinned maps when the agent stops,     *)
(* crashes or reboots with the host, and what a start makes of that.       *)
(*                                                                         *)
(* A tap's instance is attached and detached by the netlink task           *)
(* (agent/src/tap_registry.rs, instance.rs), the standalone "system"       *)
(* instance by two requests (agent/src/system_manager.rs), next to the     *)
(* handlers (ControlPlane) and the compact task.  One attach, detach,      *)
(* start or stop runs at a time: op says how far it is.  Their steps on    *)
(* state.json (core/src/state.rs, StateManager::with_state) take no lock   *)
(* of the instance and are interleaved with everything else.               *)
(*                                                                         *)
(* A handler is two steps here: what it does to memory and kernel, and the *)
(* append of its entry.  It keeps the instance it began with, so that the  *)
(* append may come after the instance is removed, or registered anew.  Its *)
(* kernel calls succeed.  The log's own faults are the subject of Wal: an  *)
(* append and a compaction are one step each.  What two writers of the     *)
(* same log make of it is part of this module.                             *)
(*                                                                         *)
(* The operators named ...Mutant are mistakes in the operator that follows *)
(* them, kept to see that the properties notice them.                      *)
(***************************************************************************)
EXTENDS WalEntries

CONSTANTS NumCpus,   \* the CPUs online
          MaxLog,    \* bound: entries in the log
          MaxItems,  \* bound: groups, rules, QoS rules and changed switches in memory
          RequestsAfterLoss   \* bound: FALSE if a life that has lost something takes no more

ASSUME LimitAssumption == MaxPortPolicies \in Nat
ASSUME BoundsAssumption == MaxGroupId \in Nat /\ MaxLog \in Nat
ASSUME PoliciesAssumption == IsFiniteSet(PolicyRequests)
ASSUME TextsAssumption == PortTexts \subseteq Seq(Nat \X Nat \X Nat)
ASSUME SwitchesAssumption ==
    \A r \in ConfigRequests : r[1] \subseteq BOOLEAN /\ r[2] \subseteq BOOLEAN

VARIABLES
    standalone,     \* the system instance, not a tap's
    directory, table, qos_rules, flags,
    POLICY_TABLE, PORT_BITMAP_POOL, SRC_TRIE, DST_TRIE, QOS_CONFIG, FIREWALL_CONFIG,
    pinned,         \* what the pin directory holds, see below
    snapshot,       \* state.json: << >> if there is none or it is empty
    wal,            \* state.wal
    registered,     \* the control plane has the instance
    writer,         \* the place in the log of the instance's WalWriter, see below
    late_writer,    \* the same of the instance that was removed
    pending,        \* the entry a handler has yet to append
    late,           \* the same of a handler whose instance was removed
    op,             \* the operation of the life cycle under way
    rewrite,        \* how far its with_state is
    read,           \* the state with_state has read
    promised,       \* what the acknowledged requests have led to
    mishaps         \* what has gone wrong since, see below

memoryVars == << directory, table, qos_rules, flags >>
kernelVars == << POLICY_TABLE, PORT_BITMAP_POOL, SRC_TRIE, DST_TRIE, QOS_CONFIG, FIREWALL_CONFIG >>
diskVars == << snapshot, wal, writer, late_writer >>
opVars == << op, rewrite, read >>
historyVars == << promised, mishaps >>
vars == << standalone, memoryVars, kernelVars, pinned, diskVars, registered, pending, late, opVars,
           historyVars >>

\* "none"   no pins
\* "all"    the XDP link, and the maps its program reads
\* "maps"   maps and programs, the link having been removed
\* "stale"  a link, and maps that are not those its program reads
Linked == pinned \in {"all", "stale"}

\* No kernel call fails, and no read (TLC takes no constant FALSE here).
Handlers == INSTANCE ControlPlane WITH faults <- 0, MaxFaults <- 0, misread <- ~TRUE

Memory == [directory |-> directory, table |-> table, qos_rules |-> qos_rules, flags |-> flags]
MemoryBecomes(s) == /\ directory' = s.directory
                    /\ table' = s.table
                    /\ qos_rules' = s.qos_rules
                    /\ flags' = s.flags

MapsEmptied == /\ POLICY_TABLE' = << >>
               /\ PORT_BITMAP_POOL' = << >>
               /\ SRC_TRIE' = << >>
               /\ DST_TRIE' = << >>
               /\ QOS_CONFIG' = << >>
               /\ FIREWALL_CONFIG' = << >>

\* Nothing on disk, nothing pinned, the agent has not started the instance.
Init ==
    /\ standalone \in BOOLEAN
    /\ Handlers!Init
    /\ pinned = "none"
    /\ snapshot = << >>
    /\ wal = << >>
    /\ registered = FALSE
    /\ writer = "opened"
    /\ late_writer = "opened"
    /\ pending = << >>
    /\ late = << >>
    /\ op = "idle"
    /\ rewrite = "none"
    /\ read = DefaultState
    /\ promised = DefaultState
    /\ mishaps = {}

\* "lost"    state.json or the log lost something acknowledged, not yet noticed
\* "missed"  the log has a line of a handler that kept the instance before
\* "torn"    the pinned maps have what was never acknowledged, or was lost
\* "behind"  the maps miss what replay_state did not find in state.json
Note(gone, new) == mishaps' = (mishaps \ gone) \cup new
When(condition, what) == IF condition THEN {what} ELSE {}

-----------------------------------------------------------------------------
(***************************************************************************)
(* Requests                                                                *)
(***************************************************************************)
Handled(e) == pending' = << e >>

AddGroup(r) == /\ Handlers!AddGroup(r[1], r[2])
               /\ Handled([op |-> "AddGroup", name |-> r[1], cidr |-> r[2]])
DeleteGroup(r) == /\ Handlers!DeleteGroup(r[1])
                  /\ Handled([op |-> "DeleteGroup", name |-> r[1]])
\* All policies have the action 0 here.
AddPolicy(r, p) == /\ Handlers!AddPolicy(r, 0, p)
                   /\ Handled([op |-> "AddRule", key |-> Handlers!PolicyKey(r),
                               action |-> 0, ports |-> p])
DeletePolicy(r) == /\ Handlers!DeletePolicy(r)
                   /\ Handled([op |-> "RemoveRule", key |-> Handlers!PolicyKey(r)])
AddQos(r, rate) == /\ Handlers!AddQos(r[1], r[2], rate)
                   /\ Handled([op |-> "AddQos", rate |-> rate,
                               key |-> << Handlers!QosGroupId(r[1]), r[2] >>])
DeleteQos(r) == /\ Handlers!DeleteQos(r[1], r[2])
                /\ Handled([op |-> "DeleteQos", key |-> << Handlers!QosGroupId(r[1]), r[2] >>])
UpdateConfig(r) == /\ Handlers!UpdateConfig(r[1], r[2])
                   /\ Handled([op |-> "UpdateConfig", conntrack |-> r[1], monitoring |-> r[2]])

\* Bound: what counts for MaxItems.  A QoS rule is in two maps.
Items(s) == Cardinality(DOMAIN s.directory.groups) + Cardinality(DOMAIN s.table.rules)
            + 2 * Cardinality(DOMAIN s.qos_rules)
            + Cardinality({x \in DOMAIN s.flags : s.flags[x] # DefaultState.flags[x]})

\* A handler up to its append: it needs an instance and the pinned program.
Handle ==
    /\ registered
    /\ pinned # "none"
    /\ pending = << >>
    /\ Len(wal) < MaxLog
    /\ RequestsAfterLoss \/ "lost" \notin mishaps
    /\ \/ \E r \in GroupRequests : AddGroup(r) \/ DeleteGroup(r)
       \/ \E r \in PolicyRequests, p \in PortTexts : AddPolicy(r, p)
       \/ \E r \in PolicyRequests : DeletePolicy(r)
       \/ \E r \in QosRequests, rate \in Rates : AddQos(r, rate)
       \/ \E r \in QosRequests : DeleteQos(r)
       \/ \E r \in ConfigRequests : UpdateConfig(r)
    /\ Items(Memory') <= MaxItems
    /\ UNCHANGED << standalone, pinned, diskVars, registered, late, opVars, historyVars >>

\* "opened"     at the end of the log, wherever that is; nothing appended
\* "appended"   at the end of the log; has appended
\* "truncated"  at the start, since its compaction; nothing written
\* "own"        behind its own lines, which are all of the log
\* "adrift"     where its own lines ended before another writer wrote among
\*              them or truncated them
\* WalWriter::open asks for the append mode, the reopening that truncates
\* does not.
HasEntries(w) == w \in {"appended", "own", "adrift"}
AfterWrite(w) == CASE w \in {"opened", "appended"}     -> "appended"
                   [] w = "truncated" /\ wal # << >> -> "adrift"
                   [] w = "truncated" /\ wal = << >> -> "own"
                   [] OTHER                          -> w
AfterOther(w) == IF w = "own" THEN "adrift" ELSE w

\* A line put behind the first n falls on at least one other unless it is
\* the last.  Those it falls on are gone: what is left of one does not parse.
WrittenAt(n, line) ==
    {SubSeq(wal, 1, n) \o line \o SubSeq(wal, hit + 1, Len(wal)) :
        hit \in {h \in n .. Len(wal) : h = n => n = Len(wal)}}

\* What a writer may make of the log.  Adrift, it may also fall into a line,
\* or beyond the end, and what it writes does not parse.  (Should another
\* fill the gap before it to the byte, it would parse again.  Not modelled.)
WrittenBy(w, line) ==
    CASE w = "truncated" -> WrittenAt(0, line)
      [] w = "adrift"    -> (UNION {WrittenAt(n, line) : n \in 1 .. Len(wal)})
                            \cup (UNION {WrittenAt(n, << Corrupt >>) : n \in 0 .. Len(wal)})
      [] OTHER           -> {wal \o line}

\* The entry is in the log and the request is answered.
Acknowledge ==
    /\ pending # << >>
    /\ wal' \in WrittenBy(writer, pending)
    /\ writer' = AfterWrite(writer)
    /\ late_writer' = AfterOther(late_writer)
    /\ pending' = << >>
    /\ promised' = Replay(promised, pending)
    /\ Note({}, When(wal' # wal \o pending, "lost"))
    /\ UNCHANGED << standalone, memoryVars, kernelVars, pinned, snapshot, registered, late, opVars >>

\* The writer of the instance that was removed writes to the same file.  An
\* instance that has read the log and not yet opened it will truncate it.
AcknowledgeLate ==
    /\ late # << >>
    /\ Len(wal \o pending) < MaxLog
    /\ wal' \in WrittenBy(late_writer, late)
    /\ writer' = AfterOther(writer)
    /\ late_writer' = "opened"
    /\ late' = << >>
    /\ promised' = Replay(promised, late)
    /\ Note({}, When(wal' # wal \o late \/ op = "open", "lost")
                \cup When(registered, "missed") \cup When(op = "register", "behind"))
    /\ UNCHANGED << standalone, memoryVars, kernelVars, pinned, snapshot, registered, pending,
                    opVars >>

-----------------------------------------------------------------------------
(***************************************************************************)
(* Snapshots                                                               *)
(***************************************************************************)
Saved == IF snapshot = << >> THEN DefaultState ELSE snapshot[1]

\* do_compact.  Its rename puts a new file in the place of the one a
\* with_state may have truncated, whose write then goes nowhere.
CompactTo(s) ==
    /\ snapshot' = << s >>
    /\ wal' = << >>
    /\ rewrite' = IF rewrite = "truncated" THEN "unlinked" ELSE rewrite
    /\ writer' = "truncated"
    /\ late_writer' = AfterOther(late_writer)

CompactMemory ==
    /\ CompactTo(Memory)
    /\ Note({"lost"}, When(rewrite = "read" \/ "missed" \in mishaps, "lost"))

Compact ==
    /\ registered
    /\ pending = << >>
    /\ HasEntries(writer)
    /\ CompactMemory
    /\ UNCHANGED << standalone, memoryVars, kernelVars, pinned, registered, pending, late, op, read,
                    promised >>

\* StateManager::with_state, on behalf of the operation o.  The fields it
\* changes, the limit and the name of the interface, are not modelled.
BeginRewrite(o) == /\ op' = o
                   /\ rewrite' = "read"
                   /\ read' = Saved

Truncate ==
    /\ rewrite = "read"
    /\ rewrite' = "truncated"
    /\ snapshot' = << >>
    /\ UNCHANGED << standalone, memoryVars, kernelVars, pinned, wal, writer, late_writer, registered,
                    pending, late, op, read, historyVars >>

\* What follows the operation's with_state.
After == [limit |-> "attach", iface |-> "replay", clear |-> "remove"]

WriteBack ==
    /\ rewrite \in {"truncated", "unlinked"}
    /\ snapshot' = IF rewrite = "truncated" THEN << read >> ELSE snapshot
    /\ op' = After[op]
    /\ rewrite' = "none"
    /\ read' = DefaultState
    /\ UNCHANGED << standalone, memoryVars, kernelVars, pinned, wal, writer, late_writer, registered,
                    pending, late, historyVars >>

-----------------------------------------------------------------------------
(***************************************************************************)
(* Attach and system start                                                 *)
(***************************************************************************)

\* set_max_port_policies.  An attached tap is skipped; a system start asks
\* nobody whether the instance is running.
Start ==
    /\ op = "idle"
    /\ standalone \/ ~registered
    /\ BeginRewrite("limit")
    /\ UNCHANGED << standalone, memoryVars, kernelVars, pinned, diskVars, registered, pending, late,
                    historyVars >>

\* The system's program cannot be attached to an interface that has one.
\* A tap that has its pins keeps them: its replay goes to maps of a program
\* that is loaded for it and dropped again.
AttachFound ==
    /\ op = "attach"
    /\ Linked
    /\ op' = IF standalone THEN "idle" ELSE "register"
    /\ Note({}, When(~standalone /\ "lost" \in mishaps, "torn")
                \cup When(~standalone /\ "missed" \in mishaps, "behind"))
    /\ UNCHANGED << standalone, memoryVars, kernelVars, pinned, diskVars, registered, pending, late,
                    rewrite, read, promised >>

\* The program is attached, with empty maps, and they are pinned.
AttachNew ==
    /\ op = "attach"
    /\ pinned = "none"
    /\ pinned' = "all"
    /\ IF standalone THEN BeginRewrite("iface")
       ELSE op' = "replay" /\ UNCHANGED << rewrite, read >>
    /\ Note({"torn"}, {"behind"})
    /\ UNCHANGED << standalone, memoryVars, kernelVars, diskVars, registered, pending, late,
                    promised >>

\* The maps of the new program cannot take the place of those a removal that
\* was cut left behind.  A tap goes on, the system gives up at its programs.
AttachBeside ==
    /\ op = "attach"
    /\ pinned = "maps"
    /\ pinned' = "stale"
    /\ op' = IF standalone THEN "idle" ELSE "replay"
    /\ UNCHANGED << standalone, memoryVars, kernelVars, diskVars, registered, pending, late,
                    rewrite, read, historyVars >>

\* A CIDR that several groups have goes to the one the hash map yields last.
TrieOf(groups, owner) == [c \in DOMAIN owner |-> groups[owner[c]].id]
Owners(groups) ==
    {owner \in [UNION {groups[n].cidrs : n \in DOMAIN groups} -> DOMAIN groups] :
        \A c \in DOMAIN owner : c \in groups[owner[c]].cidrs}

\* The first rule of each index, in an order the model leaves open, writes
\* its ports; first maps the indices to rules.
PoolOfMutant(rules, first) ==
    [key \in UNION {{i} \X PortsOf(rules[first[i]].ports) : i \in DOMAIN first} |->
        2 - Meaning(rules[first[key[1]]].ports)[key[2]]]
PoolOf(rules, first) ==
    [key \in UNION {{i} \X PortsOf(rules[first[i]].ports) : i \in DOMAIN first} |->
        Meaning(rules[first[key[1]]].ports)[key[2]]]
FirstRules(rules) ==
    LET used == {rules[k].bitmap_idx : k \in DOMAIN rules} \ {NoIdx}
    IN  {first \in [used -> DOMAIN rules] : \A i \in used : rules[first[i]].bitmap_idx = i}

PoliciesOf(rules) == [k \in DOMAIN rules |-> Handlers!PolicyValue(rules[k])]

ConfigOfMutant(s) == Insert(<< >>, 0, [conntrack  |-> s.flags.conntrack,
                                       monitoring |-> s.flags.monitoring,
                                       num_cpus   |-> NumCpus,
                                       qos        |-> FALSE])
ConfigOf(s) == Insert(<< >>, 0, [conntrack  |-> s.flags.conntrack,
                                 monitoring |-> s.flags.monitoring,
                                 num_cpus   |-> NumCpus,
                                 qos        |-> DOMAIN s.qos_rules # {}])

NothingToReplay(s) == /\ DOMAIN s.directory.groups = {}
                      /\ DOMAIN s.table.rules = {}
                      /\ DOMAIN s.qos_rules = {}

\* replay_state: state.json, without the log, into the maps just created,
\* which only the program sees when others are pinned.
ReplayState ==
    /\ op = "replay"
    /\ op' = "register"
    /\ IF NothingToReplay(Saved) \/ pinned = "stale" THEN UNCHANGED kernelVars
       ELSE /\ \E owner \in Owners(Saved.directory.groups) :
                  /\ SRC_TRIE' = TrieOf(Saved.directory.groups, owner)
                  /\ DST_TRIE' = TrieOf(Saved.directory.groups, owner)
            /\ \E first \in FirstRules(Saved.table.rules) :
                  PORT_BITMAP_POOL' = PoolOf(Saved.table.rules, first)
            /\ POLICY_TABLE' = PoliciesOf(Saved.table.rules)
            /\ QOS_CONFIG' = Saved.qos_rules
            /\ FIREWALL_CONFIG' = ConfigOf(Saved)
    /\ Note({"behind"}, When(\/ wal # << >>
                             \/ NothingToReplay(Saved) /\ Saved.flags # DefaultState.flags,
                             "behind"))
    /\ UNCHANGED << standalone, memoryVars, pinned, diskVars, registered, pending, late, rewrite,
                    read, promised >>

\* Bound: a replay hands out no more ids than the handlers may.
IdsLeft(s) == s.directory.next_group_id <= MaxGroupId + 1

\* register_instance, register_system_instance: load_with_wal reads snapshot
\* and log,
LoadWithWalMutant ==
    /\ op = "register"
    /\ read' = Saved
    /\ op' = "open"
    /\ UNCHANGED << standalone, memoryVars, kernelVars, pinned, diskVars, registered, pending, late,
                    rewrite, historyVars >>
LoadWithWal ==
    /\ op = "register"
    /\ IdsLeft(Replay(Saved, wal))
    /\ read' = Replay(Saved, wal)
    /\ op' = "open"
    /\ UNCHANGED << standalone, memoryVars, kernelVars, pinned, diskVars, registered, pending, late,
                    rewrite, historyVars >>

\* and WalWriter::open finds the lines that are to be compacted.  From here
\* on what was read is the state to keep.
Register ==
    /\ op = "open"
    /\ MemoryBecomes(read)
    /\ promised' = read
    /\ IF wal = << >> THEN UNCHANGED << diskVars, rewrite >> ELSE CompactTo(read)
    /\ Note({"lost", "missed"}, {})
    /\ registered' = TRUE
    /\ op' = "idle"
    /\ read' = DefaultState
    /\ UNCHANGED << standalone, kernelVars, pinned, pending, late >>

-----------------------------------------------------------------------------
(***************************************************************************)
(* Detach and system stop                                                  *)
(***************************************************************************)

\* system_stop removes the link and clears the recorded interface if there
\* is one; it asks nobody whether the instance is running.  Only a registered
\* tap is detached, unregistered first.
Stop ==
    /\ op = "idle"
    /\ IF standalone THEN op' \in {"unlink", "remove"}
       ELSE registered /\ op' = "unregister"
    /\ UNCHANGED << standalone, memoryVars, kernelVars, pinned, diskVars, registered, pending, late,
                    rewrite, read, historyVars >>

RemoveLink ==
    /\ op = "unlink"
    /\ pinned' = IF Linked THEN "maps" ELSE pinned
    /\ IF standalone THEN BeginRewrite("clear")
       ELSE op' = "remove" /\ UNCHANGED << rewrite, read >>
    /\ UNCHANGED << standalone, memoryVars, kernelVars, diskVars, registered, pending, late,
                    historyVars >>

RemovePins ==
    /\ op = "remove"
    /\ pinned' = "none"
    /\ MapsEmptied
    /\ op' = IF standalone THEN "unregister" ELSE "idle"
    /\ UNCHANGED << standalone, memoryVars, diskVars, registered, pending, late, rewrite, read,
                    historyVars >>

\* unregister_instance compacts what is registered, waiting for its handler.
Unregister ==
    /\ op = "unregister"
    /\ pending = << >>
    /\ IF registered /\ HasEntries(writer) THEN CompactMemory
       ELSE UNCHANGED << diskVars, rewrite, mishaps >>
    /\ op' = "forget"
    /\ UNCHANGED << standalone, memoryVars, kernelVars, pinned, registered, pending, late, read,
                    promised >>

\* It does not wait for one that has begun since.  Bound: the one that was
\* late in the life before has finished.
Forget ==
    /\ op = "forget"
    /\ late = << >>
    /\ late' = pending
    /\ late_writer' = IF pending = << >> THEN "opened" ELSE writer
    /\ pending' = << >>
    /\ writer' = "opened"
    /\ registered' = FALSE
    /\ MemoryBecomes(DefaultState)
    /\ op' = IF standalone THEN "idle" ELSE "unlink"
    /\ UNCHANGED << standalone, kernelVars, pinned, snapshot, wal, rewrite, read, historyVars >>

\* The interface went while the agent was down: cleanup_orphaned_pins.
CleanUp ==
    /\ op = "idle"
    /\ ~standalone /\ ~registered /\ pinned # "none"
    /\ pinned' = "none"
    /\ MapsEmptied
    /\ UNCHANGED << standalone, memoryVars, diskVars, registered, pending, late, opVars,
                    historyVars >>

-----------------------------------------------------------------------------
(***************************************************************************)
(* The end of the agent                                                    *)
(***************************************************************************)

\* A signal: compact_all.  The system instance keeps its pins; taps are
\* detached afterwards.
Shutdown ==
    /\ op = "idle"
    /\ standalone
    /\ registered
    /\ pending = << >>
    /\ IF HasEntries(writer)
       THEN /\ snapshot' = << Memory >>
            /\ wal' = << >>
            /\ Note({"lost"}, When("missed" \in mishaps, "lost"))
       ELSE UNCHANGED << snapshot, wal, mishaps >>
    /\ registered' = FALSE
    /\ writer' = "opened"
    /\ MemoryBecomes(DefaultState)
    /\ UNCHANGED << standalone, kernelVars, pinned, late_writer, pending, late, opVars, promised >>

AgentGone ==
    /\ registered \/ op # "idle"
    /\ registered' = FALSE
    /\ MemoryBecomes(DefaultState)
    /\ pending' = << >>
    /\ late' = << >>
    /\ writer' = "opened"
    /\ late_writer' = "opened"
    /\ op' = "idle"
    /\ rewrite' = "none"
    /\ read' = DefaultState

Crash ==
    /\ AgentGone
    /\ Note({}, When(pending # << >> \/ (late # << >> /\ op \in {"unlink", "remove"}), "torn")
                \cup When(rewrite = "truncated", "lost"))
    /\ UNCHANGED << standalone, kernelVars, pinned, snapshot, wal, promised >>

\* The host goes down in an orderly way as far as its disk is concerned.
Reboot ==
    /\ AgentGone
    /\ pinned' = "none"
    /\ MapsEmptied
    /\ Note({}, When(rewrite = "truncated", "lost"))
    /\ UNCHANGED << standalone, snapshot, wal, promised >>

Next ==
    \/ Handle \/ Acknowledge \/ AcknowledgeLate \/ Compact
    \/ Start \/ Truncate \/ WriteBack
    \/ AttachFound \/ AttachNew \/ AttachBeside \/ ReplayState \/ LoadWithWal \/ Register
    \/ Stop \/ RemoveLink \/ RemovePins \/ Unregister \/ Forget \/ CleanUp
    \/ Shutdown \/ Crash \/ Reboot

Spec == Init /\ [][Next]_vars
-----------------------------------------------------------------------------
(***************************************************************************)
(* Properties                                                              *)
(***************************************************************************)
TypeOK ==
    /\ Handlers!TypeOK
    /\ op \in {"idle", "limit", "attach", "iface", "replay", "register", "open", "unlink",
               "clear", "remove", "unregister", "forget"}
    /\ pinned \in {"none", "all", "maps", "stale"}
    /\ rewrite \in {"none", "read", "truncated", "unlinked"}
    /\ rewrite # "none" <=> op \in DOMAIN After
    /\ {writer, late_writer} \subseteq {"opened", "appended", "truncated", "own", "adrift"}
    /\ mishaps \subseteq {"lost", "missed", "torn", "behind"}
    /\ Len(snapshot) <= 1 /\ Len(pending) <= 1 /\ Len(late) <= 1 /\ Len(wal) <= MaxLog

\* A start brings back what the requests acknowledged before it have led to.
Restores == registered' /\ ~registered => Memory' = promised
RestartKeepsState == [][Restores]_vars

\* Restarts, crashes, reboots, stops and starts, in any order and wherever
\* they cut a handler or each other, keep what was acknowledged: all that
\* endangers it is a with_state that a crash stops after its truncation, or
\* that reads before a compaction and writes after it, and a handler of an
\* instance that was removed, when another one took its place before the
\* entry was appended: the later one does not know of the entry and compacts
\* without it, or the two writers put their lines over each other's.
OnlyMishapsForget == []["lost" \notin mishaps => Restores]_vars

\* The kernel enforces what a running instance lists.
ListedIsEnforced ==
    registered /\ Linked /\ pending = << >> =>
        /\ pinned = "all"
        /\ Handlers!KernelHasTheRules
        /\ Handlers!LivePortsWritten
        /\ Handlers!TriesNameOwners
        /\ Handlers!QosInForce
        /\ Handlers!SwitchesInForce

\* The maps an instance finds or replays enforce all of its state, although
\* replay_state reads the snapshot alone: what it may miss is a log that was
\* not compacted, a line appended since, or switches without any group, rule
\* or QoS rule; what it may find too much is one request the crash cut.
\* They are no use only beside maps that a cut removal left.
OnlyMishapsUnenforced ==
    pinned # "stale" /\ mishaps \cap {"torn", "behind"} = {} => ListedIsEnforced
=============================================================================
