-------------------------------- MODULE Wal --------------------------------
(***************************************************************************)
(* The persistence of one instance: the snapshot state.json, the log       *)
(* state.wal and the buffered writer in front of it (core/src/wal.rs,      *)
(* WalWriter), as the handlers and the compact task of                     *)
(* agent/src/control_plane.rs use them, and crashes of the agent.          *)
(*                                                                         *)
(* A handler changes the state in memory, appends its entry and answers,   *)
(* all under the instance's lock; a crash in between loses what only       *)
(* memory has, like a crash before the request, so a handler is one step.  *)
(* compact writes, syncs and renames the snapshot, which replaces it in    *)
(* one step, and then truncates the log in another.                        *)
(*                                                                         *)
(* The log has one writer here.  A handler that outlives its instance and  *)
(* writes beside its successor is in Recovery.                             *)
(***************************************************************************)
EXTENDS WalEntries

CONSTANTS MaxLog,          \* bound: entries in the log and the buffer
          MaxInterrupted,  \* bound: compactions that stop before the truncation
          MaxAppendFaults  \* bound: appends whose flush fails

VARIABLES
    memory,       \* the FirewallState in the agent
    snapshot,     \* the one in state.json, the default if there is no file
    wal,          \* the lines of state.wal
    buffer,       \* lines BufWriter could not flush yet
    offset,       \* lines before the position of the next write
    appending,    \* the file was opened in append mode
    entry_count,
    stage,        \* "down", "loaded", "up", or "renamed" within compact
    interrupted, append_faults

fileVars == << wal, buffer, offset, appending, entry_count >>
boundVars == << interrupted, append_faults >>
vars == << memory, snapshot, fileVars, stage, boundVars >>

\* A new instance: no file yet, a log just created.
Init ==
    /\ memory = DefaultState
    /\ snapshot = DefaultState
    /\ wal = << >>
    /\ buffer = << >>
    /\ offset = 0
    /\ appending = TRUE
    /\ entry_count = 0
    /\ stage = "up"
    /\ interrupted = 0
    /\ append_faults = 0

\* The operators named ...Mutant are mistakes in the operator that follows
\* them, kept to see that the properties notice them.
LoadWithWalMutant == Replay(DefaultState, wal)
LoadWithWal == Replay(snapshot, wal)

-----------------------------------------------------------------------------
\* Lines written at the current position.  Lines already there are written
\* over; what is left of the last one hit no longer parses, which to a load
\* is as good as no line.
WriteLines(lines) ==
    LET rest == SubSeq(wal, offset + 1, Len(wal))
    IN  /\ \E hit \in (IF rest = << >> THEN {0} ELSE 1 .. Len(rest)) :
              wal' = SubSeq(wal, 1, offset) \o lines \o SubSeq(rest, hit + 1, Len(rest))
        /\ offset' = offset + Len(lines)

\* WalWriter::append.  The flush also writes what earlier ones could not.
AppendEntryMutant(e) ==
    /\ WriteLines(<< e >> \o buffer)
    /\ buffer' = << >>
    /\ entry_count' = entry_count + 1
    /\ UNCHANGED << appending, append_faults >>
AppendEntry(e) ==
    /\ WriteLines(Append(buffer, e))
    /\ buffer' = << >>
    /\ entry_count' = entry_count + 1
    /\ UNCHANGED << appending, append_faults >>

\* The line stays in the buffer, and the caller only logs the error.
AppendFails(e) ==
    /\ append_faults < MaxAppendFaults
    /\ append_faults' = append_faults + 1
    /\ buffer' = Append(buffer, e)
    /\ UNCHANGED << wal, offset, appending, entry_count >>

\* A handler of the control plane.
Handle(e) ==
    /\ stage = "up"
    /\ Len(wal) + Len(buffer) < MaxLog
    /\ memory' = ApplyWalEntry(memory, e)
    /\ AppendEntry(e) \/ AppendFails(e)
    /\ UNCHANGED << snapshot, stage, interrupted >>

-----------------------------------------------------------------------------
\* do_compact, on the timer or the threshold, at shutdown and before a
\* registration: only when there are entries.  register_instance does the
\* same with a log it has just replayed.  (It would first compact an instance
\* that is registered already; the registry asks it for none of those.)
CompactRename ==
    /\ stage \in {"up", "loaded"}
    /\ entry_count > 0
    /\ snapshot' = memory
    /\ stage' = "renamed"
    /\ UNCHANGED << memory, fileVars, boundVars >>

\* The write of the snapshot fails: only logged.
CompactFails ==
    /\ stage = "loaded"
    /\ stage' = "up"
    /\ UNCHANGED << memory, snapshot, fileVars, boundVars >>

\* What the old writer's drop flushes into the truncated file: its buffer,
\* at the end of the file in append mode.  Otherwise at the old position,
\* behind a hole that spoils the first line.
Leftover ==
    IF buffer = << >> \/ appending \/ offset = 0 THEN buffer
    ELSE << Corrupt >> \o Tail(buffer)

\* The file is truncated and opened anew, not in append mode.
CompactTruncate ==
    /\ stage = "renamed"
    /\ wal' \in {<< >>, Leftover}
    /\ buffer' = << >>
    /\ offset' = 0
    /\ appending' = FALSE
    /\ entry_count' = 0
    /\ stage' = "up"
    /\ UNCHANGED << memory, snapshot, boundVars >>

Interrupted == /\ stage = "renamed"
               /\ interrupted < MaxInterrupted
               /\ interrupted' = interrupted + 1

\* The log cannot be opened for the truncation: only logged.
CompactTruncateFails ==
    /\ Interrupted
    /\ stage' = "up"
    /\ UNCHANGED << memory, snapshot, fileVars, append_faults >>

-----------------------------------------------------------------------------
\* The agent crashes, or the instance is unregistered and its writer's drop
\* flushes the buffer.  The files stay.
Stop ==
    /\ \/ stage \in {"up", "loaded"} /\ UNCHANGED interrupted
       \/ Interrupted
    /\ \/ UNCHANGED << wal, offset >>
       \/ stage = "up" /\ buffer # << >> /\ WriteLines(buffer)
    /\ stage' = "down"
    /\ memory' = DefaultState
    /\ buffer' = << >>
    /\ UNCHANGED << snapshot, appending, entry_count, append_faults >>

\* register_instance: load_with_wal and WalWriter::open.
RegisterMutant ==
    /\ stage = "down"
    /\ memory' = LoadWithWal
    /\ offset' = 0
    /\ appending' = FALSE
    /\ entry_count' = Len(wal)
    /\ stage' = IF entry_count' > 0 THEN "loaded" ELSE "up"
    /\ UNCHANGED << snapshot, wal, buffer, boundVars >>
Register ==
    /\ stage = "down"
    /\ memory' = LoadWithWal
    /\ offset' = Len(wal)
    /\ appending' = TRUE
    /\ entry_count' = Len(wal)
    /\ stage' = IF entry_count' > 0 THEN "loaded" ELSE "up"
    /\ UNCHANGED << snapshot, wal, buffer, boundVars >>

Next ==
    \/ \E e \in Accepted(memory) : Handle(e)
    \/ CompactRename
    \/ CompactFails
    \/ CompactTruncate
    \/ CompactTruncateFails
    \/ Stop
    \/ Register

Spec == Init /\ [][Next]_vars
-----------------------------------------------------------------------------
(***************************************************************************)
(* Properties                                                              *)
(***************************************************************************)

\* To its users the instance is a DurableStore: what a request has done is
\* there after every crash, and nothing else is, wherever the crash came and
\* however many restarts and compactions followed; at least until an append
\* fails or a compaction stops half way.
stored == IF stage = "down" THEN LoadWithWal ELSE memory

Store == INSTANCE DurableStore WITH state <- stored

Undisturbed == interrupted = 0 /\ append_faults = 0

ImplementsDurableStore ==
    Store!Init /\ [][Undisturbed' => Store!Next \/ UNCHANGED stored]_vars

\* The part of a state that requests name: all but group ids, indices of port
\* sets and counters.
Contents(s) ==
    [groups |-> [n \in DOMAIN s.directory.groups |-> s.directory.groups[n].cidrs],
     rules  |-> [k \in DOMAIN s.table.rules |->
                    << s.table.rules[k].action, s.table.rules[k].ports >>],
     qos    |-> s.qos_rules,
     flags  |-> s.flags]

\* Entries replayed over a snapshot that has them already, as after a compact
\* that stopped before the truncation or a writer dropped with lines in its
\* buffer, bring back the same groups, rules, QoS rules and switches: no
\* entry revives what a later one deleted, and no limit refuses an old rule.
ReplayTwiceKeepsContents ==
    stage \in {"up", "renamed"} => Contents(Replay(snapshot, wal \o buffer)) = Contents(memory)

\* Between compactions the log holds each operation acknowledged since the
\* snapshot: a restart would restore exactly what memory has.
AcknowledgedIsLogged == stage = "up" => LoadWithWal = memory

\* A completed compaction leaves an empty log.
CompactEmptiesLog == stage = "up" /\ ~appending /\ entry_count = 0 => wal = << >>

\* Rules and QoS rules refer to groups that exist, also in a state that has
\* been recovered.
RecoveredRulesResolve ==
    LET ids == {memory.directory.groups[n].id : n \in DOMAIN memory.directory.groups} \cup {0}
    IN  /\ \A k \in DOMAIN memory.table.rules : {k[1], k[2]} \subseteq ids
        /\ \A q \in DOMAIN memory.qos_rules : q[1] \in ids
=============================================================================
