# Verification of aria-firewall

TLA+ models of the aria-firewall agent and of its eBPF datapath, the TLC
configurations that check them on small instances, and TLAPS proofs of what they
keep for all values of the constants. Paths below are relative to the repository.

* [Inventory](#inventory): the parts of the system, their state and what makes each correct
* [Modules](#modules): which module models what, and how it abstracts the code
* [Runs](#runs): what each run checks, its bounds, and why they are enough
* [Disagreements](#disagreements): where the code does not do what it says
* [Proofs](#proofs): what holds for all values of the constants, and along which argument
* [Not modelled](#not-modelled) and the [plan](#plan)

`PROJECT.json` lists the runs, the source lines each definition translates, the
hazards and which property covers each, and the theorems.

## Inventory

### The agent: requests to kernel maps

**Firewall state** (`src/core/src/state.rs`, `FirewallState`). State: groups
(name, id, CIDRs), rules, *port sets* shared between rules by a normal form of
their port text and counted by reference, the indices of `PORT_BITMAP_POOL`
(`next_bitmap_idx`, the stack `free_bitmap_indices`), QoS rules, switches.
Operations: `add_group`, `rollback_add_group`, `apply_add_rule`,
`apply_remove_rule`, `release_port_set`. Hard: replacing a rule acquires one set
and releases another, which may be the same; indices are recycled; the limit can
be lowered below what is in use. Correct when counters are exact, no two sets
share an index, no index is lost, and a rule finds the set of its own text.

**Handlers** (`src/agent/src/control_plane.rs`). One `RwLock` per instance around
the state; each handler validates, changes memory, writes several kernel maps
(`src/core/src/ebpf_ops.rs`, `qos_ops.rs`), rolls memory back when one of them
fails, and appends to the log. Hard: any of the kernel calls may fail between
two others. Correct when memory and maps agree afterwards, and when references
between groups, rules, QoS rules and the address tries hold.

**Write-ahead log** (`src/core/src/wal.rs`). State: `state.json`, `state.wal`, a
buffered writer, `entry_count`. Operations: append, compact (write, sync and
rename a snapshot, truncate the log, open a new writer), load. Hard: crashes
between the steps, failing flushes, lines that stay in a buffer, replay of
entries the snapshot has. Correct when a restart brings back what was
acknowledged, and nothing else.

**Tap lifecycle** (`src/agent/src/netlink.rs`, `tap_registry.rs`, `instance.rs`,
`main.rs`). State: the registry, the instances of the control plane, the pinned
XDP link of each interface, a netlink socket. Operations: scan, clean up, attach,
detach, receive an event, reconcile every 60 s, shutdown. Hard: interfaces change
while nobody listens, pins outlive the agent, events get lost, attach can fail at
any point, shutdown overlaps the netlink task. Correct when the registry comes to
match the host, when nothing is enforced without an instance that manages it, and
when each interface comes to be protected.

**Startup and recovery** (`replay_state`, `StateManager`, `instance.rs`,
`system_manager.rs`). State: `state.json`, the log, the maps that outlived the
agent. Operations: attach and system start (store the limit in `state.json`, load
the program, pin its maps, replay the snapshot into them, register), detach and
system stop (record, compact, remove the pins). Hard: `state.json` is rewritten in
place next to the compactions that rename over it, and the kernel is filled from
the snapshot while memory is filled from snapshot and log. Correct when a start
brings back what was acknowledged and the kernel enforces it.

### The datapath: packets to verdicts

**Packet pipelines** (`src/ebpf/src/lib.rs`, `parser.rs`): the headers, then
connection tracking, then policy, then QoS, then a new connection entry, on the XDP
ingress and TC egress hooks, on all CPUs at once and without locks. Hard: chains of
IPv6 extension headers, fragments, frames that end early. Correct when a frame is
judged by the protocol and port of the datagram it is a piece of.

**Policy evaluation** (`src/ebpf/src/policy.rs`): eight lookups from the most
specific key to the least, then a lookup of the port. Hard: handlers write and
delete policies and ports, entry by entry, between these lookups. Correct when a
packet gets the verdict of the most specific rule that matches it, before or
after the handler it overlaps.

**Connection tracking** (`src/ebpf/src/conntrack.rs`, `src/core/src/ct_ops.rs`): an
LRU hash map of connections with a state machine and timeouts, flushed by the
agent. Hard: pointers into elements that others remove, evict and reuse, time
stamps of different CPUs, removal by key after a decision by pointer. Correct
when only packets of connections a policy admitted pass.

**QoS token buckets** (`src/ebpf/src/qos.rs`). State: the rules (`QOS_CONFIG`), and for
each key a bucket per CPU: tokens, the time of the last refill, the time up to
which packets are scheduled. Operations: police (both directions), shape (egress),
create a bucket at the first packet. Hard: rounding, times that differ between CPUs,
two CPUs creating a bucket, buckets that outlive their rules, a full map. Correct
when every CPU keeps to its share of the rule over any period and drops cost nothing.

### How they interact

Requests reach the handlers over HTTP; the handlers and the datapath share only
the pinned maps (policies, port pool, tries, QoS, configuration, connections).
The netlink task creates and removes the instances the handlers work on, each
with its own state, log and maps. A compaction task and the shutdown write
snapshots under the same locks as the handlers.

## Modules

| Module | Models | Used by |
| --- | --- | --- |
| `Ports` | port texts: `parse_ports`, `normalize_ports`, the writes and deletes of `PORT_BITMAP_POOL` | `FirewallState` |
| `FirewallState` | the operations of `state.rs`, as functions from a state to its successor | `RuleTable`, `ControlPlane`, `WalEntries` |
| `RuleTable` | state machine of rules, port sets and indices | `MCRuleTable`, `RuleTableProofs`, refined by `ControlPlane` |
| `Policy` | `evaluate_policy`, and the verdict the listed rules ask for | `ControlPlane` |
| `ControlPlane` | the handlers of one instance with the kernel maps and failing calls | `MCControlPlane`, `ControlPlaneProofs`, `Datapath`, `Recovery` |
| `Parser` | `parse_eth_ipv4`, `parse_eth_ipv6`, and frames built from what they carry | `Datapath` |
| `Datapath` | packets, one step per lookup, between the kernel calls of the policy handlers of `ControlPlane` | `MCDatapath`, `DatapathProofs` |
| `TokenBucket` | `qos.rs`: packets on several CPUs, their buckets, changing rules | `MCTokenBucket`, `TokenBucketProofs` |
| `WalEntries`, `Wal` | log entries and their replay; snapshot, log, writer, crashes | `MCWal`, `WalProofs`, `Recovery` |
| `DurableStore` | abstract: a store that never forgets | refined by `Wal` |
| `Conntrack` | packets on several CPUs, one step per access to the table | `MCConntrack`, `ConntrackProofs` |
| `Admission` | abstract: a gate that opens for connections a policy permits | refined by `Conntrack` |
| `Recovery` | one instance through attach, detach, start, stop, crash and reboot, around the handlers of `ControlPlane` and the entries of `WalEntries` | `MCRecovery`, `RecoveryProofs` |
| `TapRegistry` | host, netlink task, registry, pins, shutdown, crash | run directly, `TapRegistryProofs` |

Operators called `...Mutant` stand next to the definition they distort; each is a
mistake somebody could make there, kept to see that a property notices it. No
specification uses them.

### From code to model

* **Port texts** are sequences of `<<start, end, digit>>`, the parts between
  commas. The normal form sorts the parts, by insertion, and replaces the digit by the stored
  value (0 becomes 2, "pass"), and `delete_port_set` parses that form again, with
  the outcome the parser has for it. Digits are those up to 255, which `normalize_ports`
  and `parse_ports` read alike. The pool is a map from index and port to
  stored value, as in the kernel.
* **A table** groups the four fields `apply_add_rule` changes, which are also the
  ones the handlers snapshot. `NoIdx` is `None`.
* **A handler** is one step, because it holds the instance's write lock
  throughout. Each of its kernel calls may fail (`Fail`), and the step then
  continues as the code does: compensating deletes, which may fail in turn,
  rollback, or a warning. A removal that fails is often taken for an entry that is not
  there: deleting a group goes on without a word (`ebpf_ops.rs:179`), deleting a port
  set leaves any of its ports (`ebpf_ops.rs:312`). A read of `FIREWALL_CONFIG` that fails
  is taken for an absent entry, and the defaults are written over what is there
  (`qos_ops.rs:14`, `ebpf_ops.rs:771`); the history variable `misread` records that
  this has happened. Packets between two calls of one handler are in
  `Datapath`. A CIDR stands for its trie key; a request with a malformed one
  changes nothing and is left out. The eBPF maps are taken to exist
  (`check_xdp_ready`).
* **Frames** are described by what precedes the transport header, the fragment
  offset, protocol and port, and how many octets are missing. `Frame` lays them out in
  words of four octets, an extension header with the type of the next one and its
  length, and `Parse` reads them as the code does, so that a wrong offset reads filler
  or payload. `Described` says what should come out. Addresses are given as group ids.
* **Packets and handlers** (`Datapath`): a handler begins with the change of memory, which
  nobody can see behind its lock, and leaves `calls`, the kernel calls still to make, in
  the code's order: new ports, policy, deletion of the released set; or policy,
  deletion. A packet is in one of eight lookups of the policy or in that of the
  port; it copies the policy it has found (the code holds a pointer to a value that
  RCU keeps until the program ends, and updates replace the element).
  `asked` collects the verdicts of the rules before and after the handler it overlaps.
  One packet at a time is enough, as packets change nothing here.
* **Token buckets**: a CPU touches its own value of a key only, so a packet that finds
  its bucket is one step; one that does not inserts it in a second step, between
  which other CPUs and handlers act. A new element of a per-CPU map is zero for the
  other CPUs. A packet no rule limits changes nothing and is left out. Times are
  ticks, `Second` of them to a second. The history variable `window` watches one key on
  one CPU from any moment on, and counts what passes and what a refill loses;
  it closes when the rule changes.
* **The log** is a sequence of entries; `buffer` holds the lines a failed flush
  left in the `BufWriter`, `offset` and `appending` the position of a writer that was
  not opened for appending, as compaction's is not. Lines written over break the
  rest of the line they hit (`Corrupt`), which load skips. Rename is atomic. There is one
  writer here; two of them are in `Recovery`. A registration of an instance that is
  already registered compacts it first (`control_plane.rs:95`); its callers do not
  register one twice, and it is left out.
  A crash is a crash of the agent: what was written stays.
* **Connection tracking**: a packet is a program counter per CPU. Elements of the
  LRU map are `Slots`: a lookup takes a slot and later steps use whatever is in
  it by then. An insert takes a free slot or evicts. Evaluating the policy and
  QoS are one step each; a limited packet may be dropped at any time.
  Protocols differ only in timeouts, so only TCP's two are kept.
* **Recovery**: `standalone` says whether the instance is the system's or a tap's, whose
  starts and ends differ. `op` is the lifecycle operation under way, `rewrite` how
  far its `with_state` is: read, truncated, written, or writing to a file that a
  compaction has meanwhile renamed away. Handlers are the actions of `ControlPlane`
  with calls that succeed, followed by the append as a step of its own. Memory
  vanishes with the agent; maps vanish with their pins. The maps are declared
  without pinning (`maps.rs`), so a program loaded for a recovery brings new ones:
  the replay of a tap whose pins survived changes nothing that is enforced. The
  history variable `promised` is the state acknowledged requests have led to; `mishaps`
  records the ways in which the code lets go of it, each set where the
  code does it: a rewriting that is cut or overtaken, a crash between a
  handler's kernel calls and its append, a replay that finds a log or
  takes the state for empty, a line of a handler that outlived its instance.
  `unregister_instance` compacts under the lock of the instance and removes it
  without; a handler that begins in between (`late`) goes on with the instance
  it has, next to the one that is registered after it. Both have a writer on the same
  file. A writer appends as long as it is the one `WalWriter::open` has made
  (`wal.rs:52`); after its first compaction it writes at a position of its own, from the
  start of the file on (`wal.rs:116`). `writer` and `late_writer` say which of these
  it is, and whether the other has been at work since (`"adrift"`). Its next line may
  then fall on any lines of the log, on part of one, or beyond the end: `WrittenBy`
  is every log that can come of it, and the mishap `"lost"` is noted when it is not the log with
  the line behind it. A registration is two steps, reading snapshot and log
  (`LoadWithWal`), and opening and compacting the log (`Register`), as a late line
  between them is compacted away. A detach removes the link, then the
  directory: a crash in between leaves maps that the next attach cannot
  replace (`pinned = "stale"`). Lifecycle operations of one instance do not overlap, and
  their calls succeed.
* **Tap lifecycle**: an interface has a generation, so that one created again under its
  name is distinguished from its predecessor, and a pin records the generation it
  was attached to. The per-interface locks are left out: `attach` and `detach` are
  called by one task at a time, the netlink task or, once it has been aborted,
  shutdown; the model lets the aborted task go on to its next await. The TC
  filter, qdisc and map pins are left out (their failures are warnings only), as are
  notifications about interfaces that merely change, which `attach` skips when the
  interface is managed. `register_instance` and the entry in the registry are one step, as
  only a shutdown could look between them. The history variable `left` holds the
  interfaces whose own detach, or attach, has failed since the monitor last started, and which
  therefore may keep a pin.

## Runs

All bounds are named in the `.cfg` files and stand in guards.

| Run | Shows | Bounds |
| --- | --- | --- |
| `rule_table` | counters, indices, stack and limit of the rule table; no step moves another rule; rules share a set exactly when their texts have the same parts | 3 rules, 4 accepted texts with 3 normal forms, limits 1-3 changing at any time |
| `policy_faults` | policies in the kernel are the listed rules, live port sets are written, and the handlers implement `RuleTable` | 2 rules, 4 texts, limit 2, 2 failing calls |
| `group_faults` | ids stay unique under failing calls, a switch that is on stays in force, and one that is off unless a failing read was taken for no entry; without failing calls references, tries and QoS are right | 2 groups, 2 CIDRs either may have, ids up to 2, 2 failing calls |
| `datapath` | a packet that overlaps one handler gets the verdict of the rules before or after it; between handlers every frame gets that of the most specific rule | 3 rules over 3 fallback levels, 3 texts that only deny, limit 2; chains of up to 4 extension headers, 470 frames |
| `token_bucket` | a CPU polices to its share of rate and burst over any period, loses no tokens but over the cap and in rounding, and paces to at most twice its share | 2 CPUs, 3 rules on 2 keys, buckets for one key at a time, clock 0-3 of 2 ticks to the second, 6 bytes in the window, backlog 1 |
| `wal_replay` | `Wal` implements `DurableStore` while no compaction stops half way and no append fails; after that, replaying over a snapshot that has the entries keeps the contents | log of 3, one interrupted compaction, one failing append |
| `conntrack` | `Conntrack` implements `Admission`; keys never share an element | 2 CPUs, 2 elements, a connection in both directions, clock 0-1 |
| `tap_registry` | pins are managed, but for those whose own removal has failed; the registry converges | 2 interfaces, 3 creations, 2 restarts, 2 faults |
| `recovery` | a start restores what was acknowledged, the kernel enforces what is listed, apart from the mishaps | one group, policy, QoS rule (which counts as two) and switch, two of them at a time, log of 2, no requests between a loss and the end of that life, one handler at a time that outlives its instance, any number of starts and ends |
| `stale_ports`, `rewrite_crash`, `tap_reattach` | counterexamples, see below | the smallest that show it |

*Why they are enough.* In the rule table a step touches at most one rule and two
port sets; a third rule and set show that others are left alone, and more sets
than the limit admits make it bind. A handler makes at most a handful of kernel
calls, of which two failures cover "the call, and its compensation". The
log's hazards need an entry, one that undoes it and one that repeats it. A recovery
needs a request in the snapshot and one that changes it in the log, and pairs of
items, as a policy and its group. Two lines are enough for a writer to fall on
the first, on the last, on both, or between them. What a life does after it has lost
something is of interest only as far as a compaction makes up for it, which needs no further request
(`RequestsAfterLoss`; the theorems hold for any values of the bounds). A packet meets
the calls of one handler: a new set's ports, a policy, an old set's ports; three
levels let it fall through two rules. Two CPUs can both miss a bucket; three
ticks let it fill, overflow and idle, and a map for one of two keys is full. In
connection tracking two packets race for one entry; two elements make eviction
and reuse happen, and a clock of two values with timeouts 0 and 1 lets an
entry of each state be live, expired, or stamped later than the reader's `now`.
Symmetry is used there over CPUs and elements, with no liveness property. For
taps, three creations let one interface be re-created while another one appears.

*Operators* without a state are compared with their references in assumptions of
`MCControlPlane` that TLC evaluates with each of its runs: normal forms and meanings for
all pairs of texts of up to three parts over two ports, and the fallback for every
subset of the eight keys that match a packet.

*Fairness* is used by `TapRegistry` only: weak fairness of the netlink task. Tokio
polls a task that can go on, and its sleeps and intervals end. Nothing is
assumed about the host, the signals or which of several ready branches the task
takes; as events, crashes and faults are bounded, the periodic reconciliation
gets its turn. The convergence properties speak of agents that go on running.

*Deadlock* is not checked for `TapRegistry`, where the agent may have exited for
good.

## Disagreements

Three runs end in a counterexample.

* `stale_ports`: deleting a port set that lets a port pass deletes nothing.
  `delete_port_set` parses the normal form, in which such a port has the value 2,
  which the parser rejects. The entries stay under an index that is handed out
  again, and the next policy with that index inherits them.
* `rewrite_crash`: each attach and system start stores the port set limit by
  truncating `state.json` and writing it again (`state.rs:420`). A crash in between
  leaves an empty file, and the next start goes on with the default state.
* `tap_reattach`: an interface that is deleted and re-created under its name while
  the agent is down, or between the initial attach and the subscription, is
  taken for attached. XDP is never attached to the new device, and
  reconciliation, which compares names, does not notice.

Modelling met more of them. The models contain the behaviour, and the property
each violates is defined next to the others though no run checks it yet:

| Property | Module | What happens |
| --- | --- | --- |
| `RuleGroupsExist` | `ControlPlane` | adding a CIDR a group already has, with a failing kernel call, removes the CIDR, or the whole group, though rules refer to it (`state.rs:132`) |
| `SwitchesInForce`, after a failing read | `ControlPlane` | a read of the configuration that fails counts as no entry, and the defaults are written over it: connection tracking or monitoring, switched off, is on again, while the API lists it as off (`ebpf_ops.rs:771`, `qos_ops.rs:14`, against `ebpf_ops.rs:757`) |
| `QosFlagInSync` | `ControlPlane` | a failing update of the switch leaves it out of step with the QoS rules (`qos_ops.rs:97`) |
| `QuotaSplitOverCpus` | `ControlPlane` | the first QoS rule of a fresh instance records one CPU, so every CPU refills at the full rate (`qos_ops.rs:17`, against `common.rs:127`) |
| `ReadmeExampleAccepted` | `MCControlPlane` | a port without a digit is one to drop: the README's "allow TCP 3306" drops it |
| `SameFormSameMeaning` | `MCRuleTable` | texts that name a port twice in different orders share a set but differ in meaning (`state.rs:330`) |
| `RecoveredRulesResolve` | `Wal` | a crash between the rename of the snapshot and the truncation of the log replays the log over a snapshot that has it: a group deleted and added again gets another id, and rules keep the old one (`wal.rs:106`) |
| `ListedIsEnforced` | `Recovery` | after a crash, maps created anew are filled from `state.json` alone: policies of the log are listed but not enforced, deleted ones enforced but not listed (`ebpf_ops.rs:330`); switches alone are not replayed (`ebpf_ops.rs:357`); maps that survived keep a request the crash cut before its append; maps a cut detach left behind are written by the handlers and read by no program (`instance.rs:134`) |
| `AcknowledgedIsLogged` | `Wal` | a failing append is only printed; the request is acknowledged and a restart forgets it |
| `CompactEmptiesLog` | `Wal` | the replaced writer's buffer is flushed into the truncated log (`wal.rs:121`) |
| `ReplayTwiceKeepsContents`, at the limit | `Wal` | an intermediate entry takes the last index, so the final one is skipped |
| `ShutdownUnpins` | `TapRegistry` | the aborted task goes on until it next waits: an instance it registers after the shutdown has listed them is not detached, and its program stays pinned (`main.rs:203`, against `tap_registry.rs:141`) |
| `RestartKeepsState`, with two writers | `Recovery` | a handler that outlives its instance writes over the lines its successor has acknowledged, as its writer does not append after a compaction (`wal.rs:116`) |
| `OnlyExpiredRemoved` | `Conntrack` | an entry stamped later by another CPU, or created since the decision, is removed as expired (`conntrack.rs:125`) |
| `AlwaysOldOrNew` | `Datapath` | a packet that was sent to a port set which is then deleted finds no port, and gets the action of the old policy (`policy.rs:89`) |
| `LaterFragmentsLackPorts` | `Parser` | a later fragment of an IPv4 datagram is judged by payload taken for its ports, unlike an IPv6 one (`parser.rs:78`, against `parser.rs:180`) |
| `PacedAtRate` | `TokenBucket` | while a shaped packet waits, tokens go on coming: packets leave at up to twice the rate (`qos.rs:111`) |
| `RulesHaveBuckets` | `TokenBucket` | buckets are never removed; when the map is full no new rule gets one, and each of its packets passes as the first (`qos.rs:140`) |
| `FrameFitsBurst` | `TokenBucket` | the minimum burst, meant for a jumbo frame (`qos_ops.rs:159`), is divided by the CPUs: from 8 on, 9000 octets never pass a policed low rate (`qos.rs:83`) |

## Proofs

Eight modules hold theorems, each about the specification whose name it carries.
TLC has checked every invariant on a run before it was proved. What holds for every value of the constants:

| Module | Theorems | State, of every execution |
| --- | --- | --- |
| `RuleTableProofs` | `TableConsistent`, and its parts `TypeCorrect`, `CountersExact`, `NoSharedIndex`, `NoIndexLost`, `RulesPointHome` | counters, indices and stack of the rule table are exact |
| | `OtherRulesKeepTheirSet`, `RefusedOnlyWhenFull`, `LimitObeyed` | what a step does to other rules, and when the limit refuses it |
| | `SharedBySameParts`, `SharedTextsAgree` | rules share a port set exactly when their texts have the same parts, and then mean the same by it if they name no port twice |
| `ControlPlaneProofs` | `Invariant`, `TypeCorrect`, `DistinctIds`, `TriesFollowGroups`, `KernelFollowsRules`, `LivePortsStay`, `KernelFollowsQos`, `KernelFollowsSwitches`, `NoReferenceLost` | the kernel maps follow what the API lists, whichever kernel calls fail; a switch that is off only until a failing read is taken for no entry |
| | `Refinement` | the table of the handlers implements `RuleTable` |
| `DatapathProofs` | `DpInvariant`, `VerdictsSettle`, `PortsSettle`, `FramesSettle`, `VerdictIsOldOrNew` | what a packet, or the frame it is found in, gets between the kernel calls of a handler, and between two handlers, when port texts only deny |
| `ConntrackProofs` | `Invariant`, `TypeCorrect`, `Refinement` | connection tracking implements the gate `Admission` |
| `TokenBucketProofs` | `Invariant`, `TypeCorrect`, `Quota`, `Credit`, `Paced` | the arithmetic of the buckets, over any period |
| `WalProofs` | `Invariant`, `Refinement` | snapshot and log implement `DurableStore` |
| `RecoveryProofs` | `Invariant`, `TypeCorrect`, `AcknowledgedSurvives` | what was acknowledged survives, apart from the mishaps |
| | `ListedEnforced` | the maps of a running instance enforce what it lists, apart from the mishaps |
| `TapRegistryProofs` | `Invariant`, `TypeCorrect`, `NoUnmanagedPin` | no pinned program escapes the registry |

### Assumptions

All are on constants, named in the modules that declare these, and evaluated by TLC in
the runs. Sets of rule keys and of policy requests are finite, because users are counted
(`RuleKeysAssumption`, `PoliciesAssumption`); port texts are sequences of triples of
naturals (`TextsAssumption`); limits, bounds and time-outs are naturals (`LimitsAssumption`,
`LimitAssumption`, `BoundsAssumption`, `TimeoutAssumption`, `ClockAssumption`), as is the
length of a second, which is not 0 (`SecondAssumption`); a switch of a configuration
request is given or not (`SwitchesAssumption`); a connection is a pair of endpoints
(`FlowsAssumption`); there is a CPU, and QoS rules and packets are finitely many, with
naturals for rates, bursts and lengths (`CpusAssumption`, `RulesAssumption`,
`PacketsAssumption`); frames to be judged have a length, IPv6 chains have four headers at
most and a later fragment is one of IPv6 (`DatagramsArePieces`); what stands for "none" is not one of the others (`NoneAssumption`).

### The rule table

The invariant `IInv` is the conjunction of `TypeOK`, `RefCountsExact`, `IndicesDistinct`,
`IndicesPartitioned` and `RulesResolve`. None of them is inductive alone. The counter
of a set is right after a release only if the index found belongs to the set the
rule meant (`RulesResolve`, `IndicesDistinct`); an index popped from the stack is
unused only by the partition; and a freed set has no users only if its counter
was exact.

An operation has two halves: it acquires a set that no rule uses yet, changes the
rule, and releases the old set. `Balanced(t, idx)` is consistency up to
one reference in flight to index `idx`. Acquiring goes from `Balanced(t, NoIdx)`
to `Balanced(u, idx)`, writing or removing the rule hands the reference over
to the old index, releasing brings it back to `NoIdx`. One lemma for each of these
steps, and one per operator for the fields it changes, give `AddRuleConsistent` and
`RemoveRuleConsistent`; `StepConsistent` has one step per action. `RefusedOnlyWhenFull`
counts: with an empty stack the sets and the indices handed out are in bijection.

`SharedBySameParts` is about `normalize_ports`: two texts have one normal form exactly when
a permutation takes the parts of one to the parts of the other. It is proved for texts of
any length. `Normalize` inserts one part after the other: an insertion keeps the
sequence sorted and is a permutation (`Place` says where the part goes), and sorted
permutations of each other are equal. `SharedTextsAgree` adds what is written: after the
inserts of a text, a port has the value of the last part that names it, and only one does.

*Recursion.* The induction theorems of the library take an operator as a parameter,
which no prover here can instantiate. The lemmas about recursive functions therefore
go by the set of the numbers for which the claim fails: it has a least element
(`LeastNat`), which is neither 0 nor a successor. `Iterates` and `Recursion` state once
that a recursive function exists and satisfies its equation.

### The handlers

`ControlPlaneProofs` instantiates `RuleTableProofs` as `RT`, so that all its lemmas hold of
the handlers' table; `TableAssumptions` discharges its assumptions. The copies of an
operator in both modules are equal, which `SameNormalize`, `SameAddRule` and their like
say. `IInv` has a part for each pair of memory and maps: `GroupInv`, `PolicyInv`,
`PoolInv`, `QosInv`, `SwitchInv`; each handler has a lemma that it keeps all of them,
for each call of it that may fail.

`PoolInv` says that the ports of every live set are written. Before a request writes ports
it has taken an index that no set has, by the partition of the indices; a failing
request has written only under such an index, which a later owner writes over; a
deletion, complete or skipped, only concerns an index that no set has any more.
`QosInForce`, `TriesNameOwners` and `ReferencesKept` speak of steps and histories without
failing calls, as the code goes wrong otherwise (see above); as faults are never taken
back, the other handlers keep them. `SwitchInv` is the exception: the defaults switch
everything on, so that one half of `SwitchesInForce` (what is on in memory is in force) is inductive through
all failing calls, and the other half as long as `misread` has not been set.

`Refinement` maps a handler to a step of `RuleTable`, or to a stutter when it is refused
or rolled back. So what is proved of `RuleTable` holds of the handlers.

### Log and recovery

`WalProofs`: while nothing has been interrupted the memory is what a restart would make of
snapshot and log, and the writer stands at the end of the log with an empty buffer
(`InStep`); after the rename it is the new snapshot alone. The stored contents, `Replay` of the log
over the snapshot, change by one entry when a line is appended (`ReplayAppend`) and in no other step.

`RecoveryProofs`: a handler's effect on memory is that of the entry it will append, which
`...Effect` says for each handler. `MemoryKept`: the memory of a running instance is
what acknowledged requests have led to, plus the request under way. `DiskKept`: so is the
log replayed over `Kept`, which is the snapshot or, when a rewriting has truncated it, what
that has read. `ReadKept`: what a rewriting is going to write back is what it replaces.
`LoadKept`: what a registration has loaded is what it finds when it opens the log.
Of the writers it is enough to know what they may make of the log (`WrittenIsLog`), since
`"lost"` is noted whenever that is not the log and the line: which places lead there matters
to TLC, not to the proof. Each holds unless the mishap that would break it is on record, and `OpsOK` says which
operation may meet a running instance. `AcknowledgedSurvives` follows, because only a
registration makes an instance, from snapshot and log.

`ListedEnforced` joins this to the handlers. A state is `Good` if the invariant of
`ControlPlaneProofs` holds of it as memory, and every entry takes a good state to a good
one (`GoodReplay`), so memory, snapshot and log are good in every life of the
instance. Its maps enforce a state (`Enforces`) if the parts of that invariant that
speak of maps hold; `EInv` says at which point of a start, a stop or an idle life they do,
or which mishap is on record instead. A handler keeps this by `ControlPlaneProofs`, of which
`HP` is the instance for any one life; `replay_state` establishes it from empty or
overwritten maps by `PoolReplayed` and its like, whichever rule of an index and
whichever owner of a CIDR comes last; the other steps leave the maps alone, or note
their mishap.

### Packets between kernel calls

`DatapathProofs` has one hypothesis, `OnlyDeny`: no port text passes a port. It is no
assumption on the code but a limit of the claim: a normal form with a port to pass does
not parse when its set is deleted, the port stays, and the run `stale_ports` shows where
that leads. The texts of the run `datapath` satisfy it.

The first part is about the order of the lookups alone. `FirstHitDecides`: the first of the
eight keys that has a rule is the key of the rule with the fewest wildcards, by counting
them place by place, also when two of the keys coincide because a group id or protocol is
0. So `Intended`, which knows nothing of lookups, is what the first hit says.

`HandlerInv` relates a table, the one before the handler, the calls still to come and the
two maps. POLICY_TABLE has the rules of the table before as long as the policy call is to
come, and then those of the new one (`Active`); every rule of that list finds its own ports
in the pool (`Filters`); and the pool, with the ports still to be written and without those
still to be deleted, is what the port sets of the new table name (`PoolGood`). This is
inductive because ports are written under an index that is not live before, and deleted
under one that is not live after (`GoodCall`): `TableChange` says so of any change of one rule,
from the partition of the indices. `AddBegins` and `DeleteBegins` establish it for the
calls of each handler, `CallMade` keeps it for each call.

`PacketInv` says of a packet in the lookups that none so far has found a rule in both
lists, which agree but for one key: so whichever list the hit comes from, one of the two
lists decides by it (`HitOfOne`, `MissOfOne`). Of a packet at its port, that the verdict
it would get is one of the two and no call still to come writes under its index, unless
the set is being deleted. A packet that meets a second handler is let go.

`FramesSettle` joins the parser to this: `PieceRead` says that `Parse` finds in a frame the
protocol and port of the datagram it is a piece of, for options of any number and chains of
up to four headers of any lengths, cut anywhere. `LaidOut` names the words at which the
headers begin, `Behind` the state of the walk behind the first k of them; a step goes from
one to the next if that header is all in the frame (`HeaderSkipped`), stops otherwise, and
stays where it is behind the last.

### Datapath and taps

`ConntrackProofs`: a packet in the pipeline has a flow and a pointer to an element, though
not necessarily that of its flow any more. The refinement maps a packet to the
gate by its stage; the elements are hidden, so that an entry that was evicted and
one whose element was reused are the same to the gate: closed.

`TokenBucketProofs`: `QuotaInv` says of an observed key and CPU that what was let through
and what is left is within the allowance and what came since, until the last refill; a shaped
rule may have as much once more until its last packet leaves. `CreditInv` bounds the
same from below, with what was spilt. Both need the case that the packet has yet to
insert its bucket, and that the map is full and stays so. `Paced` is for rates that
divide the second, as otherwise the delays round down.

`TapRegistryProofs`: `PinsTracked` says where a pin is accounted for from the clean-up on:
by the registry, by the list the task is working on, or by `left`. No step of the monitor
may drop a pin from all three; faults are not excluded.

### Only model-checked

* `SettledVerdicts`, `FramesGetTheirVerdict`, `SettledPorts` and `OldOrNew` for texts that
  pass ports: the first three are false then, the last is not known to be.
* `ReplayTwiceKeepsContents`, which the code does not keep once a limit is reached (see
  above): its run stays below.
* Liveness under fairness (`RegistryConverges`) and `ENABLED`, which are out of the provers' reach.
* What the mutants and the three counterexamples show.

## Not modelled

* Lifecycle operations that overlap each other or fail half way; handlers that only
  take the lock of an instance after its removal; a gap before a writer's position that
  another writer fills to the byte, so that the lines behind it parse again; the limit and the attached interface in `state.json`; the
  methods of `StateManager` the agent does not call.
* Packets between the calls of a handler that fails, and packets that overlap more
  than one handler, of which nothing is claimed: they can miss a specific rule added
  after their lookup and a general one deleted before it.
* Addresses: their extraction from the header and the longest prefix match to a group.
* Frames with more than four extension headers, or with a header after the fragment
  header of a later fragment: the code takes a number of a header, or payload, for the
  protocol, and nothing says what it should do.
* Statistics, monitoring, the HTTP layer and the command line: translation,
  counting and read-only formatting without effect on what is enforced. A batch of
  policies is a sequence of requests.
* Port digits beyond 255, which `normalize_ports` takes for 1 (`state.rs:314`) and
  `parse_ports` rejects (`ebpf_ops.rs:84`).
* Power failures: the log is flushed to the kernel, not to the disk, and nothing
  in the code bounds what may be lost.
* TC filter, qdisc and failing map pins of an instance.

## Plan

Done: the rule table, the handlers, packets between their calls, header parsing, rate
limits, the log, recovery, connection tracking and the tap lifecycle, with their proofs.
Next: `Recovery` with failing attaches and with starts and stops that overlap.
