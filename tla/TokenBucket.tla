----------------------------- MODULE TokenBucket -----------------------------
(***************************************************************************)
(* The rate limits of the datapath (ebpf/src/qos.rs): packets on several   *)
(* CPUs take tokens from, or are paced by, the bucket of their CPU, while  *)
(* the handlers add, replace and delete QoS rules.  Deleting a rule leaves *)
(* its bucket.                                                             *)
(*                                                                         *)
(* QOS_TOKEN_BUCKET is a per-CPU hash map: a CPU only ever touches its own *)
(* value of a key, so a packet that finds the bucket is one step.  One     *)
(* that does not inserts it in a second step, and other CPUs may have done *)
(* so in between; their values are zero in an element that is new.         *)
(*                                                                         *)
(* A key is a pair of a group id and a direction.  On egress the id is     *)
(* that of the destination, on ingress that of the source, and ingress     *)
(* only polices.  Priorities are left out.  Times are in ticks, Second of  *)
(* them to the second (1 000 000 000 in the code).                         *)
(*                                                                         *)
(* The operators named ...Mutant are mistakes in the operator that follows *)
(* them, kept to see that the properties notice them.                      *)
(***************************************************************************)
EXTENDS Integers, FiniteSets, Functions, FiniteSetsExt

CONSTANTS
    Cpus,
    Packets,      \* triples of a group id, a direction and a length
    QosRules,     \* pairs of a key and a value: [rate_bps, burst_bytes, shaping]
    num_cpus,     \* of FIREWALL_CONFIG
    Second,
    MaxBuckets,   \* max_entries of QOS_TOKEN_BUCKET
    MaxClock,     \* bound: the time
    MaxPassed,    \* bound: bytes let through in the window
    MaxBacklog,   \* bound: how far ahead packets are scheduled
    NoKey, NoCpu, NoPacket

Ingress == 0
Egress == 1

ASSUME CpusAssumption == num_cpus \in Nat \ {0} /\ IsFiniteSet(Cpus)
ASSUME SecondAssumption == Second \in Nat \ {0}
ASSUME RulesAssumption ==
    /\ QosRules \subseteq (Nat \X {Ingress, Egress})
                        \X [rate_bps : Nat, burst_bytes : Nat, shaping : BOOLEAN]
    /\ IsFiniteSet(QosRules)
ASSUME PacketsAssumption ==
    Packets \subseteq Nat \X {Ingress, Egress} \X Nat /\ IsFiniteSet(Packets)

QosKeys == {r[1] : r \in QosRules}
Configs == {r[2] : r \in QosRules}

ASSUME NoneAssumption ==
    /\ NoKey \notin QosKeys
    /\ NoPacket \notin [key : QosKeys, now : Nat, tokens : Nat]
ASSUME BoundsAssumption == MaxBuckets \in Nat /\ MaxClock \in Nat

VARIABLES
    QOS_CONFIG,        \* key -> configuration
    QOS_TOKEN_BUCKET,  \* key -> CPU -> [tokens, last_refill_ns, last_edt]
    clock,             \* bpf_ktime_get_ns
    pending,           \* the packet of each CPU that found no bucket
    window             \* history: one key on one CPU, observed from some moment on

vars == << QOS_CONFIG, QOS_TOKEN_BUCKET, clock, pending, window >>

Put(f, x, v) == [y \in DOMAIN f \cup {x} |-> IF y = x THEN v ELSE f[y]]

Larger(m, n) == IF m > n THEN m ELSE n
Smaller(m, n) == IF m < n THEN m ELSE n

-----------------------------------------------------------------------------
(***************************************************************************)
(* Arithmetic                                                              *)
(***************************************************************************)
ComputeRefill(rate, elapsed) ==
    rate * (elapsed \div Second) + (rate * (elapsed % Second)) \div Second

ComputeDelay(deficit, rate) == (deficit * Second) \div rate

\* The part of a rule that each CPU gets.
RateShareMutant(config) == Larger(config.rate_bps, 1)
RateShare(config) == Larger(config.rate_bps \div num_cpus, 1)

BurstShare(config) ==
    IF config.burst_bytes \div num_cpus > 0 THEN config.burst_bytes \div num_cpus
                                            ELSE RateShare(config)

\* What a bucket holds after the refill, before the cap.
Accrued(bucket, config) ==
    bucket.tokens + ComputeRefill(RateShare(config), clock - bucket.last_refill_ns)

RefilledMutant(bucket, config) == Accrued(bucket, config)
Refilled(bucket, config) == Smaller(Accrued(bucket, config), BurstShare(config))

\* What a refill loses, rounding counted as one.
Spilt(bucket, config) ==
    Larger(Accrued(bucket, config) - BurstShare(config), 0)
        + (IF (RateShare(config) * (clock - bucket.last_refill_ns)) % Second = 0 THEN 0 ELSE 1)

\* compute_default_burst: the burst of a rule that asks for none.
DefaultBurst(rate) ==
    Larger(65536, rate \div (IF rate < 25000000 THEN 5 ELSE IF rate < 125000000 THEN 8 ELSE 10))

-----------------------------------------------------------------------------
(***************************************************************************)
(* The window: what has happened to the packets of a key on one CPU since  *)
(* a moment.  It is closed when the rule changes.                          *)
(*   passed   bytes let through or scheduled                               *)
(*   spilt    tokens lost because the bucket was full, and one for each    *)
(*            refill that was rounded down                                 *)
(***************************************************************************)
Closed == [key |-> NoKey, cpu |-> NoCpu, since |-> 0, passed |-> 0, spilt |-> 0]

Account(c, key, passed, spilt) ==
    window' = IF window.key # key \/ window.cpu # c THEN window
              ELSE [window EXCEPT !.passed = @ + passed, !.spilt = @ + spilt]

Observable(c, key) == window.key = key /\ window.cpu = c => window.passed < MaxPassed

\* A window opens at any time at which nothing is scheduled.
Observe(c, key) ==
    /\ key \in DOMAIN QOS_CONFIG
    /\ key \in DOMAIN QOS_TOKEN_BUCKET => QOS_TOKEN_BUCKET[key][c].last_edt <= clock
    /\ window' = [Closed EXCEPT !.key = key, !.cpu = c, !.since = clock]
    /\ UNCHANGED << QOS_CONFIG, QOS_TOKEN_BUCKET, clock, pending >>

Init ==
    /\ QOS_CONFIG = << >>
    /\ QOS_TOKEN_BUCKET = << >>
    /\ clock = 0
    /\ pending = [c \in Cpus |-> NoPacket]
    /\ window = Closed

-----------------------------------------------------------------------------
\* The rule of the packet's group if it has one with a rate, else that of
\* everybody; a packet no rule limits changes nothing.
Limits(gid, dir) ==
    {g \in {gid, 0} : << g, dir >> \in DOMAIN QOS_CONFIG /\ QOS_CONFIG[<< g, dir >>].rate_bps > 0}
LimitingKey(gid, dir) == << IF gid \in Limits(gid, dir) THEN gid ELSE 0, dir >>

Limited(c, key, pkt) ==
    /\ pending[c] = NoPacket
    /\ Limits(pkt[1], pkt[2]) # {}
    /\ key = LimitingKey(pkt[1], pkt[2])
    /\ Observable(c, key)

Shaped(key) == key[2] = Egress /\ QOS_CONFIG[key].shaping

\* The first packet of a key, as far as this CPU can see, passes whatever its
\* length.  The tokens of the time before it are nobody's.
Miss(c, key, pkt) ==
    LET config == QOS_CONFIG[key]
    IN  /\ Limited(c, key, pkt)
        /\ key \notin DOMAIN QOS_TOKEN_BUCKET
        /\ pending' = [pending EXCEPT ![c] =
               [key |-> key, now |-> clock, tokens |-> Larger(BurstShare(config) - pkt[3], 0)]]
        /\ Account(c, key, pkt[3], ComputeRefill(RateShare(config), clock - window.since))
        /\ UNCHANGED << QOS_CONFIG, QOS_TOKEN_BUCKET, clock >>

\* Its insert fails, unnoticed, when the map is full.
Zero == [tokens |-> 0, last_refill_ns |-> 0, last_edt |-> 0]

InitBucket(c) ==
    LET p     == pending[c]
        known == p.key \in DOMAIN QOS_TOKEN_BUCKET
        cpus  == IF known THEN QOS_TOKEN_BUCKET[p.key] ELSE [d \in Cpus |-> Zero]
        mine  == [tokens |-> p.tokens, last_refill_ns |-> p.now, last_edt |-> 0]
    IN  /\ p # NoPacket
        /\ QOS_TOKEN_BUCKET' =
               IF known \/ Cardinality(DOMAIN QOS_TOKEN_BUCKET) < MaxBuckets
               THEN Put(QOS_TOKEN_BUCKET, p.key, [cpus EXCEPT ![c] = mine])
               ELSE QOS_TOKEN_BUCKET
        /\ pending' = [pending EXCEPT ![c] = NoPacket]
        /\ UNCHANGED << QOS_CONFIG, clock, window >>

\* The bucket of this CPU after its packet.
Update(c, key, tokens, last_edt) ==
    QOS_TOKEN_BUCKET' = [QOS_TOKEN_BUCKET EXCEPT ![key][c] =
        [tokens |-> tokens, last_refill_ns |-> clock, last_edt |-> last_edt]]

\* A dropped packet keeps the tokens, refilled.
PoliceMutant(c, key, pkt) ==
    LET config == QOS_CONFIG[key]
        bucket == QOS_TOKEN_BUCKET[key][c]
        tokens == Refilled(bucket, config)
        spilt  == Spilt(bucket, config)
    IN  /\ IF tokens >= pkt[3]
           THEN /\ Update(c, key, tokens - pkt[3], bucket.last_edt)
                /\ Account(c, key, pkt[3], spilt)
           ELSE /\ Update(c, key, bucket.tokens, bucket.last_edt)
                /\ Account(c, key, 0, spilt)
Police(c, key, pkt) ==
    LET config == QOS_CONFIG[key]
        bucket == QOS_TOKEN_BUCKET[key][c]
        tokens == Refilled(bucket, config)
        spilt  == Spilt(bucket, config)
    IN  /\ IF tokens >= pkt[3]
           THEN /\ Update(c, key, tokens - pkt[3], bucket.last_edt)
                /\ Account(c, key, pkt[3], spilt)
           ELSE /\ Update(c, key, tokens, bucket.last_edt)
                /\ Account(c, key, 0, spilt)

\* A packet without tokens enough is scheduled for when the missing ones
\* will have come, after the packets scheduled before it.
BaseMutant(last_edt) == clock
Base(last_edt) == Larger(last_edt, clock)

Shape(c, key, pkt) ==
    LET config == QOS_CONFIG[key]
        bucket == QOS_TOKEN_BUCKET[key][c]
        tokens == Refilled(bucket, config)
        spilt  == Spilt(bucket, config)
    IN  /\ IF tokens >= pkt[3]
           THEN Update(c, key, tokens - pkt[3],
                       IF bucket.last_edt < clock THEN 0 ELSE bucket.last_edt)
           ELSE Update(c, key, 0, Base(bucket.last_edt)
                                    + ComputeDelay(pkt[3] - tokens, RateShare(config)))
        /\ Account(c, key, pkt[3], spilt)

Hit(c, key, pkt) ==
    /\ Limited(c, key, pkt)
    /\ key \in DOMAIN QOS_TOKEN_BUCKET
    /\ QOS_TOKEN_BUCKET[key][c].last_edt <= clock + MaxBacklog
    /\ IF Shaped(key) THEN Shape(c, key, pkt) ELSE Police(c, key, pkt)
    /\ UNCHANGED << QOS_CONFIG, clock, pending >>

-----------------------------------------------------------------------------
\* The handlers, with kernel calls that succeed.
CloseWindow(key) == window' = IF window.key = key THEN Closed ELSE window

AddQos(key, config) ==
    /\ QOS_CONFIG' = Put(QOS_CONFIG, key, config)
    /\ CloseWindow(key)
    /\ UNCHANGED << QOS_TOKEN_BUCKET, clock, pending >>

DeleteQos(key) ==
    /\ key \in DOMAIN QOS_CONFIG
    /\ QOS_CONFIG' = Restrict(QOS_CONFIG, DOMAIN QOS_CONFIG \ {key})
    /\ CloseWindow(key)
    /\ UNCHANGED << QOS_TOKEN_BUCKET, clock, pending >>

Tick ==
    /\ clock < MaxClock
    /\ clock' = clock + 1
    /\ UNCHANGED << QOS_CONFIG, QOS_TOKEN_BUCKET, pending, window >>

Next ==
    \/ \E c \in Cpus, key \in QosKeys, pkt \in Packets : Miss(c, key, pkt) \/ Hit(c, key, pkt)
    \/ \E c \in Cpus : InitBucket(c)
    \/ \E r \in QosRules : AddQos(r[1], r[2])
    \/ \E key \in QosKeys : DeleteQos(key)
    \/ \E c \in Cpus, key \in QosKeys : Observe(c, key)
    \/ Tick

Spec == Init /\ [][Next]_vars
-----------------------------------------------------------------------------
(***************************************************************************)
(* Properties                                                              *)
(***************************************************************************)
Longest == Max({0} \cup {pkt[3] : pkt \in Packets})
LargestBurst == Max({BurstShare(config) : config \in Configs})

Bucket == [tokens : 0 .. LargestBurst, last_refill_ns : 0 .. clock, last_edt : Nat]

\* The types of the maps.  No bucket is ever above its cap, and none was
\* refilled in the future: now.wrapping_sub(last_refill_ns) does not wrap.
TypeOK ==
    /\ \A key \in DOMAIN QOS_CONFIG : << key, QOS_CONFIG[key] >> \in QosRules
    /\ DOMAIN QOS_TOKEN_BUCKET \subseteq QosKeys
    /\ Cardinality(DOMAIN QOS_TOKEN_BUCKET) <= MaxBuckets
    /\ \A key \in DOMAIN QOS_TOKEN_BUCKET : QOS_TOKEN_BUCKET[key] \in [Cpus -> Bucket]
    /\ clock \in 0 .. MaxClock
    /\ \A c \in Cpus : pending[c] # NoPacket => pending[c].now \in 0 .. clock
    /\ window.key \in DOMAIN QOS_CONFIG \cup {NoKey}

\* The bucket that is observed; the rule has a rate.
Watching == /\ window.key \in DOMAIN QOS_TOKEN_BUCKET
            /\ QOS_CONFIG[window.key].rate_bps > 0

Watched == QOS_TOKEN_BUCKET[window.key][window.cpu]
Rule == QOS_CONFIG[window.key]

\* What a packet longer than the burst gets when it is the first.
Excess == Larger(Longest - BurstShare(Rule), 0)

\* "each CPU has its own token bucket with rate/num_cpus quota": over any
\* period, also one that begins after a pause or with the tokens of another
\* rule, a CPU passes at most its part of the burst and of the rate times
\* the time of the policed packets, and so all CPUs together at most what
\* the rule says; only the first packet may be longer than the burst.
QuotaHolds ==
    /\ Watching
    /\ ~Shaped(window.key)
    /\ Rule.rate_bps >= num_cpus /\ Rule.burst_bytes >= num_cpus
    => num_cpus * window.passed * Second
           <= (Rule.burst_bytes + num_cpus * Excess) * Second + Rule.rate_bps * (clock - window.since)

\* "the refill MUST be persisted or it's lost": of the tokens that came in
\* a period, those neither spent nor kept were spilt over the cap, or lost
\* in rounding, less than one for each refill; drops lose none.
CreditKept ==
    Watching /\ ~Shaped(window.key) =>
        (Watched.tokens + window.passed + window.spilt) * Second
            >= RateShare(Rule) * (Watched.last_refill_ns - window.since)

\* Until when the packets that were let through will have left.
AllGone == Larger(Watched.last_edt, clock)

\* Shaped packets of a CPU leave at no more than twice its share: once with
\* the tokens that came while they waited, once with the delay.
PacedWithinTwice ==
    Watching /\ Shaped(window.key) /\ Second % RateShare(Rule) = 0 =>
        window.passed * Second
            <= (BurstShare(Rule) + Excess) * Second
                   + RateShare(Rule) * ((clock - window.since) + (AllGone - window.since))

\* The same quota for shaped packets.
PacedAtRate ==
    Watching /\ Shaped(window.key) /\ Second % RateShare(Rule) = 0 =>
        window.passed * Second
            <= (BurstShare(Rule) + Excess) * Second + RateShare(Rule) * (AllGone - window.since)

\* Every rule is enforced, also after many others: it finds a bucket.
RulesHaveBuckets ==
    \A c \in Cpus : pending[c] # NoPacket =>
        pending[c].key \in DOMAIN QOS_TOKEN_BUCKET \/ Cardinality(DOMAIN QOS_TOKEN_BUCKET) < MaxBuckets

\* "Minimum burst is always 64 KB to handle at least one jumbo frame": a
\* frame that finds its bucket full passes.
FrameFitsBurst(rate, frame) ==
    BurstShare([rate_bps |-> rate, burst_bytes |-> DefaultBurst(rate), shaping |-> FALSE]) >= frame
=============================================================================
