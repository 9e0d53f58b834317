------------------------- MODULE TokenBucketProofs -------------------------
(***************************************************************************)
(* For every set of rules and packets, any number of CPUs, any length of   *)
(* the second and any time: what a CPU lets through, and what it loses, is *)
(* within the bounds of TokenBucket.                                       *)
(***************************************************************************)
EXTENDS TokenBucket, FiniteSetTheorems, WellFoundedInduction, TLAPS

(***************************************************************************)
(* Arithmetic.                                                             *)
(***************************************************************************)
\* Quotient and remainder.
LEMMA DivMod ==
    ASSUME NEW x \in Nat, NEW d \in Nat \ {0}
    PROVE  /\ x \div d \in Nat /\ x % d \in 0 .. d - 1
           /\ x = d * (x \div d) + (x % d)
OBVIOUS

\* A factor keeps an inequality.
LEMMA TimesMono ==
    ASSUME NEW a \in Int, NEW b \in Int, a <= b, NEW n \in Nat
    PROVE  n * a <= n * b /\ a * n <= b * n
OBVIOUS

\* A quotient is determined by its bounds.
LEMMA DivUnique ==
    ASSUME NEW x \in Nat, NEW d \in Nat \ {0}, NEW q \in Nat, NEW r \in 0 .. d - 1,
           x = d * q + r
    PROVE  x \div d = q /\ x % d = r
<1> DEFINE k == x \div d
<1>1. k \in Nat /\ x % d \in 0 .. d - 1 /\ x = d * k + (x % d)
    BY DivMod
<1>2. ASSUME k < q PROVE FALSE
  <2>1. d * (k + 1) <= d * q
      BY <1>1, <1>2, TimesMono
  <2>2. d * (k + 1) = d * k + d
      BY <1>1
  <2>3. QED BY <1>1, <2>1, <2>2
<1>3. ASSUME q < k PROVE FALSE
  <2>1. d * (q + 1) <= d * k
      BY <1>1, <1>3, TimesMono
  <2>2. d * (q + 1) = d * q + d
      OBVIOUS
  <2>3. QED BY <1>1, <2>1, <2>2
<1>4. QED BY <1>1, <1>2, <1>3

\* compute_refill splits the time into whole seconds and a rest, and rounds
\* only the tokens of the rest down.
LEMMA RefillExact ==
    ASSUME NEW rate \in Nat, NEW elapsed \in Nat
    PROVE  /\ ComputeRefill(rate, elapsed) = (rate * elapsed) \div Second
           /\ ComputeRefill(rate, elapsed) \in Nat
<1> DEFINE q == elapsed \div Second
           m == elapsed % Second
           k == (rate * m) \div Second
           r == (rate * m) % Second
<1>1. q \in Nat /\ m \in Nat /\ elapsed = Second * q + m
    BY SecondAssumption, DivMod
<1>2. rate * m \in Nat /\ rate * q \in Nat /\ rate * elapsed \in Nat
    BY <1>1
<1>3. k \in Nat /\ r \in 0 .. Second - 1 /\ rate * m = Second * k + r
    BY <1>2, SecondAssumption, DivMod
<1>4. rate * elapsed = Second * (rate * q + k) + r
  <2> HIDE DEF q, m, k, r
  <2>1. rate * elapsed = rate * (Second * q) + rate * m
      BY <1>1, SecondAssumption
  <2>2. rate * (Second * q) = Second * (rate * q)
      BY <1>1, SecondAssumption
  <2>3. Second * (rate * q + k) = Second * (rate * q) + Second * k
      BY <1>2, <1>3, SecondAssumption
  <2>4. QED BY <1>2, <1>3, <2>1, <2>2, <2>3, SecondAssumption
<1>5. rate * q + k \in Nat
    BY <1>2, <1>3
<1>6. (rate * elapsed) \div Second = rate * q + k
  <2> HIDE DEF q, m, k, r
  <2>1. QED BY <1>2, <1>3, <1>4, <1>5, SecondAssumption, DivUnique
<1>7. QED BY <1>5, <1>6 DEF ComputeRefill

\* A refill never gives more than the rate, and loses less than one token.
LEMMA RefillBounds ==
    ASSUME NEW rate \in Nat, NEW elapsed \in Nat
    PROVE  LET refill == ComputeRefill(rate, elapsed)
           IN  /\ refill \in Nat
               /\ refill * Second <= rate * elapsed
               /\ rate * elapsed < (refill + 1) * Second
               /\ (rate * elapsed) % Second = 0 => refill * Second = rate * elapsed
<1> DEFINE x == rate * elapsed
           k == ComputeRefill(rate, elapsed)
<1>1. x \in Nat
    OBVIOUS
<1>2. k = x \div Second /\ k \in Nat
    BY RefillExact
<1>3. k \in Nat /\ (x % Second) \in 0 .. Second - 1 /\ x = Second * k + (x % Second)
  <2> HIDE DEF x, k
  <2>1. QED BY <1>1, <1>2, DivMod, SecondAssumption
<1>4. k * Second = Second * k /\ (k + 1) * Second = k * Second + Second
  <2> HIDE DEF k
  <2>1. QED BY <1>3, SecondAssumption
<1>5. k * Second <= x /\ x < (k + 1) * Second /\ ((x % Second) = 0 => k * Second = x)
  <2> HIDE DEF x, k
  <2> DEFINE r == x % Second
             s == Second * k
  <2>1. s \in Nat
      BY <1>3, SecondAssumption
  <2>2. QED BY <1>1, <1>3, <1>4, <2>1, SecondAssumption
<1>6. QED BY <1>2, <1>5

\* A delay is exact when the rate divides the second.
LEMMA DelayExact ==
    ASSUME NEW deficit \in Nat, NEW rate \in Nat \ {0}, Second % rate = 0
    PROVE  /\ ComputeDelay(deficit, rate) \in Nat
           /\ rate * ComputeDelay(deficit, rate) = deficit * Second
<1> DEFINE q == Second \div rate
<1>1. q \in Nat /\ Second = rate * q
    BY SecondAssumption, DivMod
<1>2. deficit * q \in Nat /\ deficit * Second \in Nat
    BY <1>1
<1>3. deficit * Second = rate * (deficit * q) + 0
  <2> HIDE DEF q
  <2>1. deficit * (rate * q) = rate * (deficit * q)
      BY <1>1
  <2>2. QED BY <2>1, <1>1, <1>2
<1>4. ComputeDelay(deficit, rate) = deficit * q
  <2> HIDE DEF q
  <2>1. QED BY <1>2, <1>3, DivUnique DEF ComputeDelay
<1>5. QED BY <1>2, <1>3, <1>4

(***************************************************************************)
(* The largest value of a function on a finite set.                        *)
(***************************************************************************)
\* A finite set has an element where a function with natural values is largest.
LEMMA LargestExists ==
    ASSUME NEW S, IsFiniteSet(S), S # {}, NEW f \in [S -> Nat]
    PROVE  \E x \in S : \A y \in S : f[x] >= f[y]
<1> DEFINE Without == {T \in SUBSET S : T # {} /\ \A x \in T : \E y \in T : f[x] < f[y]}
           Sizes   == {n \in Nat : \E T \in Without : Cardinality(T) = n}
<1>1. ASSUME NEW T \in SUBSET S
      PROVE  IsFiniteSet(T) /\ Cardinality(T) \in Nat
    BY FS_Subset, FS_CardinalityType
<1>2. Without = {}
  <2>1. SUFFICES ASSUME Without # {} PROVE FALSE
      OBVIOUS
  <2>2. Sizes # {}
      BY <1>1, <2>1
  <2>3. PICK n \in Sizes : \A m \in Sizes : ~(<< m, n >> \in OpToRel(<, Nat))
      BY <2>2, NatLessThanWellFounded, WFMin, Zenon
  <2>4. \A m \in Sizes : ~(m < n)
      BY <2>3 DEF OpToRel
  <2>5. PICK T \in Without : Cardinality(T) = n
      OBVIOUS
  <2>6. PICK x \in T : TRUE
      BY <2>5
  <2>7. T \ {x} \in SUBSET S /\ T \ {x} # {}
      BY <2>5, <2>6
  <2>8. Cardinality(T \ {x}) < n /\ Cardinality(T \ {x}) \in Nat
      BY SMTT(40), <1>1, <2>5, <2>6, FS_RemoveElement
  <2>9. T \ {x} \notin Without
      BY <2>4, <2>8
  <2>10. PICK z \in T \ {x} : \A y \in T \ {x} : ~(f[z] < f[y])
      BY <2>7, <2>9
  <2>11. \A y \in T : f[y] \in Nat
      BY <2>5
  <2>12. CASE f[x] < f[z]
    <3>1. \A y \in T : ~(f[z] < f[y])
        BY <2>10, <2>11, <2>12
    <3>2. QED BY <3>1, <2>5, <2>10
  <2>13. CASE ~(f[x] < f[z])
    <3>1. \A y \in T : ~(f[x] < f[y])
        BY <2>6, <2>10, <2>11, <2>13
    <3>2. QED BY <3>1, <2>5, <2>6
  <2>14. QED BY <2>12, <2>13
<1>3. PICK x \in S : \A y \in S : ~(f[x] < f[y])
    BY <1>2
<1>4. \A y \in S : f[y] \in Nat
    OBVIOUS
<1>5. QED BY <1>3, <1>4

\* A largest element is the Max of its set.
LEMMA MaxIs ==
    ASSUME NEW S \in SUBSET Nat, NEW m \in S, \A y \in S : m >= y
    PROVE  Max(S) \in Nat /\ \A y \in S : Max(S) >= y
<1>1. \E x \in S : \A y \in S : x >= y
    OBVIOUS
<1>2. Max(S) \in S /\ \A y \in S : Max(S) >= y
    BY <1>1 DEF Max
<1>3. QED BY <1>2

\* Longest is as long as any packet.
LEMMA LongestPacket ==
    /\ Longest \in Nat
    /\ \A pkt \in Packets : pkt[3] \in Nat /\ pkt[3] <= Longest
<1> DEFINE S == {0} \cup {pkt[3] : pkt \in Packets}
           f == [pkt \in Packets |-> pkt[3]]
<1>1. \A pkt \in Packets : pkt[3] \in Nat
    BY PacketsAssumption
<1>2. S \in SUBSET Nat
    BY <1>1
<1>3. \E m \in S : \A y \in S : m >= y
  <2>1. CASE Packets = {}
    <3>1. QED BY <2>1
  <2>2. CASE Packets # {}
    <3>1. f \in [Packets -> Nat]
        BY <1>1
    <3>2. PICK x \in Packets : \A y \in Packets : f[x] >= f[y]
      <4> HIDE DEF f
      <4>1. QED BY <2>2, <3>1, PacketsAssumption, LargestExists
    <3>3. \A y \in Packets : x[3] >= y[3]
        BY <3>2
    <3>4. x[3] \in S /\ \A y \in S : x[3] >= y
        BY <3>3, <1>1
    <3>5. QED BY <3>4
  <2>3. QED BY <2>1, <2>2
<1>4. Max(S) \in Nat /\ \A y \in S : Max(S) >= y
  <2> HIDE DEF S
  <2>1. QED BY <1>2, <1>3, MaxIs
<1>5. QED BY <1>1, <1>4 DEF Longest

\* The parts of the rules are positive, and together within the rule.
LEMMA Shares ==
    ASSUME NEW config \in Configs
    PROVE  /\ config.rate_bps \in Nat /\ config.burst_bytes \in Nat
           /\ RateShare(config) \in Nat \ {0}
           /\ BurstShare(config) \in Nat \ {0}
           /\ config.rate_bps >= num_cpus => num_cpus * RateShare(config) <= config.rate_bps
           /\ config.burst_bytes >= num_cpus => num_cpus * BurstShare(config) <= config.burst_bytes
<1>1. config.rate_bps \in Nat /\ config.burst_bytes \in Nat
    BY RulesAssumption DEF Configs
<1> DEFINE r == config.rate_bps
           b == config.burst_bytes
           rs == r \div num_cpus
           bs == b \div num_cpus
<1>2. rs \in Nat /\ (r % num_cpus) \in 0 .. num_cpus - 1 /\ r = num_cpus * rs + (r % num_cpus)
  <2> HIDE DEF r, rs
  <2>1. r \in Nat
      BY <1>1 DEF r
  <2>2. QED BY <2>1, CpusAssumption, DivMod DEF rs
<1>3. bs \in Nat /\ (b % num_cpus) \in 0 .. num_cpus - 1 /\ b = num_cpus * bs + (b % num_cpus)
  <2> HIDE DEF b, bs
  <2>1. b \in Nat
      BY <1>1 DEF b
  <2>2. QED BY <2>1, CpusAssumption, DivMod DEF bs
<1>4. RateShare(config) = (IF rs > 1 THEN rs ELSE 1)
    BY DEF RateShare, Larger
<1>5. BurstShare(config) = (IF bs > 0 THEN bs ELSE RateShare(config))
    BY DEF BurstShare
<1> HIDE DEF r, b, rs, bs
<1>6. num_cpus * rs \in Nat /\ num_cpus * bs \in Nat
    BY <1>2, <1>3, CpusAssumption
<1>7. RateShare(config) \in Nat \ {0}
    BY <1>2, <1>4
<1>8. BurstShare(config) \in Nat \ {0}
    BY <1>3, <1>5, <1>7
<1>9. r >= num_cpus => num_cpus * RateShare(config) <= r
  <2>1. CASE rs > 1
    <3>1. RateShare(config) = rs
        BY <1>4, <2>1
    <3>2. QED BY <3>1, <1>2, <1>6, CpusAssumption
  <2>2. CASE ~(rs > 1)
      BY <1>4, <2>2, CpusAssumption, <1>1 DEF r
  <2>3. QED BY <2>1, <2>2
<1>10. b >= num_cpus => num_cpus * BurstShare(config) <= b
  <2>1. CASE bs > 0
    <3>1. BurstShare(config) = bs
        BY <1>5, <2>1
    <3>2. QED BY <3>1, <1>3, <1>6, CpusAssumption
  <2>2. CASE bs = 0
    <3>1. b < num_cpus
        BY <2>2, <1>3, CpusAssumption
    <3>2. QED BY <3>1, <1>1, CpusAssumption DEF b
  <2>3. QED BY <2>1, <2>2, <1>3
<1>11. QED BY <1>1, <1>7, <1>8, <1>9, <1>10 DEF r, b

\* LargestBurst is as large as the part of any rule's burst.
LEMMA LargestBurstShare ==
    ASSUME NEW config \in Configs
    PROVE  LargestBurst \in Nat /\ BurstShare(config) <= LargestBurst
<1> DEFINE S == {BurstShare(k) : k \in Configs}
           f == [r \in QosRules |-> BurstShare(r[2])]
<1>1. \A k \in Configs : BurstShare(k) \in Nat
    BY Shares
<1>2. S \in SUBSET Nat
    BY <1>1
<1>3. f \in [QosRules -> Nat]
  <2>1. \A r \in QosRules : BurstShare(r[2]) \in Nat
      BY <1>1 DEF Configs
  <2>2. QED BY <2>1
<1>4. QosRules # {}
    BY DEF Configs
<1>5. PICK x \in QosRules : \A y \in QosRules : f[x] >= f[y]
  <2> HIDE DEF f
  <2>1. QED BY <1>3, <1>4, RulesAssumption, LargestExists
<1>6. \A y \in QosRules : BurstShare(x[2]) >= BurstShare(y[2])
    BY <1>5
<1>7. BurstShare(x[2]) \in S /\ \A y \in S : BurstShare(x[2]) >= y
    BY <1>6 DEF Configs
<1>8. Max(S) \in Nat /\ \A y \in S : Max(S) >= y
  <2> HIDE DEF S
  <2>1. QED BY <1>2, <1>7, MaxIs
<1>9. QED BY <1>8, <1>1 DEF LargestBurst

\* There are finitely many keys.
LEMMA KeysFinite == IsFiniteSet(QosKeys)
<1> DEFINE f == [r \in QosRules |-> r[1]]
<1>1. f \in Surjection(QosRules, QosKeys)
    BY DEF Surjection, QosKeys
<1>2. QED
  <2> HIDE DEF f
  <2>1. QED BY <1>1, RulesAssumption, FS_Surjection

(***************************************************************************)
(* The inductive invariant.                                                *)
(***************************************************************************)
\* A packet that found no bucket took the time in the past, and its tokens
\* are within some rule's burst.
Waiting == [key : QosKeys, now : 0 .. clock, tokens : 0 .. LargestBurst]

Windows == [key : QosKeys \cup {NoKey}, cpu : Cpus \cup {NoCpu}, since : 0 .. clock,
            passed : Nat, spilt : Nat]

\* TypeOK, and the shape of what it does not mention.
Types ==
    /\ \A key \in DOMAIN QOS_CONFIG : << key, QOS_CONFIG[key] >> \in QosRules
    /\ DOMAIN QOS_TOKEN_BUCKET \subseteq QosKeys
    /\ Cardinality(DOMAIN QOS_TOKEN_BUCKET) <= MaxBuckets
    /\ \A key \in DOMAIN QOS_TOKEN_BUCKET : QOS_TOKEN_BUCKET[key] \in [Cpus -> Bucket]
    /\ clock \in 0 .. MaxClock
    /\ pending \in [Cpus -> Waiting \cup {NoPacket}]
    /\ window \in Windows
    /\ window.key # NoKey => window.key \in DOMAIN QOS_CONFIG /\ window.cpu \in Cpus

\* The packet of the observed key and CPU that still has its bucket to insert.
Mine == pending[window.cpu]
Waits == Mine # NoPacket /\ Mine.key = window.key

Observed == window.key # NoKey
HasBucket == window.key \in DOMAIN QOS_TOKEN_BUCKET
Full == Cardinality(DOMAIN QOS_TOKEN_BUCKET) >= MaxBuckets

Allowance == BurstShare(Rule) + Excess

\* What was let through and what is left is at most the allowance and what
\* came since the window opened: until the refill, and for a shaped rule once
\* more until the packets scheduled will have left.
Within(tokens, refilled, edt) ==
    (tokens + window.passed) * Second
        <= Allowance * Second + RateShare(Rule) * (refilled - window.since)
               + (IF Shaped(window.key) THEN RateShare(Rule) * (Larger(edt, refilled) - window.since)
                                        ELSE 0)

\* Once something has passed, the bucket is within the quota; or it is yet to
\* be inserted, with what the first packet left; or there is no room for it,
\* and there never will be.
Rationed ==
    IF Waits THEN \/ ~HasBucket /\ Full
                  \/ Mine.tokens + window.passed <= Allowance /\ Mine.now >= window.since
    ELSE IF HasBucket THEN Within(Watched.tokens, Watched.last_refill_ns, Watched.last_edt)
    ELSE Full

QuotaInv ==
    Observed /\ window.passed # 0 /\ (Shaped(window.key) => Second % RateShare(Rule) = 0)
        => Rationed

\* What came since the window opened was spent, is kept, or was spilt.
Accounted(tokens, refilled) ==
    (tokens + window.passed + window.spilt) * Second
        >= RateShare(Rule) * (refilled - window.since)

CreditInv ==
    Observed => /\ Waits => Accounted(Mine.tokens, Mine.now)
                /\ HasBucket => Accounted(Watched.tokens, Watched.last_refill_ns)

IInv == Types /\ QuotaInv /\ CreditInv
(***************************************************************************)
(* What a state of these types determines.                                 *)
(***************************************************************************)
\* TypeOK is part of it.
LEMMA TypesTypeOK == Types => TypeOK
<1>1. SUFFICES ASSUME Types PROVE TypeOK
    OBVIOUS
<1>2. \A c \in Cpus : pending[c] # NoPacket => pending[c].now \in 0 .. clock
  <2>1. TAKE c \in Cpus
  <2>2. pending[c] \in Waiting \cup {NoPacket}
      BY <1>1 DEF Types
  <2>3. QED BY <2>2 DEF Waiting
<1>3. window.key \in DOMAIN QOS_CONFIG \cup {NoKey}
    BY <1>1 DEF Types
<1>4. QED BY <1>1, <1>2, <1>3 DEF Types, TypeOK

\* A rule in force is one of the rules.
LEMMA RuleInForce ==
    ASSUME Types, NEW key \in DOMAIN QOS_CONFIG
    PROVE  key \in QosKeys /\ QOS_CONFIG[key] \in Configs
<1>1. << key, QOS_CONFIG[key] >> \in QosRules
    BY DEF Types
<1>2. QED BY <1>1 DEF QosKeys, Configs

\* The rule of an open window.
LEMMA WindowRule ==
    ASSUME Types, Observed
    PROVE  /\ window.key \in QosKeys /\ window.cpu \in Cpus /\ Rule \in Configs
           /\ window.since \in Nat /\ window.passed \in Nat /\ window.spilt \in Nat
           /\ window.since <= clock /\ clock \in Nat
           /\ RateShare(Rule) \in Nat \ {0} /\ BurstShare(Rule) \in Nat \ {0}
           /\ Excess \in Nat /\ Allowance \in Nat
           /\ \A n \in Nat : n <= Longest => n <= Allowance
<1>1. window.key \in DOMAIN QOS_CONFIG /\ window.cpu \in Cpus
    BY DEF Types, Observed
<1>2. window.key \in QosKeys /\ Rule \in Configs
    BY <1>1, RuleInForce DEF Rule
<1>3. RateShare(Rule) \in Nat \ {0} /\ BurstShare(Rule) \in Nat \ {0}
    BY <1>2, Shares
<1>4. Longest \in Nat
    BY LongestPacket
<1>5. Excess \in Nat /\ BurstShare(Rule) + Excess >= Longest
    BY <1>3, <1>4 DEF Excess, Larger
<1>6. window.since \in 0 .. clock /\ window.passed \in Nat /\ window.spilt \in Nat
    BY DEF Types, Windows
<1>7. clock \in Nat
    BY BoundsAssumption DEF Types
<1>8. Allowance \in Nat
    BY <1>3, <1>5 DEF Allowance
<1>9. QED BY <1>1, <1>2, <1>3, <1>4, <1>5, <1>6, <1>7, <1>8 DEF Allowance

\* The packet that a CPU still has to insert a bucket for.
LEMMA WaitingPacket ==
    ASSUME Types, NEW c \in Cpus, pending[c] # NoPacket
    PROVE  /\ pending[c].key \in QosKeys
           /\ pending[c].now \in Nat /\ pending[c].now <= clock
           /\ pending[c].tokens \in Nat /\ pending[c].tokens <= LargestBurst
<1>1. pending[c] \in Waiting
    BY DEF Types
<1>2. clock \in Nat
    BY BoundsAssumption DEF Types
<1>3. QED BY <1>1, <1>2 DEF Waiting

\* What a packet that finds its bucket computes: the refill is capped, gives
\* no more than the rate, and with what is spilt no less.
LEMMA Refill ==
    ASSUME Types, NEW c \in Cpus,
           NEW key \in DOMAIN QOS_CONFIG, key \in DOMAIN QOS_TOKEN_BUCKET
    PROVE  LET config == QOS_CONFIG[key]
               bucket == QOS_TOKEN_BUCKET[key][c]
           IN  /\ bucket.tokens \in Nat /\ bucket.last_edt \in Nat
               /\ bucket.last_refill_ns \in Nat /\ bucket.last_refill_ns <= clock
               /\ Refilled(bucket, config) \in 0 .. BurstShare(config)
               /\ Spilt(bucket, config) \in Nat
               /\ Refilled(bucket, config) * Second
                      <= bucket.tokens * Second + RateShare(config) * (clock - bucket.last_refill_ns)
               /\ (Refilled(bucket, config) + Spilt(bucket, config)) * Second
                      >= bucket.tokens * Second + RateShare(config) * (clock - bucket.last_refill_ns)
<1> DEFINE config == QOS_CONFIG[key]
           bucket == QOS_TOKEN_BUCKET[key][c]
           R == RateShare(config)
           B == BurstShare(config)
           t == bucket.tokens
           e == clock - bucket.last_refill_ns
           k == ComputeRefill(R, e)
           m == (R * e) % Second
           lost == IF m = 0 THEN 0 ELSE 1
<1>1. bucket \in Bucket
    BY DEF Types
<1>2. clock \in Nat
    BY BoundsAssumption DEF Types
<1>3. t \in Nat /\ bucket.last_edt \in Nat /\ bucket.last_refill_ns \in Nat
      /\ bucket.last_refill_ns <= clock
    BY <1>1, <1>2 DEF Bucket
<1>4. e \in Nat
    BY <1>2, <1>3
<1>5. R \in Nat \ {0} /\ B \in Nat \ {0}
    BY RuleInForce, Shares
<1>6. /\ k \in Nat /\ k * Second <= R * e /\ R * e < (k + 1) * Second
      /\ m = 0 => k * Second = R * e
  <2> HIDE DEF R, e
  <2>1. QED BY <1>4, <1>5, RefillBounds
<1>7. Refilled(bucket, config) = (IF t + k < B THEN t + k ELSE B)
    BY DEF Refilled, Accrued, Smaller
<1>8. Spilt(bucket, config) = (IF t + k - B > 0 THEN t + k - B ELSE 0) + lost
  <2> DEFINE accrued == Accrued(bucket, config)
             larger == Larger(accrued - B, 0)
             spilt == Spilt(bucket, config)
  <2>1. accrued = t + k
      BY DEF Accrued
  <2>2. spilt = larger + lost
      BY Zenon DEF Spilt
  <2>3. larger = (IF accrued - B > 0 THEN accrued - B ELSE 0)
      BY Zenon DEF Larger
  <2>4. spilt = (IF t + k - B > 0 THEN t + k - B ELSE 0) + lost
    <3>1. t \in Nat /\ k \in Nat /\ B \in Nat /\ lost \in Nat
        BY <1>3, <1>5, <1>6
    <3> HIDE DEF accrued, larger, spilt, lost, t, k, B
    <3>2. QED BY <2>1, <2>2, <2>3, <3>1
  <2>5. QED BY <2>4
<1> DEFINE ref == Refilled(bucket, config)
           sp == Spilt(bucket, config)
<1>9. ref \in 0 .. B /\ ref <= t + k
  <2> HIDE DEF t, k, B
  <2>1. QED BY <1>3, <1>5, <1>6, <1>7
<1>10. sp \in Nat /\ ref + sp >= t + k + lost
  <2>1. lost \in Nat
      OBVIOUS
  <2> HIDE DEF t, k, B, lost
  <2>2. QED BY <1>3, <1>5, <1>6, <1>7, <1>8, <2>1
<1>11. (k + lost) * Second >= R * e
  <2>1. R * e \in Nat /\ k * Second \in Nat
      BY <1>4, <1>5, <1>6, SecondAssumption
  <2>2. CASE m = 0
    <3>1. k + lost = k
        BY <2>2, <1>6
    <3>2. QED BY <3>1, <2>1, <2>2, <1>6
  <2>3. CASE m # 0
    <3>1. k + lost = k + 1
        BY <2>3
    <3> HIDE DEF k, lost, R, e
    <3>2. (k + 1) * Second \in Nat
        BY <1>6, SecondAssumption
    <3>3. QED BY <3>1, <3>2, <2>1, <1>6
  <2>4. QED BY <2>2, <2>3
<1>12. ref * Second <= t * Second + R * e
  <2> HIDE DEF t, k, R, e, ref
  <2>1. ref * Second <= (t + k) * Second
    <3>1. ref \in Int /\ t + k \in Int /\ ref <= t + k /\ Second \in Nat
        BY <1>3, <1>6, <1>9, <1>5, SecondAssumption
    <3>2. QED BY <3>1, TimesMono
  <2>2. (t + k) * Second = t * Second + k * Second
      BY <1>3, <1>6, SecondAssumption
  <2>3. QED BY <2>1, <2>2, <1>3, <1>4, <1>5, <1>6, <1>9, SecondAssumption
<1>13. (ref + sp) * Second >= t * Second + R * e
  <2>1. lost \in Nat
      OBVIOUS
  <2> HIDE DEF t, k, R, e, ref, sp, lost
  <2>2. (t + k + lost) * Second <= (ref + sp) * Second
    <3>1. ref + sp \in Int /\ t + k + lost \in Int /\ t + k + lost <= ref + sp /\ Second \in Nat
        BY <2>1, <1>3, <1>6, <1>9, <1>10, <1>5, SecondAssumption
    <3>2. QED BY <3>1, TimesMono
  <2>3. (t + k + lost) * Second = t * Second + (k + lost) * Second
      BY <2>1, <1>3, <1>6, SecondAssumption
  <2>4. QED BY <2>1, <2>2, <2>3, <1>3, <1>4, <1>5, <1>6, <1>9, <1>10, <1>11, SecondAssumption
<1>14. QED BY <1>3, <1>9, <1>10, <1>12, <1>13

\* A key that limits a packet has a rule in force.
LEMMA LimitedRule ==
    ASSUME NEW c, NEW key, NEW pkt, Limited(c, key, pkt)
    PROVE  key \in DOMAIN QOS_CONFIG /\ pending[c] = NoPacket
<1>1. CASE pkt[1] \in Limits(pkt[1], pkt[2])
    BY <1>1 DEF Limited, LimitingKey, Limits
<1>2. CASE pkt[1] \notin Limits(pkt[1], pkt[2])
  <2>1. 0 \in Limits(pkt[1], pkt[2])
      BY <1>2 DEF Limited, Limits
  <2>2. QED BY <1>2, <2>1 DEF Limited, LimitingKey, Limits
<1>3. QED BY <1>1, <1>2

\* What a packet that found its bucket leaves there, with what it was let
\* through: the tokens of the refill, unless it is scheduled; then as many
\* more as come until the packets scheduled so far have left.
Served(c, key, tokens, edt, passed) ==
    LET config == QOS_CONFIG[key]
        bucket == QOS_TOKEN_BUCKET[key][c]
        refill == Refilled(bucket, config)
    IN  /\ tokens \in 0 .. BurstShare(config) /\ edt \in Nat /\ passed \in Nat
        /\ Update(c, key, tokens, edt)
        /\ Account(c, key, passed, Spilt(bucket, config))
        /\ tokens + passed >= refill
        /\ ~Shaped(key) => tokens + passed = refill
        /\ Shaped(key) /\ Second % RateShare(config) = 0 =>
               (tokens + passed) * Second
                   = refill * Second + RateShare(config)
                                        * (Larger(edt, clock) - Larger(bucket.last_edt, clock))

\* A policed packet takes its tokens or is dropped.
LEMMA PoliceServes ==
    ASSUME Types, NEW c \in Cpus, NEW key \in DOMAIN QOS_CONFIG, NEW pkt \in Packets,
           key \in DOMAIN QOS_TOKEN_BUCKET, ~Shaped(key), Police(c, key, pkt)
    PROVE  \E tokens, edt, passed : Served(c, key, tokens, edt, passed)
<1> DEFINE config == QOS_CONFIG[key]
           bucket == QOS_TOKEN_BUCKET[key][c]
           refill == Refilled(bucket, config)
<1>1. pkt[3] \in Nat /\ refill \in 0 .. BurstShare(config) /\ bucket.last_edt \in Nat
    BY LongestPacket, Refill
<1>2. BurstShare(config) \in Nat
    BY RuleInForce, Shares
<1>3. CASE refill >= pkt[3]
  <2>1. Served(c, key, refill - pkt[3], bucket.last_edt, pkt[3])
    <3>1. /\ Update(c, key, refill - pkt[3], bucket.last_edt)
          /\ Account(c, key, pkt[3], Spilt(bucket, config))
        BY <1>3 DEF Police
    <3>2. refill - pkt[3] \in 0 .. BurstShare(config) /\ refill - pkt[3] + pkt[3] = refill
        BY <1>1, <1>2, <1>3
    <3>3. QED BY <3>1, <3>2, <1>1, <1>2 DEF Served
  <2>2. QED BY <2>1
<1>4. CASE ~(refill >= pkt[3])
  <2>1. Served(c, key, refill, bucket.last_edt, 0)
    <3>1. /\ Update(c, key, refill, bucket.last_edt)
          /\ Account(c, key, 0, Spilt(bucket, config))
        BY <1>4 DEF Police
    <3>2. refill + 0 = refill
        BY <1>1, <1>2
    <3>3. QED BY <3>1, <3>2, <1>1, <1>2 DEF Served
  <2>2. QED BY <2>1
<1>5. QED BY <1>3, <1>4

\* A shaped packet takes its tokens, or those there are, and is scheduled.
LEMMA ShapeServes ==
    ASSUME Types, NEW c \in Cpus, NEW key \in DOMAIN QOS_CONFIG, NEW pkt \in Packets,
           key \in DOMAIN QOS_TOKEN_BUCKET, Shaped(key), Shape(c, key, pkt)
    PROVE  \E tokens, edt, passed : Served(c, key, tokens, edt, passed)
<1> DEFINE config == QOS_CONFIG[key]
           bucket == QOS_TOKEN_BUCKET[key][c]
           refill == Refilled(bucket, config)
           R == RateShare(config)
           last == bucket.last_edt
<1>1. pkt[3] \in Nat /\ refill \in 0 .. BurstShare(config) /\ last \in Nat
    BY LongestPacket, Refill
<1>2. BurstShare(config) \in Nat /\ R \in Nat \ {0}
    BY RuleInForce, Shares
<1>3. clock \in Nat
    BY BoundsAssumption DEF Types
<1>4. CASE refill >= pkt[3]
  <2> DEFINE edt == IF last < clock THEN 0 ELSE last
  <2>1. Served(c, key, refill - pkt[3], edt, pkt[3])
    <3>1. /\ Update(c, key, refill - pkt[3], edt)
          /\ Account(c, key, pkt[3], Spilt(bucket, config))
        BY <1>4 DEF Shape
    <3>2. refill - pkt[3] \in 0 .. BurstShare(config) /\ refill - pkt[3] + pkt[3] = refill
        BY <1>1, <1>2, <1>4
    <3>3. edt \in Nat /\ Larger(edt, clock) = Larger(last, clock)
        BY <1>1, <1>3 DEF Larger
    <3>4. Larger(edt, clock) - Larger(last, clock) = 0
        BY <3>3, <1>1, <1>3 DEF Larger
    <3>5. refill * Second = refill * Second + R * 0
        BY <1>1, <1>2, SecondAssumption
    <3> HIDE DEF edt
    <3>6. QED BY <3>1, <3>2, <3>3, <3>4, <3>5, <1>1, <1>2 DEF Served
  <2>2. QED BY <2>1
<1>5. CASE ~(refill >= pkt[3])
  <2> DEFINE deficit == pkt[3] - refill
             delay == ComputeDelay(deficit, R)
             edt == Base(last) + delay
  <2>1. deficit \in Nat /\ refill < pkt[3]
      BY <1>1, <1>2, <1>5
  <2>2. delay \in Nat
    <3>1. deficit * Second \in Nat
        BY <2>1, SecondAssumption
    <3>2. QED BY <3>1, <1>2, DivMod DEF ComputeDelay
  <2>3. Base(last) = Larger(last, clock) /\ Base(last) \in Nat /\ Base(last) >= clock
      BY <1>1, <1>3 DEF Base, Larger
  <2>4. edt \in Nat /\ Larger(edt, clock) = edt
      BY <1>3, <2>2, <2>3 DEF Larger
  <2>5. Larger(edt, clock) - Larger(last, clock) = delay
      BY <2>2, <2>3, <2>4
  <2>6. ASSUME Second % R = 0 PROVE (0 + pkt[3]) * Second = refill * Second + R * delay
    <3>1. R * delay = deficit * Second
      <4> HIDE DEF deficit, R
      <4>1. QED BY <1>2, <2>1, <2>6, DelayExact
    <3>2. refill * Second + deficit * Second = pkt[3] * Second
        BY <1>1, <1>2, <2>1, SecondAssumption
    <3>3. QED BY <3>1, <3>2, <1>1
  <2>7. Served(c, key, 0, edt, pkt[3])
    <3>1. /\ Update(c, key, 0, edt)
          /\ Account(c, key, pkt[3], Spilt(bucket, config))
        BY <1>5 DEF Shape
    <3>2. 0 + pkt[3] >= refill /\ 0 \in 0 .. BurstShare(config)
        BY <1>1, <1>2, <2>1
    <3> HIDE DEF edt, delay
    <3>3. QED BY <3>1, <3>2, <2>4, <2>5, <2>6, <1>1, <1>2 DEF Served
  <2>8. QED BY <2>7
<1>6. QED BY <1>4, <1>5

\* Either way.
LEMMA HitServes ==
    ASSUME Types, NEW c \in Cpus, NEW key \in QosKeys, NEW pkt \in Packets, Hit(c, key, pkt)
    PROVE  /\ key \in DOMAIN QOS_CONFIG /\ key \in DOMAIN QOS_TOKEN_BUCKET
           /\ pending[c] = NoPacket
           /\ \E tokens, edt, passed : Served(c, key, tokens, edt, passed)
<1>1. key \in DOMAIN QOS_CONFIG /\ pending[c] = NoPacket
    BY LimitedRule DEF Hit
<1>2. QED BY <1>1, PoliceServes, ShapeServes DEF Hit

(***************************************************************************)
(* Every step keeps the types.                                             *)
(***************************************************************************)
\* Accounting changes nothing of a window but its counters.
LEMMA AccountKeeps ==
    ASSUME Types, NEW c, NEW key, NEW passed \in Nat, NEW spilt \in Nat,
           Account(c, key, passed, spilt)
    PROVE  /\ window' \in Windows
           /\ window'.key = window.key /\ window'.cpu = window.cpu
           /\ window'.since = window.since
           /\ window'.passed =
                  IF window.key = key /\ window.cpu = c THEN window.passed + passed ELSE window.passed
           /\ window'.spilt =
                  IF window.key = key /\ window.cpu = c THEN window.spilt + spilt ELSE window.spilt
<1>1. window \in Windows
    BY DEF Types
<1>2. CASE window.key = key /\ window.cpu = c
  <2>1. window' = [window EXCEPT !.passed = @ + passed, !.spilt = @ + spilt]
      BY <1>2 DEF Account
  <2>2. window.passed + passed \in Nat /\ window.spilt + spilt \in Nat
      BY <1>1 DEF Windows
  <2>3. QED BY <2>1, <2>2, <1>1, <1>2 DEF Windows
<1>3. CASE ~(window.key = key /\ window.cpu = c)
  <2>1. window' = window
      BY <1>3 DEF Account
  <2>2. QED BY <2>1, <1>1, <1>3
<1>4. QED BY <1>2, <1>3

\* The window that is closed is one.
LEMMA ClosedIsWindow ==
    ASSUME clock \in Nat
    PROVE  Closed \in Windows /\ Closed.key = NoKey
BY DEF Closed, Windows

\* The types hold at first.
LEMMA TypesInit == Init => Types
<1>1. SUFFICES ASSUME Init PROVE Types
    OBVIOUS
<1>2. DOMAIN QOS_CONFIG = {} /\ DOMAIN QOS_TOKEN_BUCKET = {}
    BY <1>1 DEF Init
<1>3. Cardinality(DOMAIN QOS_TOKEN_BUCKET) = 0
    BY <1>2, FS_EmptySet
<1>4. clock \in Nat /\ clock \in 0 .. MaxClock
    BY <1>1, BoundsAssumption DEF Init
<1>5. window \in Windows /\ window.key = NoKey
    BY <1>1, <1>4, ClosedIsWindow DEF Init
<1>6. pending \in [Cpus -> Waiting \cup {NoPacket}]
    BY <1>1 DEF Init
<1>7. QED BY <1>2, <1>3, <1>4, <1>5, <1>6, BoundsAssumption DEF Types

\* A packet that finds no bucket.
LEMMA TypesMiss ==
    ASSUME Types, NEW c \in Cpus, NEW key \in QosKeys, NEW pkt \in Packets, Miss(c, key, pkt)
    PROVE  Types'
<1> DEFINE config == QOS_CONFIG[key]
           left == Larger(BurstShare(config) - pkt[3], 0)
           new == [key |-> key, now |-> clock, tokens |-> left]
<1>1. key \in DOMAIN QOS_CONFIG
    BY LimitedRule DEF Miss
<1>2. config \in Configs
    BY <1>1, RuleInForce
<1>3. BurstShare(config) \in Nat /\ BurstShare(config) <= LargestBurst /\ LargestBurst \in Nat
    BY <1>2, Shares, LargestBurstShare
<1>4. pkt[3] \in Nat
    BY LongestPacket
<1>5. left \in 0 .. LargestBurst
    BY <1>3, <1>4 DEF Larger
<1>6. clock \in 0 .. clock
    BY BoundsAssumption DEF Types
<1>7. new \in Waiting
  <2> HIDE DEF left
  <2>1. QED BY <1>5, <1>6 DEF Waiting
<1>8. pending' \in [Cpus -> Waiting \cup {NoPacket}]
  <2>1. pending' = [pending EXCEPT ![c] = new]
      BY DEF Miss
  <2> HIDE DEF new
  <2>2. QED BY <1>7, <2>1 DEF Types
<1>9. window' \in Windows /\ window'.key = window.key /\ window'.cpu = window.cpu
  <2>1. CASE window.key = key /\ window.cpu = c
    <3>1. window.since \in 0 .. clock /\ clock \in Nat
        BY BoundsAssumption DEF Types, Windows
    <3>2. clock - window.since \in Nat
        BY <3>1
    <3>3. ComputeRefill(RateShare(config), clock - window.since) \in Nat
        BY <3>2, <1>2, Shares, RefillExact
    <3>4. QED BY <3>3, <1>4, AccountKeeps DEF Miss
  <2>2. CASE ~(window.key = key /\ window.cpu = c)
    <3>1. window' = window
        BY <2>2 DEF Miss, Account
    <3>2. QED BY <3>1 DEF Types
  <2>3. QED BY <2>1, <2>2
<1>10. UNCHANGED << QOS_CONFIG, QOS_TOKEN_BUCKET, clock >>
    BY DEF Miss
<1>11. Waiting' = Waiting /\ Windows' = Windows /\ Bucket' = Bucket
    BY <1>10 DEF Waiting, Windows, Bucket
<1>12. QED BY <1>8, <1>9, <1>10, <1>11 DEF Types

\* A packet that inserts the bucket it did not find.
LEMMA TypesInitBucket ==
    ASSUME Types, NEW c \in Cpus, InitBucket(c)
    PROVE  Types'
<1> DEFINE p == pending[c]
           known == p.key \in DOMAIN QOS_TOKEN_BUCKET
           cpus == IF known THEN QOS_TOKEN_BUCKET[p.key] ELSE [d \in Cpus |-> Zero]
           mine == [tokens |-> p.tokens, last_refill_ns |-> p.now, last_edt |-> 0]
           new == [cpus EXCEPT ![c] = mine]
<1>1. p # NoPacket
    BY DEF InitBucket
<1>2. /\ p.key \in QosKeys /\ p.now \in Nat /\ p.now <= clock
      /\ p.tokens \in Nat /\ p.tokens <= LargestBurst
    BY <1>1, WaitingPacket
<1>3. clock \in Nat /\ LargestBurst \in Nat
  <2>1. clock \in Nat
      BY BoundsAssumption DEF Types
  <2>2. PICK r \in QosRules : TRUE
      BY <1>2 DEF QosKeys
  <2>3. r[2] \in Configs
      BY <2>2 DEF Configs
  <2>4. QED BY <2>1, <2>3, LargestBurstShare
<1>4. mine \in Bucket
    BY <1>2, <1>3 DEF Bucket
<1>5. Zero \in Bucket
    BY <1>3 DEF Bucket, Zero
<1>6. cpus \in [Cpus -> Bucket]
    BY <1>5 DEF Types
<1>7. new \in [Cpus -> Bucket]
  <2> HIDE DEF cpus, mine
  <2>1. QED BY <1>4, <1>6
<1>8. /\ UNCHANGED << QOS_CONFIG, clock, window >>
      /\ pending' = [pending EXCEPT ![c] = NoPacket]
    BY DEF InitBucket
<1>9. pending' \in [Cpus -> Waiting \cup {NoPacket}]
    BY <1>8 DEF Types
<1>10. /\ DOMAIN QOS_TOKEN_BUCKET' \subseteq QosKeys
       /\ Cardinality(DOMAIN QOS_TOKEN_BUCKET') <= MaxBuckets
       /\ \A key \in DOMAIN QOS_TOKEN_BUCKET' : QOS_TOKEN_BUCKET'[key] \in [Cpus -> Bucket]
  <2>1. CASE known \/ Cardinality(DOMAIN QOS_TOKEN_BUCKET) < MaxBuckets
    <3>1. QOS_TOKEN_BUCKET' = Put(QOS_TOKEN_BUCKET, p.key, new)
        BY <2>1 DEF InitBucket
    <3>2. DOMAIN QOS_TOKEN_BUCKET' = DOMAIN QOS_TOKEN_BUCKET \cup {p.key}
        BY <3>1 DEF Put
    <3>3. \A key \in DOMAIN QOS_TOKEN_BUCKET' :
              QOS_TOKEN_BUCKET'[key] = IF key = p.key THEN new ELSE QOS_TOKEN_BUCKET[key]
      <4> HIDE DEF new, p
      <4>1. QED BY <3>1 DEF Put
    <3>4. IsFiniteSet(DOMAIN QOS_TOKEN_BUCKET)
        BY KeysFinite, FS_Subset DEF Types
    <3>5. Cardinality(DOMAIN QOS_TOKEN_BUCKET') =
              IF known THEN Cardinality(DOMAIN QOS_TOKEN_BUCKET)
                       ELSE Cardinality(DOMAIN QOS_TOKEN_BUCKET) + 1
        BY <3>2, <3>4, FS_AddElement
    <3>6. Cardinality(DOMAIN QOS_TOKEN_BUCKET') <= MaxBuckets
      <4>1. Cardinality(DOMAIN QOS_TOKEN_BUCKET) \in Nat
          BY <3>4, FS_CardinalityType
      <4>2. QED BY <3>5, <4>1, <2>1, BoundsAssumption DEF Types
    <3> HIDE DEF new, p
    <3>7. QED BY <1>2, <1>7, <3>2, <3>3, <3>6 DEF Types
  <2>2. CASE ~(known \/ Cardinality(DOMAIN QOS_TOKEN_BUCKET) < MaxBuckets)
    <3>1. QOS_TOKEN_BUCKET' = QOS_TOKEN_BUCKET
        BY <2>2 DEF InitBucket
    <3>2. QED BY <3>1 DEF Types
  <2>3. QED BY <2>1, <2>2
<1>11. Waiting' = Waiting /\ Windows' = Windows /\ Bucket' = Bucket
    BY <1>8 DEF Waiting, Windows, Bucket
<1>12. QED BY <1>8, <1>9, <1>10, <1>11 DEF Types

\* A packet that finds its bucket.
LEMMA TypesHit ==
    ASSUME Types, NEW c \in Cpus, NEW key \in QosKeys, NEW pkt \in Packets, Hit(c, key, pkt)
    PROVE  Types'
<1> DEFINE config == QOS_CONFIG[key]
<1>1. key \in DOMAIN QOS_CONFIG /\ key \in DOMAIN QOS_TOKEN_BUCKET
    BY HitServes
<1>2. PICK tokens, edt, passed : Served(c, key, tokens, edt, passed)
    BY HitServes
<1>3. BurstShare(config) \in Nat /\ BurstShare(config) <= LargestBurst /\ LargestBurst \in Nat
    BY <1>1, RuleInForce, Shares, LargestBurstShare
<1>4. clock \in Nat
    BY BoundsAssumption DEF Types
<1> DEFINE new == [tokens |-> tokens, last_refill_ns |-> clock, last_edt |-> edt]
<1>5. new \in Bucket
    BY <1>2, <1>3, <1>4 DEF Served, Bucket
<1>6. QOS_TOKEN_BUCKET' = [QOS_TOKEN_BUCKET EXCEPT ![key][c] = new]
    BY <1>2 DEF Served, Update
<1>7. /\ DOMAIN QOS_TOKEN_BUCKET' = DOMAIN QOS_TOKEN_BUCKET
      /\ \A k \in DOMAIN QOS_TOKEN_BUCKET' : QOS_TOKEN_BUCKET'[k] \in [Cpus -> Bucket]
  <2> HIDE DEF new
  <2>1. DOMAIN QOS_TOKEN_BUCKET' = DOMAIN QOS_TOKEN_BUCKET
      BY <1>6
  <2>2. ASSUME NEW k \in DOMAIN QOS_TOKEN_BUCKET'
        PROVE  QOS_TOKEN_BUCKET'[k] \in [Cpus -> Bucket]
    <3>1. QOS_TOKEN_BUCKET[k] \in [Cpus -> Bucket]
        BY <2>1 DEF Types
    <3>2. QOS_TOKEN_BUCKET'[k] =
              IF k = key THEN [QOS_TOKEN_BUCKET[key] EXCEPT ![c] = new] ELSE QOS_TOKEN_BUCKET[k]
        BY <1>6, <2>1
    <3>3. QED BY <3>1, <3>2, <1>5
  <2>3. QED BY <2>1, <2>2
<1>8. window' \in Windows /\ window'.key = window.key /\ window'.cpu = window.cpu
    BY <1>1, <1>2, Refill, AccountKeeps DEF Served
<1>9. UNCHANGED << QOS_CONFIG, clock, pending >>
    BY DEF Hit
<1>10. Waiting' = Waiting /\ Windows' = Windows /\ Bucket' = Bucket
    BY <1>9 DEF Waiting, Windows, Bucket
<1>11. QED BY <1>7, <1>8, <1>9, <1>10 DEF Types

\* A window is closed by the rule's handlers, or it is of another key.
LEMMA CloseKeeps ==
    ASSUME Types, NEW key, CloseWindow(key)
    PROVE  /\ window' \in Windows
           /\ window'.key # NoKey => window' = window /\ window.key # key
<1>1. clock \in Nat
    BY BoundsAssumption DEF Types
<1>2. CASE window.key = key
    BY <1>1, <1>2, ClosedIsWindow DEF CloseWindow
<1>3. CASE window.key # key
    BY <1>3 DEF CloseWindow, Types
<1>4. QED BY <1>2, <1>3

\* A rule is set.
LEMMA TypesAddQos ==
    ASSUME Types, NEW r \in QosRules, AddQos(r[1], r[2])
    PROVE  Types'
<1>1. QOS_CONFIG' = Put(QOS_CONFIG, r[1], r[2])
    BY DEF AddQos
<1>2. DOMAIN QOS_CONFIG' = DOMAIN QOS_CONFIG \cup {r[1]}
    BY <1>1 DEF Put
<1>3. \A key \in DOMAIN QOS_CONFIG' :
          QOS_CONFIG'[key] = IF key = r[1] THEN r[2] ELSE QOS_CONFIG[key]
    BY <1>1 DEF Put
<1>4. << r[1], r[2] >> = r
    BY RulesAssumption
<1>5. \A key \in DOMAIN QOS_CONFIG' : << key, QOS_CONFIG'[key] >> \in QosRules
    BY <1>2, <1>3, <1>4 DEF Types
<1>6. UNCHANGED << QOS_TOKEN_BUCKET, clock, pending >>
    BY DEF AddQos
<1>7. window' \in Windows /\ (window'.key # NoKey => window' = window)
    BY CloseKeeps DEF AddQos
<1>8. Waiting' = Waiting /\ Windows' = Windows /\ Bucket' = Bucket
    BY <1>6 DEF Waiting, Windows, Bucket
<1>9. QED BY <1>2, <1>5, <1>6, <1>7, <1>8 DEF Types

\* A rule is removed.
LEMMA TypesDeleteQos ==
    ASSUME Types, NEW key \in QosKeys, DeleteQos(key)
    PROVE  Types'
<1>1. QOS_CONFIG' = Restrict(QOS_CONFIG, DOMAIN QOS_CONFIG \ {key})
    BY DEF DeleteQos
<1>2. DOMAIN QOS_CONFIG' = DOMAIN QOS_CONFIG \ {key}
    BY <1>1 DEF Restrict
<1>3. \A k \in DOMAIN QOS_CONFIG' : QOS_CONFIG'[k] = QOS_CONFIG[k]
    BY <1>1 DEF Restrict
<1>4. \A k \in DOMAIN QOS_CONFIG' : << k, QOS_CONFIG'[k] >> \in QosRules
    BY <1>2, <1>3 DEF Types
<1>5. UNCHANGED << QOS_TOKEN_BUCKET, clock, pending >>
    BY DEF DeleteQos
<1>6. window' \in Windows /\ (window'.key # NoKey => window' = window /\ window.key # key)
    BY CloseKeeps DEF DeleteQos
<1>7. Waiting' = Waiting /\ Windows' = Windows /\ Bucket' = Bucket
    BY <1>5 DEF Waiting, Windows, Bucket
<1>8. QED BY <1>2, <1>4, <1>5, <1>6, <1>7 DEF Types

\* A window opens.
LEMMA TypesObserve ==
    ASSUME Types, NEW c \in Cpus, NEW key \in QosKeys, Observe(c, key)
    PROVE  Types'
<1>1. clock \in Nat /\ clock \in 0 .. clock
    BY BoundsAssumption DEF Types
<1>2. window' = [Closed EXCEPT !.key = key, !.cpu = c, !.since = clock]
    BY DEF Observe
<1>3. window' \in Windows /\ window'.key = key /\ window'.cpu = c
    BY <1>1, <1>2 DEF Closed, Windows
<1>4. key \in DOMAIN QOS_CONFIG /\ UNCHANGED << QOS_CONFIG, QOS_TOKEN_BUCKET, clock, pending >>
    BY DEF Observe
<1>5. Waiting' = Waiting /\ Windows' = Windows /\ Bucket' = Bucket
    BY <1>4 DEF Waiting, Windows, Bucket
<1>6. QED BY <1>3, <1>4, <1>5 DEF Types

\* Time passes.
LEMMA TypesTick ==
    ASSUME Types, Tick
    PROVE  Types'
<1>1. /\ clock < MaxClock /\ clock' = clock + 1
      /\ UNCHANGED << QOS_CONFIG, QOS_TOKEN_BUCKET, pending, window >>
    BY DEF Tick
<1>2. clock \in Nat /\ clock' \in 0 .. MaxClock
    BY <1>1, BoundsAssumption DEF Types
<1>3. 0 .. clock \subseteq 0 .. clock'
    BY <1>1, <1>2
<1>4. Waiting \subseteq Waiting' /\ Windows \subseteq Windows' /\ Bucket \subseteq Bucket'
  <2>1. LargestBurst' = LargestBurst
      BY DEF LargestBurst
  <2>2. QED BY <1>3, <2>1 DEF Waiting, Windows, Bucket
<1>5. pending' \in [Cpus -> Waiting' \cup {NoPacket}] /\ window' \in Windows'
    BY <1>1, <1>4 DEF Types
<1>6. \A key \in DOMAIN QOS_TOKEN_BUCKET' : QOS_TOKEN_BUCKET'[key] \in [Cpus -> Bucket']
  <2>1. TAKE key \in DOMAIN QOS_TOKEN_BUCKET'
  <2>2. QOS_TOKEN_BUCKET[key] \in [Cpus -> Bucket]
      BY <1>1 DEF Types
  <2>3. QED BY <1>1, <1>4, <2>2
<1>7. QED BY <1>1, <1>2, <1>5, <1>6 DEF Types

\* Any step.
LEMMA TypesStep == Types /\ [Next]_vars => Types'
<1>1. SUFFICES ASSUME Types, [Next]_vars PROVE Types'
    OBVIOUS
<1>2. CASE UNCHANGED vars
  <2>1. UNCHANGED << QOS_CONFIG, QOS_TOKEN_BUCKET, clock, pending, window >>
      BY <1>2 DEF vars
  <2>2. Waiting' = Waiting /\ Windows' = Windows /\ Bucket' = Bucket
      BY <2>1 DEF Waiting, Windows, Bucket
  <2>3. QED BY <1>1, <2>1, <2>2 DEF Types
<1>3. ASSUME NEW c \in Cpus, NEW key \in QosKeys, NEW pkt \in Packets, Miss(c, key, pkt)
      PROVE  Types'
    BY <1>1, <1>3, TypesMiss
<1>4. ASSUME NEW c \in Cpus, NEW key \in QosKeys, NEW pkt \in Packets, Hit(c, key, pkt)
      PROVE  Types'
    BY <1>1, <1>4, TypesHit
<1>5. ASSUME NEW c \in Cpus, InitBucket(c) PROVE Types'
    BY <1>1, <1>5, TypesInitBucket
<1>6. ASSUME NEW r \in QosRules, AddQos(r[1], r[2]) PROVE Types'
    BY <1>1, <1>6, TypesAddQos
<1>7. ASSUME NEW key \in QosKeys, DeleteQos(key) PROVE Types'
    BY <1>1, <1>7, TypesDeleteQos
<1>8. ASSUME NEW c \in Cpus, NEW key \in QosKeys, Observe(c, key) PROVE Types'
    BY <1>1, <1>8, TypesObserve
<1>9. ASSUME Tick PROVE Types'
    BY <1>1, <1>9, TypesTick
<1>10. QED BY <1>1, <1>2, <1>3, <1>4, <1>5, <1>6, <1>7, <1>8, <1>9 DEF Next

(***************************************************************************)
(* Every step keeps the accounts.                                          *)
(***************************************************************************)
\* A step that lets nothing of the observed key through on the observed CPU:
\* its bucket stays, or another CPU inserts it, which takes room in the map.
LEMMA Untouched ==
    ASSUME Types, Types', QuotaInv, CreditInv, Observed,
           window' = window, Rule' = Rule,
           Waits' <=> Waits, Waits => Mine' = Mine,
           HasBucket => HasBucket' /\ Watched' = Watched,
           ~HasBucket /\ HasBucket' => ~Full /\ Watched' = Zero,
           Full => Full'
    PROVE  QuotaInv' /\ CreditInv'
<1>1. QOS_CONFIG'[window'.key] = QOS_CONFIG[window.key]
    BY DEF Rule
<1>2. Shaped(window.key)' <=> Shaped(window.key)
    BY <1>1 DEF Shaped
<1>3. Excess' = Excess /\ Allowance' = Allowance
    BY DEF Excess, Allowance
<1>4. ASSUME HasBucket
      PROVE  /\ Within(Watched.tokens, Watched.last_refill_ns, Watched.last_edt)
                    => Within(Watched.tokens, Watched.last_refill_ns, Watched.last_edt)'
             /\ Accounted(Watched.tokens, Watched.last_refill_ns)
                    => Accounted(Watched.tokens, Watched.last_refill_ns)'
    BY <1>2, <1>3, <1>4 DEF Within, Accounted
<1>5. Waits /\ Accounted(Mine.tokens, Mine.now) => Accounted(Mine.tokens, Mine.now)'
    BY DEF Accounted
<1>6. QuotaInv'
  <2>1. SUFFICES ASSUME Observed /\ window.passed # 0
                            /\ (Shaped(window.key) => Second % RateShare(Rule) = 0)
                 PROVE  Rationed'
      BY <1>2 DEF QuotaInv, Observed
  <2>2. Rationed
      BY <2>1 DEF QuotaInv
  <2>3. CASE Waits
      BY <2>2, <2>3, <1>3 DEF Rationed
  <2>4. CASE ~Waits /\ HasBucket
      BY <2>2, <2>4, <1>4 DEF Rationed
  <2>5. CASE ~Waits /\ ~HasBucket
      BY <2>2, <2>5 DEF Rationed
  <2>6. QED BY <2>3, <2>4, <2>5
<1>7. CreditInv'
  <2>1. Waits' => Accounted(Mine.tokens, Mine.now)'
      BY <1>5 DEF CreditInv
  <2>2. HasBucket' => Accounted(Watched.tokens, Watched.last_refill_ns)'
    <3>1. CASE HasBucket
        BY <3>1, <1>4 DEF CreditInv
    <3>2. CASE ~HasBucket /\ HasBucket'
      <4> DEFINE p == window.passed
                 l == window.spilt
                 s == window.since
                 R == RateShare(Rule)
      <4>1. /\ p \in Nat /\ l \in Nat /\ s \in Nat
            /\ R \in Nat \ {0}
          BY WindowRule
      <4>2. (0 + p + l) * Second \in Nat /\ R * s \in Nat
          BY <4>1, SecondAssumption
      <4>3. R * (0 - s) = 0 - R * s
          BY <4>1
      <4>4. (0 + p + l) * Second >= R * (0 - s)
        <5> HIDE DEF p, l, s, R
        <5>1. QED BY <4>1, <4>2, <4>3
      <4>5. Watched.tokens' = 0 /\ Watched.last_refill_ns' = 0
          BY <3>2 DEF Zero
      <4>6. QED BY <4>4, <4>5 DEF Accounted
    <3>3. QED BY <3>1, <3>2
  <2>3. QED BY <2>1, <2>2 DEF CreditInv
<1>8. QED BY <1>6, <1>7

\* No bucket is removed, so a full map stays full.
LEMMA StaysFull ==
    ASSUME Types, Types', DOMAIN QOS_TOKEN_BUCKET \subseteq DOMAIN QOS_TOKEN_BUCKET', Full
    PROVE  Full'
<1>1. IsFiniteSet(DOMAIN QOS_TOKEN_BUCKET) /\ IsFiniteSet(DOMAIN QOS_TOKEN_BUCKET')
    BY KeysFinite, FS_Subset DEF Types
<1>2. /\ Cardinality(DOMAIN QOS_TOKEN_BUCKET) <= Cardinality(DOMAIN QOS_TOKEN_BUCKET')
      /\ Cardinality(DOMAIN QOS_TOKEN_BUCKET) \in Nat
      /\ Cardinality(DOMAIN QOS_TOKEN_BUCKET') \in Nat
    BY <1>1, FS_Subset, FS_CardinalityType
<1>3. QED BY <1>2, BoundsAssumption DEF Full

\* A closed window has no accounts.
LEMMA ClosedAccounts == ~Observed => QuotaInv /\ CreditInv
BY DEF QuotaInv, CreditInv

\* A packet that found no bucket is not none.
LEMMA WaitingIsSome ==
    ASSUME NEW key \in QosKeys, NEW now \in Nat, NEW tokens \in Nat
    PROVE  [key |-> key, now |-> now, tokens |-> tokens] # NoPacket
<1>1. [key |-> key, now |-> now, tokens |-> tokens] \in [key : QosKeys, now : Nat, tokens : Nat]
    OBVIOUS
<1>2. QED BY <1>1, NoneAssumption

\* The first packet of the observed key passes: within the allowance if
\* nothing passed before, and otherwise the map is full.
LEMMA OwnMiss ==
    ASSUME IInv, Types', NEW pkt \in Packets, Observed, Miss(window.cpu, window.key, pkt)
    PROVE  QuotaInv' /\ CreditInv'
<1> DEFINE left == Larger(BurstShare(Rule) - pkt[3], 0)
           new == [key |-> window.key, now |-> clock, tokens |-> left]
           p == window.passed
           l == window.spilt
           s == window.since
           R == RateShare(Rule)
           refill == ComputeRefill(R, clock - s)
           B == BurstShare(Rule)
           n == pkt[3]
<1>1. Types /\ QuotaInv /\ CreditInv
    BY DEF IInv
<1>2. /\ window.key \in QosKeys /\ window.cpu \in Cpus
      /\ s \in Nat /\ p \in Nat /\ l \in Nat /\ s <= clock /\ clock \in Nat
      /\ R \in Nat \ {0} /\ B \in Nat \ {0} /\ Excess \in Nat /\ Allowance = B + Excess
      /\ n \in Nat /\ n <= Allowance
    BY <1>1, WindowRule, LongestPacket DEF Allowance
<1>3. /\ pending[window.cpu] = NoPacket /\ ~HasBucket
      /\ pending' = [pending EXCEPT ![window.cpu] = new]
      /\ Account(window.cpu, window.key, n, refill)
      /\ UNCHANGED << QOS_CONFIG, QOS_TOKEN_BUCKET, clock >>
    BY DEF Miss, Limited, HasBucket, Rule
<1>4. left \in Nat /\ left + n <= Allowance /\ left + n >= 1
    BY <1>2 DEF Larger
<1>5. refill \in Nat /\ R * (clock - s) < (refill + 1) * Second
  <2>1. clock - s \in Nat
      BY <1>2
  <2> HIDE DEF R, s
  <2>2. QED BY <1>2, <2>1, RefillBounds
<1>6. /\ window'.key = window.key /\ window'.cpu = window.cpu /\ window'.since = s
      /\ window'.passed = p + n /\ window'.spilt = l + refill
  <2> HIDE DEF refill
  <2>1. QED BY <1>1, <1>2, <1>3, <1>5, AccountKeeps
<1>7. Mine' = new /\ Waits'
  <2>1. pending \in [Cpus -> Waiting \cup {NoPacket}]
      BY <1>1 DEF Types
  <2>2. pending'[window.cpu] = new
    <3> HIDE DEF new
    <3>1. QED BY <2>1, <1>2, <1>3
  <2>3. new # NoPacket
    <3> HIDE DEF left
    <3>1. QED BY <1>2, <1>4, WaitingIsSome
  <2>4. QED BY <2>2, <2>3, <1>6 DEF Mine, Waits
<1>8. Rule' = Rule /\ (HasBucket' <=> HasBucket) /\ (Full' <=> Full)
    BY <1>3, <1>6 DEF Rule, HasBucket, Full
<1>9. Excess' = Excess /\ Allowance' = Allowance /\ (Shaped(window.key)' <=> Shaped(window.key))
    BY <1>3, <1>6, <1>8 DEF Excess, Allowance, Shaped
<1>10. QuotaInv'
  <2>1. SUFFICES ASSUME Shaped(window.key) => Second % RateShare(Rule) = 0
                 PROVE  Rationed'
      BY <1>8, <1>9 DEF QuotaInv
  <2>2. CASE p = 0
    <3>1. Mine'.tokens + window'.passed <= Allowance /\ Mine'.now >= window'.since
      <4> HIDE DEF left
      <4>1. QED BY <2>2, <1>2, <1>4, <1>6, <1>7
    <3>2. QED BY <3>1, <1>7, <1>9 DEF Rationed
  <2>3. CASE p # 0
    <3>1. Rationed /\ ~Waits
        BY <2>1, <2>3, <1>1, <1>3 DEF QuotaInv, Waits, Mine
    <3>2. Full
        BY <3>1, <1>3 DEF Rationed
    <3>3. QED BY <3>2, <1>3, <1>7, <1>8 DEF Rationed
  <2>4. QED BY <2>2, <2>3
<1>11. CreditInv'
  <2>1. (left + (p + n) + (l + refill)) * Second >= R * (clock - s)
    <3>1. refill + 1 <= left + (p + n) + (l + refill)
        BY <1>2, <1>4, <1>5
    <3> HIDE DEF left, refill, p, l, s, R, B, n
    <3>2. (refill + 1) * Second <= (left + (p + n) + (l + refill)) * Second
      <4>1. refill + 1 \in Int /\ left + (p + n) + (l + refill) \in Int /\ Second \in Nat
          BY <1>2, <1>4, <1>5, SecondAssumption
      <4>2. QED BY <3>1, <4>1, TimesMono
    <3>3. /\ (refill + 1) * Second \in Int /\ R * (clock - s) \in Int
          /\ (left + (p + n) + (l + refill)) * Second \in Int
        BY <1>2, <1>4, <1>5, SecondAssumption
    <3>4. QED BY <3>2, <3>3, <1>5
  <2>2. Accounted(Mine.tokens, Mine.now)'
    <3>1. /\ Mine'.tokens = left /\ Mine'.now = clock /\ window'.passed = p + n
          /\ window'.spilt = l + refill /\ window'.since = s /\ RateShare(Rule') = R
        BY <1>6, <1>7, <1>8
    <3> HIDE DEF left, refill, p, l, s, R, n
    <3>2. QED BY <3>1, <2>1 DEF Accounted
  <2>3. QED BY <2>2, <1>3, <1>8 DEF CreditInv
<1>12. QED BY <1>10, <1>11

\* A packet of another key, or on another CPU.
LEMMA OtherMiss ==
    ASSUME IInv, Types', NEW c \in Cpus, NEW key \in QosKeys, NEW pkt \in Packets,
           Miss(c, key, pkt), Observed, ~(c = window.cpu /\ key = window.key)
    PROVE  QuotaInv' /\ CreditInv'
<1> DEFINE new == [key |-> key, now |-> clock, tokens |-> Larger(BurstShare(QOS_CONFIG[key]) - pkt[3], 0)]
<1>1. Types /\ QuotaInv /\ CreditInv /\ window.cpu \in Cpus
    BY WindowRule DEF IInv
<1>2. /\ pending[c] = NoPacket
      /\ pending' = [pending EXCEPT ![c] = new]
      /\ UNCHANGED << QOS_CONFIG, QOS_TOKEN_BUCKET, clock >>
    BY DEF Miss, Limited
<1>3. window' = window
    BY DEF Miss, Account
<1>4. (Waits' <=> Waits) /\ (Waits => Mine' = Mine)
  <2>1. pending \in [Cpus -> Waiting \cup {NoPacket}] /\ new.key = key
      BY <1>1 DEF Types
  <2>2. CASE c = window.cpu
    <3>1. pending'[window.cpu] = new
      <4> HIDE DEF new
      <4>1. QED BY <2>1, <2>2, <1>2
    <3>2. ~Waits
        BY <2>2, <1>2 DEF Waits, Mine
    <3>3. ~Waits'
        BY <2>1, <2>2, <3>1, <1>3 DEF Waits, Mine
    <3>4. QED BY <3>2, <3>3
  <2>3. CASE c # window.cpu
    <3>1. pending'[window.cpu] = pending[window.cpu]
      <4> HIDE DEF new
      <4>1. QED BY <2>1, <2>3, <1>1, <1>2
    <3>2. QED BY <3>1, <1>3 DEF Waits, Mine
  <2>4. QED BY <2>2, <2>3
<1>5. /\ Rule' = Rule /\ (HasBucket' <=> HasBucket) /\ Watched' = Watched /\ (Full' <=> Full)
    BY <1>2, <1>3 DEF Rule, HasBucket, Watched, Full
<1>6. QED BY <1>1, <1>3, <1>4, <1>5, Untouched

\* What inserting a bucket does to the map.
LEMMA Inserted ==
    ASSUME Types, NEW c \in Cpus, InitBucket(c)
    PROVE  LET p     == pending[c]
               known == p.key \in DOMAIN QOS_TOKEN_BUCKET
               mine  == [tokens |-> p.tokens, last_refill_ns |-> p.now, last_edt |-> 0]
           IN  IF known \/ ~Full
               THEN /\ DOMAIN QOS_TOKEN_BUCKET' = DOMAIN QOS_TOKEN_BUCKET \cup {p.key}
                    /\ \A k \in DOMAIN QOS_TOKEN_BUCKET : k # p.key =>
                           QOS_TOKEN_BUCKET'[k] = QOS_TOKEN_BUCKET[k]
                    /\ QOS_TOKEN_BUCKET'[p.key][c] = mine
                    /\ \A d \in Cpus : d # c =>
                           QOS_TOKEN_BUCKET'[p.key][d] =
                               IF known THEN QOS_TOKEN_BUCKET[p.key][d] ELSE Zero
               ELSE QOS_TOKEN_BUCKET' = QOS_TOKEN_BUCKET
<1> DEFINE p == pending[c]
           known == p.key \in DOMAIN QOS_TOKEN_BUCKET
           cpus == IF known THEN QOS_TOKEN_BUCKET[p.key] ELSE [d \in Cpus |-> Zero]
           mine == [tokens |-> p.tokens, last_refill_ns |-> p.now, last_edt |-> 0]
           new == [cpus EXCEPT ![c] = mine]
<1>1. Full <=> ~(Cardinality(DOMAIN QOS_TOKEN_BUCKET) < MaxBuckets)
  <2>1. Cardinality(DOMAIN QOS_TOKEN_BUCKET) \in Nat
      BY KeysFinite, FS_Subset, FS_CardinalityType DEF Types
  <2>2. QED BY <2>1, BoundsAssumption DEF Full
<1>2. CASE known \/ ~Full
  <2>1. QOS_TOKEN_BUCKET' = Put(QOS_TOKEN_BUCKET, p.key, new)
      BY <1>1, <1>2 DEF InitBucket
  <2>2. DOMAIN QOS_TOKEN_BUCKET' = DOMAIN QOS_TOKEN_BUCKET \cup {p.key}
      BY <2>1 DEF Put
  <2>3. /\ QOS_TOKEN_BUCKET'[p.key] = new
        /\ \A k \in DOMAIN QOS_TOKEN_BUCKET : k # p.key =>
               QOS_TOKEN_BUCKET'[k] = QOS_TOKEN_BUCKET[k]
    <3> HIDE DEF new, p
    <3>1. QED BY <2>1 DEF Put
  <2>4. DOMAIN cpus = Cpus
      BY DEF Types
  <2>5. /\ new[c] = mine
        /\ \A d \in Cpus : d # c => new[d] = cpus[d]
    <3> HIDE DEF cpus, mine
    <3>1. QED BY <2>4
  <2>6. \A d \in Cpus : cpus[d] = IF known THEN QOS_TOKEN_BUCKET[p.key][d] ELSE Zero
      OBVIOUS
  <2>7. QED
    <3> HIDE DEF cpus, mine, new
    <3>1. QED BY <1>2, <2>2, <2>3, <2>5, <2>6 DEF mine
<1>3. CASE ~(known \/ ~Full)
    BY <1>1, <1>3 DEF InitBucket
<1>4. QED BY <1>2, <1>3

\* The observed packet inserts its bucket, or finds that there is no room.
LEMMA OwnInitBucket ==
    ASSUME IInv, Types', Observed, Waits, InitBucket(window.cpu)
    PROVE  QuotaInv' /\ CreditInv'
<1> DEFINE R == RateShare(Rule)
           s == window.since
           t == Mine.tokens
           p == window.passed
           now == Mine.now
<1>1. Types /\ QuotaInv /\ CreditInv
    BY DEF IInv
<1>2. /\ window.cpu \in Cpus /\ s \in Nat /\ p \in Nat
      /\ R \in Nat \ {0} /\ Allowance \in Nat
    BY <1>1, WindowRule
<1>3. /\ Mine # NoPacket /\ Mine.key = window.key
      /\ now \in Nat /\ t \in Nat
    BY <1>1, <1>2, WaitingPacket DEF Waits, Mine
<1>4. /\ UNCHANGED << QOS_CONFIG, window >>
      /\ pending' = [pending EXCEPT ![window.cpu] = NoPacket]
    BY DEF InitBucket
<1>5. ~Waits'
  <2>1. pending'[window.cpu] = NoPacket
      BY <1>1, <1>2, <1>4 DEF Types
  <2>2. QED BY <2>1, <1>4 DEF Waits, Mine
<1>6. Rule' = Rule
    BY <1>4 DEF Rule
<1>7. Excess' = Excess /\ Allowance' = Allowance /\ (Shaped(window.key)' <=> Shaped(window.key))
    BY <1>4, <1>6 DEF Excess, Allowance, Shaped
<1>8. CASE HasBucket \/ ~Full
  <2>1. HasBucket' /\ Watched' = [tokens |-> t, last_refill_ns |-> now, last_edt |-> 0]
    <3>1. pending[window.cpu].key \in DOMAIN QOS_TOKEN_BUCKET \/ ~Full
        BY <1>3, <1>8 DEF HasBucket, Mine
    <3>2. /\ DOMAIN QOS_TOKEN_BUCKET' = DOMAIN QOS_TOKEN_BUCKET \cup {Mine.key}
          /\ QOS_TOKEN_BUCKET'[Mine.key][window.cpu]
                 = [tokens |-> t, last_refill_ns |-> now, last_edt |-> 0]
        BY <3>1, <1>1, <1>2, Inserted DEF Mine
    <3>3. QED BY <3>2, <1>3, <1>4 DEF HasBucket, Watched
  <2>2. Watched'.tokens = t /\ Watched'.last_refill_ns = now /\ Watched'.last_edt = 0
      BY <2>1
  <2>3. ASSUME t + p <= Allowance, now >= s
        PROVE  Within(Watched.tokens, Watched.last_refill_ns, Watched.last_edt)'
    <3>1. (t + p) * Second <= Allowance * Second
      <4>1. t + p \in Int /\ Allowance \in Int /\ Second \in Nat
          BY <1>2, <1>3, SecondAssumption
      <4> HIDE DEF t, p
      <4>2. QED BY <4>1, <2>3, TimesMono
    <3>2. R * (now - s) \in Nat /\ R * (Larger(0, now) - s) \in Nat
      <4>1. Larger(0, now) = now /\ now - s \in Nat
          BY <1>2, <1>3, <2>3 DEF Larger
      <4> HIDE DEF R, now, s
      <4>2. R * (now - s) \in Nat
          BY <1>2, <4>1
      <4>3. QED BY <4>1, <4>2
    <3>3. (t + p) * Second \in Nat /\ Allowance * Second \in Nat
        BY <1>2, <1>3, SecondAssumption
    <3> DEFINE x == R * (Larger(0, now) - s)
    <3>4. (t + p) * Second <= Allowance * Second + R * (now - s)
              + (IF Shaped(window.key) THEN x ELSE 0)
      <4>1. x \in Nat
          BY <3>2
      <4> HIDE DEF R, now, s, t, p, x
      <4>2. QED BY <3>1, <3>2, <3>3, <4>1
    <3>5. window'.passed = p /\ window'.since = s /\ RateShare(Rule') = R
        BY <1>4, <1>6
    <3> HIDE DEF R, now, s, t, p
    <3>6. QED BY <3>4, <3>5, <1>7, <2>2 DEF Within, x
  <2>4. QuotaInv'
    <3>1. SUFFICES ASSUME p # 0, Shaped(window.key) => Second % RateShare(Rule) = 0
                   PROVE  Rationed'
        BY <1>4, <1>6, <1>7 DEF QuotaInv
    <3>2. Rationed
        BY <3>1, <1>1 DEF QuotaInv
    <3>3. t + p <= Allowance /\ now >= s
        BY <3>2, <1>8 DEF Rationed
    <3>4. QED BY <3>3, <2>1, <2>3, <1>5 DEF Rationed
  <2>5. CreditInv'
    <3>1. Accounted(Mine.tokens, Mine.now)
        BY <1>1 DEF CreditInv
    <3>2. Accounted(Watched.tokens, Watched.last_refill_ns)'
        BY <3>1, <2>2, <1>4, <1>6 DEF Accounted
    <3>3. QED BY <3>2, <1>5 DEF CreditInv
  <2>6. QED BY <2>4, <2>5
<1>9. CASE ~HasBucket /\ Full
  <2>1. QOS_TOKEN_BUCKET' = QOS_TOKEN_BUCKET
    <3>1. ~(pending[window.cpu].key \in DOMAIN QOS_TOKEN_BUCKET \/ ~Full)
        BY <1>3, <1>9 DEF HasBucket, Mine
    <3>2. QED BY <3>1, <1>1, <1>2, Inserted
  <2>2. ~HasBucket' /\ Full'
      BY <2>1, <1>4, <1>9 DEF HasBucket, Full
  <2>3. QED BY <2>2, <1>5 DEF QuotaInv, CreditInv, Rationed
<1>10. QED BY <1>8, <1>9

\* Another bucket is inserted, or the observed one by another CPU.
LEMMA OtherInitBucket ==
    ASSUME IInv, Types', NEW c \in Cpus, InitBucket(c), Observed, ~(c = window.cpu /\ Waits)
    PROVE  QuotaInv' /\ CreditInv'
<1> DEFINE p == pending[c]
           known == p.key \in DOMAIN QOS_TOKEN_BUCKET
<1>1. Types /\ QuotaInv /\ CreditInv /\ window.cpu \in Cpus
    BY WindowRule DEF IInv
<1>2. /\ UNCHANGED << QOS_CONFIG, window >>
      /\ pending' = [pending EXCEPT ![c] = NoPacket] /\ p # NoPacket
    BY DEF InitBucket
<1>3. (Waits' <=> Waits) /\ (Waits => Mine' = Mine)
  <2>1. pending'[window.cpu] = IF c = window.cpu THEN NoPacket ELSE pending[window.cpu]
      BY <1>1, <1>2 DEF Types
  <2>2. CASE c = window.cpu
      BY <2>1, <2>2, <1>2 DEF Waits, Mine
  <2>3. CASE c # window.cpu
      BY <2>1, <2>3, <1>2 DEF Waits, Mine
  <2>4. QED BY <2>2, <2>3
<1>4. c = window.cpu => p.key # window.key
    BY <1>2 DEF Waits, Mine
<1>5. Rule' = Rule
    BY <1>2 DEF Rule
<1>6. CASE known \/ ~Full
  <2>1. /\ DOMAIN QOS_TOKEN_BUCKET' = DOMAIN QOS_TOKEN_BUCKET \cup {p.key}
        /\ \A k \in DOMAIN QOS_TOKEN_BUCKET : k # p.key =>
               QOS_TOKEN_BUCKET'[k] = QOS_TOKEN_BUCKET[k]
        /\ \A d \in Cpus : d # c =>
               QOS_TOKEN_BUCKET'[p.key][d] = IF known THEN QOS_TOKEN_BUCKET[p.key][d] ELSE Zero
      BY <1>1, <1>6, Inserted
  <2>2. Full => Full'
      BY <2>1, <1>1, StaysFull
  <2>3. HasBucket => HasBucket' /\ Watched' = Watched
    <3>1. SUFFICES ASSUME HasBucket PROVE HasBucket' /\ Watched' = Watched
        OBVIOUS
    <3>2. HasBucket'
        BY <3>1, <2>1, <1>2 DEF HasBucket
    <3>3. CASE p.key = window.key
      <4>1. known /\ c # window.cpu
          BY <3>1, <3>3, <1>4 DEF HasBucket
      <4>2. QOS_TOKEN_BUCKET'[window.key][window.cpu] = QOS_TOKEN_BUCKET[window.key][window.cpu]
          BY <4>1, <3>3, <2>1, <1>1
      <4>3. QED BY <4>2, <3>2, <1>2 DEF Watched
    <3>4. CASE p.key # window.key
        BY <3>1, <3>2, <3>4, <2>1, <1>2 DEF HasBucket, Watched
    <3>5. QED BY <3>3, <3>4
  <2>4. ~HasBucket /\ HasBucket' => ~Full /\ Watched' = Zero
    <3>1. SUFFICES ASSUME ~HasBucket, HasBucket' PROVE ~Full /\ Watched' = Zero
        OBVIOUS
    <3>2. p.key = window.key
        BY <3>1, <2>1, <1>2 DEF HasBucket
    <3>3. ~known /\ c # window.cpu
        BY <3>1, <3>2, <1>4 DEF HasBucket
    <3>4. QOS_TOKEN_BUCKET'[window.key][window.cpu] = Zero
        BY <3>2, <3>3, <2>1, <1>1
    <3>5. QED BY <3>3, <3>4, <1>2, <1>6 DEF Watched
  <2>5. QED BY <1>1, <1>2, <1>3, <1>5, <2>2, <2>3, <2>4, Untouched
<1>7. CASE ~(known \/ ~Full)
  <2>1. QOS_TOKEN_BUCKET' = QOS_TOKEN_BUCKET
      BY <1>1, <1>7, Inserted
  <2>2. (HasBucket' <=> HasBucket) /\ Watched' = Watched /\ (Full' <=> Full)
      BY <2>1, <1>2 DEF HasBucket, Watched, Full
  <2>3. QED BY <1>1, <1>2, <1>3, <1>5, <2>2, Untouched
<1>8. QED BY <1>6, <1>7

\* A factor distributes over a difference.
LEMMA TimesMinus ==
    ASSUME NEW n \in Int, NEW a \in Int, NEW b \in Int
    PROVE  /\ n * (a - b) = n * a - n * b
           /\ n * a \in Int /\ n * b \in Int /\ n * (a - b) \in Int
OBVIOUS

\* The quota goes on from a refill at "then" to one at "now": "took" tokens
\* were left or let through, the refill's "got" and, of a shaped packet, what
\* comes while its departure moves from "was" to "gone".
LEMMA QuotaGoesOn ==
    ASSUME NEW S \in Nat, NEW R \in Nat, NEW A \in Nat, NEW since \in Nat,
           NEW then \in Nat, NEW now \in Nat, NEW had \in Nat, NEW passed \in Nat,
           NEW got \in Nat, NEW took \in Nat,
           NEW before \in Nat, NEW was \in Nat, NEW gone \in Nat,
           before <= was,
           got * S <= had * S + R * (now - then)
    PROVE  /\ /\ took = got
              /\ (had + passed) * S <= A * S + R * (then - since)
              => (took + passed) * S <= A * S + R * (now - since)
           /\ /\ took * S = got * S + R * (gone - was)
              /\ (had + passed) * S <= A * S + R * (then - since) + R * (before - since)
              => (took + passed) * S <= A * S + R * (now - since) + R * (gone - since)
<1>1. /\ R * (now - then) = R * now - R * then
      /\ R * (then - since) = R * then - R * since
      /\ R * (now - since) = R * now - R * since
      /\ R * (gone - was) = R * gone - R * was
      /\ R * (gone - since) = R * gone - R * since
      /\ R * (before - since) = R * before - R * since
    BY TimesMinus
<1>2. (had + passed) * S = had * S + passed * S /\ (took + passed) * S = took * S + passed * S
    OBVIOUS
<1>3. R * before <= R * was
    BY TimesMono
<1> DEFINE n == R * now
           h == R * then
           i == R * since
           g == R * gone
           w == R * was
           b == R * before
           hs == had * S
           ps == passed * S
           ts == took * S
           gs == got * S
           cap == A * S
<1>4. /\ n \in Int /\ h \in Int /\ i \in Int /\ g \in Int /\ w \in Int /\ b \in Int
      /\ hs \in Int /\ ps \in Int /\ ts \in Int /\ gs \in Int /\ cap \in Int
    OBVIOUS
<1>5. gs <= hs + (n - h) /\ b <= w
    BY <1>1, <1>3
<1>6. ASSUME took = got, (had + passed) * S <= A * S + R * (then - since)
      PROVE  (took + passed) * S <= A * S + R * (now - since)
  <2>1. ts = gs /\ hs + ps <= cap + (h - i)
      BY <1>1, <1>2, <1>6
  <2>2. ts + ps <= cap + (n - i)
    <3> HIDE DEF n, h, i, g, w, b, hs, ps, ts, gs, cap
    <3>1. QED BY <1>4, <1>5, <2>1
  <2>3. QED BY <2>2, <1>1, <1>2
<1>7. ASSUME took * S = got * S + R * (gone - was),
             (had + passed) * S <= A * S + R * (then - since) + R * (before - since)
      PROVE  (took + passed) * S <= A * S + R * (now - since) + R * (gone - since)
  <2>1. ts = gs + (g - w) /\ hs + ps <= cap + (h - i) + (b - i)
      BY <1>1, <1>2, <1>7
  <2>2. ts + ps <= cap + (n - i) + (g - i)
    <3> HIDE DEF n, h, i, g, w, b, hs, ps, ts, gs, cap
    <3>1. QED BY <1>4, <1>5, <2>1
  <2>3. QED BY <2>2, <1>1, <1>2
<1>8. QED BY <1>6, <1>7

\* The quota begins with a refill within the allowance.
LEMMA QuotaBegins ==
    ASSUME NEW S \in Nat, NEW R \in Nat, NEW A \in Nat, NEW since \in Nat,
           NEW now \in Nat, NEW got \in Nat, NEW took \in Nat,
           NEW was \in Nat, NEW gone \in Nat,
           since <= now, since <= was, got <= A
    PROVE  /\ took = got => (took + 0) * S <= A * S + R * (now - since)
           /\ took * S = got * S + R * (gone - was)
              => (took + 0) * S <= A * S + R * (now - since) + R * (gone - since)
<1>1. /\ R * (now - since) = R * now - R * since
      /\ R * (gone - was) = R * gone - R * was
      /\ R * (gone - since) = R * gone - R * since
    BY TimesMinus
<1>2. R * since <= R * now /\ R * since <= R * was /\ got * S <= A * S
    BY TimesMono
<1>3. took + 0 = took
    OBVIOUS
<1> DEFINE n == R * now
           i == R * since
           g == R * gone
           w == R * was
           ts == took * S
           gs == got * S
           cap == A * S
<1>4. /\ n \in Int /\ i \in Int /\ g \in Int /\ w \in Int
      /\ ts \in Int /\ gs \in Int /\ cap \in Int
    OBVIOUS
<1>5. i <= n /\ i <= w /\ gs <= cap
    BY <1>2
<1>6. ASSUME took = got PROVE (took + 0) * S <= A * S + R * (now - since)
  <2>1. ts = gs
      BY <1>6
  <2>2. ts <= cap + (n - i)
    <3> HIDE DEF n, i, g, w, ts, gs, cap
    <3>1. QED BY <1>4, <1>5, <2>1
  <2>3. QED BY <2>2, <1>1, <1>3
<1>7. ASSUME took * S = got * S + R * (gone - was)
      PROVE  (took + 0) * S <= A * S + R * (now - since) + R * (gone - since)
  <2>1. ts = gs + (g - w)
      BY <1>1, <1>7
  <2>2. ts <= cap + (n - i) + (g - i)
    <3> HIDE DEF n, i, g, w, ts, gs, cap
    <3>1. QED BY <1>4, <1>5, <2>1
  <2>3. QED BY <2>2, <1>1, <1>3
<1>8. QED BY <1>6, <1>7

\* What came is accounted for from one refill to the next.
LEMMA CreditGoesOn ==
    ASSUME NEW S \in Nat, NEW R \in Nat, NEW since \in Nat,
           NEW then \in Nat, NEW now \in Nat, NEW had \in Nat, NEW spent \in Nat,
           NEW got \in Nat, NEW spilt \in Nat, NEW took \in Nat,
           took >= got,
           (got + spilt) * S >= had * S + R * (now - then),
           (had + spent) * S >= R * (then - since)
    PROVE  (took + spent + spilt) * S >= R * (now - since)
<1>1. /\ R * (now - then) = R * now - R * then
      /\ R * (then - since) = R * then - R * since
      /\ R * (now - since) = R * now - R * since
    BY TimesMinus
<1>2. (got + spilt) * S <= (took + spilt) * S
  <2>1. got + spilt \in Int /\ took + spilt \in Int /\ got + spilt <= took + spilt
      OBVIOUS
  <2>2. QED BY <2>1, TimesMono
<1>3. /\ (took + spent + spilt) * S = (took + spilt) * S + spent * S
      /\ (had + spent) * S = had * S + spent * S
    OBVIOUS
<1> DEFINE n == R * now
           h == R * then
           i == R * since
           gs == (got + spilt) * S
           ts == (took + spilt) * S
           hs == had * S
           ps == spent * S
<1>4. /\ n \in Int /\ h \in Int /\ i \in Int
      /\ gs \in Int /\ ts \in Int /\ hs \in Int /\ ps \in Int
    OBVIOUS
<1>5. gs <= ts /\ gs >= hs + (n - h) /\ hs + ps >= h - i
    BY <1>1, <1>2, <1>3
<1>6. ts + ps >= n - i
  <2> HIDE DEF n, h, i, gs, ts, hs, ps
  <2>1. QED BY <1>4, <1>5
<1>7. QED BY <1>6, <1>1, <1>3

\* A packet of the observed key that finds its bucket.
LEMMA OwnHit ==
    ASSUME IInv, Types', NEW pkt \in Packets, Observed, Hit(window.cpu, window.key, pkt)
    PROVE  QuotaInv' /\ CreditInv'
<1> DEFINE bucket == QOS_TOKEN_BUCKET[window.key][window.cpu]
           had == bucket.tokens
           then == bucket.last_refill_ns
           last == bucket.last_edt
           got == Refilled(bucket, Rule)
           spilt == Spilt(bucket, Rule)
           R == RateShare(Rule)
           A == Allowance
           s == window.since
           p == window.passed
           l == window.spilt
<1>1. Types /\ QuotaInv /\ CreditInv
    BY DEF IInv
<1>2. /\ window.key \in QosKeys /\ window.cpu \in Cpus
      /\ s \in Nat /\ p \in Nat /\ l \in Nat /\ s <= clock /\ clock \in Nat
      /\ R \in Nat \ {0} /\ A \in Nat /\ BurstShare(Rule) \in Nat /\ BurstShare(Rule) <= A
    BY <1>1, WindowRule DEF Allowance
<1>3. /\ window.key \in DOMAIN QOS_CONFIG /\ window.key \in DOMAIN QOS_TOKEN_BUCKET
      /\ pending[window.cpu] = NoPacket
    BY <1>1, <1>2, HitServes
<1>4. PICK tokens, edt, passed : Served(window.cpu, window.key, tokens, edt, passed)
    BY <1>1, <1>2, HitServes
<1>5. /\ had \in Nat /\ last \in Nat /\ then \in Nat /\ then <= clock
      /\ got \in 0 .. BurstShare(Rule) /\ spilt \in Nat
      /\ got * Second <= had * Second + R * (clock - then)
      /\ (got + spilt) * Second >= had * Second + R * (clock - then)
    BY <1>1, <1>2, <1>3, Refill DEF Rule
<1> DEFINE was == Larger(last, clock)
           gone == Larger(edt, clock)
           before == Larger(last, then)
<1>6. /\ tokens \in Nat /\ edt \in Nat /\ passed \in Nat
      /\ Account(window.cpu, window.key, passed, spilt)
      /\ QOS_TOKEN_BUCKET' = [QOS_TOKEN_BUCKET EXCEPT ![window.key][window.cpu] =
             [tokens |-> tokens, last_refill_ns |-> clock, last_edt |-> edt]]
      /\ tokens + passed >= got
      /\ ~Shaped(window.key) => tokens + passed = got
      /\ Shaped(window.key) /\ Second % R = 0 =>
             (tokens + passed) * Second = got * Second + R * (gone - was)
    BY <1>2, <1>4 DEF Served, Update, Rule
<1>7. /\ window'.key = window.key /\ window'.cpu = window.cpu /\ window'.since = s
      /\ window'.passed = p + passed /\ window'.spilt = l + spilt
  <2> HIDE DEF spilt
  <2>1. QED BY <1>1, <1>2, <1>5, <1>6, AccountKeeps
<1>8. UNCHANGED << QOS_CONFIG, clock, pending >>
    BY DEF Hit
<1>9. ~Waits /\ ~Waits'
    BY <1>3, <1>7, <1>8 DEF Waits, Mine
<1>10. /\ HasBucket /\ HasBucket'
       /\ Watched'.tokens = tokens /\ Watched'.last_refill_ns = clock /\ Watched'.last_edt = edt
  <2>1. QOS_TOKEN_BUCKET[window.key] \in [Cpus -> Bucket]
      BY <1>1, <1>3 DEF Types
  <2>2. QOS_TOKEN_BUCKET'[window.key][window.cpu]
            = [tokens |-> tokens, last_refill_ns |-> clock, last_edt |-> edt]
      BY <2>1, <1>2, <1>3, <1>6
  <2>3. DOMAIN QOS_TOKEN_BUCKET' = DOMAIN QOS_TOKEN_BUCKET
      BY <1>6
  <2>4. QED BY <2>2, <2>3, <1>3, <1>7 DEF HasBucket, Watched
<1>11. Rule' = Rule
    BY <1>7, <1>8 DEF Rule
<1>12. Excess' = Excess /\ Allowance' = A /\ (Shaped(window.key)' <=> Shaped(window.key))
    BY <1>7, <1>8, <1>11 DEF Excess, Allowance, Shaped
<1>13. Watched = bucket
    BY DEF Watched
<1>14. /\ was \in Nat /\ gone \in Nat /\ before \in Nat
       /\ before <= was /\ s <= was
    BY SMTT(40), <1>2, <1>5, <1>6 DEF Larger
<1> DEFINE took == tokens + passed
<1>15. /\ took \in Nat /\ took >= got /\ took + p = tokens + (p + passed)
       /\ got \in Nat /\ got <= A
    BY <1>2, <1>5, <1>6
<1>16. QuotaInv'
  <2>1. SUFFICES ASSUME Shaped(window.key) => Second % R = 0
                 PROVE  Within(Watched.tokens, Watched.last_refill_ns, Watched.last_edt)'
      BY <1>9, <1>10, <1>11, <1>12 DEF QuotaInv, Rationed
  <2>2. p # 0 => Within(had, then, last)
    <3>1. p # 0 => Rationed
        BY <2>1, <1>1 DEF QuotaInv
    <3>2. QED BY <3>1, <1>9, <1>10, <1>13 DEF Rationed
  <2>3. CASE ~Shaped(window.key)
    <3>1. (took + p) * Second <= A * Second + R * (clock - s)
      <4>1. took = got
          BY <2>3, <1>6
      <4>2. CASE p = 0
        <5> HIDE DEF took, got, A, R, s, p, was, gone
        <5>1. QED BY <4>1, <4>2, <1>2, <1>14, <1>15, SecondAssumption, QuotaBegins
      <4>3. CASE p # 0
        <5>1. (had + p) * Second <= A * Second + R * (then - s)
          <6>1. (had + p) * Second <= A * Second + R * (then - s) + 0
              BY <2>2, <2>3, <4>3 DEF Within
          <6>2. A * Second \in Int /\ R * (then - s) \in Int
              BY <1>2, <1>5, SecondAssumption
          <6> HIDE DEF had, A, R, s, p, then
          <6>3. QED BY <6>1, <6>2
        <5> HIDE DEF took, got, A, R, s, p, was, gone, had, then, before
        <5>2. QED BY <4>1, <5>1, <1>2, <1>5, <1>14, <1>15, SecondAssumption, QuotaGoesOn
      <4>4. QED BY <4>2, <4>3
    <3>2. A * Second \in Int /\ R * (clock - s) \in Int
        BY <1>2, SecondAssumption
    <3>3. (tokens + (p + passed)) * Second <= A * Second + R * (clock - s) + 0
      <4> HIDE DEF took, A, R, s, p
      <4>1. QED BY <3>1, <3>2, <1>15
    <3>4. RateShare(Rule') = R
        BY <1>11
    <3> HIDE DEF A, R, s, p
    <3>5. QED BY <2>3, <3>3, <3>4, <1>7, <1>10, <1>12 DEF Within
  <2>4. CASE Shaped(window.key)
    <3>1. (took + p) * Second <= A * Second + R * (clock - s) + R * (gone - s)
      <4>1. took * Second = got * Second + R * (gone - was)
          BY <2>1, <2>4, <1>6
      <4>2. CASE p = 0
        <5> HIDE DEF took, got, A, R, s, p, was, gone
        <5>1. QED BY <4>1, <4>2, <1>2, <1>14, <1>15, SecondAssumption, QuotaBegins
      <4>3. CASE p # 0
        <5>1. (had + p) * Second <= A * Second + R * (then - s) + R * (before - s)
            BY <2>2, <2>4, <4>3 DEF Within
        <5> HIDE DEF took, got, A, R, s, p, was, gone, had, then, before
        <5>2. QED BY <4>1, <5>1, <1>2, <1>5, <1>14, <1>15, SecondAssumption, QuotaGoesOn
      <4>4. QED BY <4>2, <4>3
    <3>2. (tokens + (p + passed)) * Second <= A * Second + R * (clock - s) + R * (gone - s)
      <4> HIDE DEF took, A, R, s, p, gone
      <4>1. QED BY <3>1, <1>15
    <3>3. RateShare(Rule') = R
        BY <1>11
    <3> HIDE DEF A, R, s, p
    <3>4. QED BY <2>4, <3>2, <3>3, <1>7, <1>10, <1>12 DEF Within
  <2>5. QED BY <2>3, <2>4
<1>17. CreditInv'
  <2>1. (had + (p + l)) * Second >= R * (then - s)
    <3>1. Accounted(had, then)
        BY <1>1, <1>10, <1>13 DEF CreditInv
    <3>2. had + p + l = had + (p + l)
        BY <1>2, <1>5
    <3>3. QED BY <3>1, <3>2 DEF Accounted
  <2>2. (took + (p + l) + spilt) * Second >= R * (clock - s)
    <3>1. p + l \in Nat
        BY <1>2
    <3> HIDE DEF took, got, had, then, spilt, R, s
    <3>2. QED BY <2>1, <3>1, <1>2, <1>5, <1>15, SecondAssumption, CreditGoesOn
  <2>3. took + (p + l) + spilt = tokens + (p + passed) + (l + spilt)
      BY <1>2, <1>5, <1>6
  <2>4. RateShare(Rule') = R
      BY <1>11
  <2>5. Accounted(Watched.tokens, Watched.last_refill_ns)'
    <3> HIDE DEF took, R, s, p, l, spilt
    <3>1. QED BY <2>2, <2>3, <2>4, <1>7, <1>10 DEF Accounted
  <2>6. QED BY <2>5, <1>9 DEF CreditInv
<1>18. QED BY <1>16, <1>17

\* A packet of another key, or on another CPU, that finds its bucket.
LEMMA OtherHit ==
    ASSUME IInv, Types', NEW c \in Cpus, NEW key \in QosKeys, NEW pkt \in Packets,
           Hit(c, key, pkt), Observed, ~(c = window.cpu /\ key = window.key)
    PROVE  QuotaInv' /\ CreditInv'
<1>1. Types /\ QuotaInv /\ CreditInv /\ window.cpu \in Cpus
    BY WindowRule DEF IInv
<1>2. PICK tokens, edt, passed : Served(c, key, tokens, edt, passed)
    BY <1>1, HitServes
<1>3. UNCHANGED << QOS_CONFIG, clock, pending >>
    BY DEF Hit
<1>4. window' = window
    BY <1>2 DEF Served, Account
<1> DEFINE new == [tokens |-> tokens, last_refill_ns |-> clock, last_edt |-> edt]
<1>5. QOS_TOKEN_BUCKET' = [QOS_TOKEN_BUCKET EXCEPT ![key][c] = new]
    BY <1>2 DEF Served, Update
<1>6. DOMAIN QOS_TOKEN_BUCKET' = DOMAIN QOS_TOKEN_BUCKET
    BY <1>5
<1>7. HasBucket => Watched' = Watched
  <2> HIDE DEF new
  <2>1. CASE key = window.key
      BY <2>1, <1>1, <1>4, <1>5 DEF Watched, HasBucket, Types
  <2>2. CASE key # window.key
      BY <2>2, <1>4, <1>5 DEF Watched, HasBucket
  <2>3. QED BY <2>1, <2>2
<1>8. (HasBucket' <=> HasBucket) /\ (Full' <=> Full) /\ Rule' = Rule
    BY <1>3, <1>4, <1>6 DEF HasBucket, Full, Rule
<1>9. (Waits' <=> Waits) /\ Mine' = Mine
    BY <1>3, <1>4 DEF Waits, Mine
<1>10. QED BY <1>1, <1>4, <1>7, <1>8, <1>9, Untouched

\* The handlers close the window of their key; time changes no account.
LEMMA OutsideTheWindow ==
    ASSUME IInv, Types', Observed, window' = window,
           UNCHANGED << QOS_TOKEN_BUCKET, pending >>,
           QOS_CONFIG'[window.key] = QOS_CONFIG[window.key]
    PROVE  QuotaInv' /\ CreditInv'
<1>1. Types /\ QuotaInv /\ CreditInv
    BY DEF IInv
<1>2. /\ Rule' = Rule /\ (HasBucket' <=> HasBucket) /\ Watched' = Watched /\ (Full' <=> Full)
      /\ (Waits' <=> Waits) /\ Mine' = Mine
    BY DEF Rule, HasBucket, Watched, Full, Waits, Mine
<1>3. QED BY <1>1, <1>2, Untouched

\* A window opens with nothing let through, and with what came before it.
LEMMA OpeningAccounts ==
    ASSUME IInv, Types', NEW c \in Cpus, NEW key \in QosKeys, Observe(c, key)
    PROVE  QuotaInv' /\ CreditInv'
<1>1. /\ window' = [Closed EXCEPT !.key = key, !.cpu = c, !.since = clock]
      /\ UNCHANGED << QOS_CONFIG, QOS_TOKEN_BUCKET, clock, pending >>
    BY DEF Observe
<1>2. /\ window'.key = key /\ window'.cpu = c /\ window'.since = clock
      /\ window'.passed = 0 /\ window'.spilt = 0
    BY <1>1 DEF Closed
<1>3. key # NoKey
    BY NoneAssumption
<1> DEFINE R == RateShare(QOS_CONFIG[key])
<1>4. clock' = clock /\ clock \in Nat /\ R \in Nat /\ RateShare(Rule)' = R
  <2>1. key \in DOMAIN QOS_CONFIG
      BY DEF Observe
  <2>2. R \in Nat
      BY <2>1, RuleInForce, Shares DEF IInv
  <2>3. Rule' = QOS_CONFIG[key]
      BY <1>1, <1>2 DEF Rule
  <2>4. QED BY <2>2, <2>3, <1>1, BoundsAssumption DEF IInv, Types
<1> HIDE DEF R
<1>5. ASSUME NEW tokens \in Nat, NEW refilled \in Nat, refilled <= clock
      PROVE  (tokens + 0 + 0) * Second >= R * (refilled - clock)
  <2>1. R * (refilled - clock) = R * refilled - R * clock
      BY <1>4, TimesMinus
  <2>2. R * refilled <= R * clock /\ R * refilled \in Int /\ R * clock \in Int
      BY <1>4, <1>5, TimesMono
  <2>3. (tokens + 0 + 0) * Second \in Nat
      BY <1>5, SecondAssumption
  <2>4. QED BY <2>1, <2>2, <2>3
<1>6. QuotaInv'
    BY <1>2 DEF QuotaInv
<1>7. Waits' => Accounted(Mine.tokens, Mine.now)'
  <2>1. SUFFICES ASSUME Waits' PROVE Accounted(Mine.tokens, Mine.now)'
      OBVIOUS
  <2>2. Mine' = pending[c] /\ pending[c] # NoPacket
      BY <2>1, <1>1, <1>2 DEF Mine, Waits
  <2>3. Mine'.tokens \in Nat /\ Mine'.now \in Nat /\ Mine'.now <= clock
      BY <2>2, WaitingPacket DEF IInv
  <2>4. QED BY <2>3, <1>2, <1>4, <1>5 DEF Accounted
<1>8. HasBucket' => Accounted(Watched.tokens, Watched.last_refill_ns)'
  <2>1. SUFFICES ASSUME HasBucket' PROVE Accounted(Watched.tokens, Watched.last_refill_ns)'
      OBVIOUS
  <2>2. Watched' = QOS_TOKEN_BUCKET[key][c] /\ key \in DOMAIN QOS_TOKEN_BUCKET
      BY <2>1, <1>1, <1>2 DEF Watched, HasBucket
  <2>3. Watched' \in Bucket
      BY <2>2 DEF IInv, Types
  <2>4. Watched'.tokens \in Nat /\ Watched'.last_refill_ns \in Nat /\ Watched'.last_refill_ns <= clock
      BY <2>3, <1>4 DEF Bucket
  <2>5. QED BY <2>4, <1>2, <1>4, <1>5 DEF Accounted
<1>9. QED BY <1>6, <1>7, <1>8 DEF CreditInv

\* Any step.
LEMMA AccountsStep == IInv /\ Types' /\ [Next]_vars => QuotaInv' /\ CreditInv'
<1>1. SUFFICES ASSUME IInv, Types', [Next]_vars PROVE QuotaInv' /\ CreditInv'
    OBVIOUS
<1> DEFINE Done == QuotaInv' /\ CreditInv'
<1>2. ASSUME ~Observed' PROVE Done
    BY <1>2 DEF QuotaInv, CreditInv
<1>3. ASSUME ~Observed, window'.key = window.key PROVE Done
    BY <1>2, <1>3 DEF Observed
<1>4. CASE UNCHANGED vars
  <2>1. UNCHANGED << QOS_CONFIG, QOS_TOKEN_BUCKET, clock, pending, window >>
      BY <1>4 DEF vars
  <2>2. CASE Observed
      BY <2>1, <2>2, <1>1, OutsideTheWindow
  <2>3. CASE ~Observed
      BY <2>1, <2>3, <1>3
  <2>4. QED BY <2>2, <2>3
<1>5. ASSUME NEW c \in Cpus, NEW key \in QosKeys, NEW pkt \in Packets, Miss(c, key, pkt)
      PROVE  Done
  <2>1. CASE ~Observed
    <3>1. window.key # key
        BY <2>1, NoneAssumption DEF Observed
    <3>2. window' = window
        BY <1>5, <3>1 DEF Miss, Account
    <3>3. QED BY <2>1, <3>2, <1>3
  <2>2. CASE Observed /\ c = window.cpu /\ key = window.key
      BY <2>2, <1>1, <1>5, OwnMiss
  <2>3. CASE Observed /\ ~(c = window.cpu /\ key = window.key)
      BY <2>3, <1>1, <1>5, OtherMiss
  <2>4. QED BY <2>1, <2>2, <2>3
<1>6. ASSUME NEW c \in Cpus, NEW key \in QosKeys, NEW pkt \in Packets, Hit(c, key, pkt)
      PROVE  Done
  <2>1. CASE ~Observed
    <3>1. window.key # key
        BY <2>1, NoneAssumption DEF Observed
    <3>2. PICK tokens, edt, passed : Served(c, key, tokens, edt, passed)
        BY <1>1, <1>6, HitServes DEF IInv
    <3>3. window' = window
        BY <3>1, <3>2 DEF Served, Account
    <3>4. QED BY <2>1, <3>3, <1>3
  <2>2. CASE Observed /\ c = window.cpu /\ key = window.key
      BY <2>2, <1>1, <1>6, OwnHit
  <2>3. CASE Observed /\ ~(c = window.cpu /\ key = window.key)
      BY <2>3, <1>1, <1>6, OtherHit
  <2>4. QED BY <2>1, <2>2, <2>3
<1>7. ASSUME NEW c \in Cpus, InitBucket(c) PROVE Done
  <2>1. CASE ~Observed
    <3>1. window' = window
        BY <1>7 DEF InitBucket
    <3>2. QED BY <2>1, <3>1, <1>3
  <2>2. CASE Observed /\ c = window.cpu /\ Waits
      BY <2>2, <1>1, <1>7, OwnInitBucket
  <2>3. CASE Observed /\ ~(c = window.cpu /\ Waits)
      BY <2>3, <1>1, <1>7, OtherInitBucket
  <2>4. QED BY <2>1, <2>2, <2>3
<1>8. ASSUME NEW r \in QosRules, AddQos(r[1], r[2]) PROVE Done
  <2>1. SUFFICES ASSUME Observed' PROVE Done
      BY <1>2
  <2>2. window' = window /\ window.key # r[1]
      BY <2>1, <1>1, <1>8, CloseKeeps DEF AddQos, Observed, IInv
  <2>3. window.key \in DOMAIN QOS_CONFIG
      BY <2>1, <2>2, <1>1 DEF Observed, IInv, Types
  <2>4. QOS_CONFIG'[window.key] = QOS_CONFIG[window.key]
      BY <2>2, <2>3, <1>8 DEF AddQos, Put
  <2>5. Observed /\ UNCHANGED << QOS_TOKEN_BUCKET, pending >>
      BY <2>1, <2>2, <1>8 DEF AddQos, Observed
  <2>6. QED BY <2>2, <2>4, <2>5, <1>1, OutsideTheWindow
<1>9. ASSUME NEW key \in QosKeys, DeleteQos(key) PROVE Done
  <2>1. SUFFICES ASSUME Observed' PROVE Done
      BY <1>2
  <2>2. window' = window /\ window.key # key
      BY <2>1, <1>1, <1>9, CloseKeeps DEF DeleteQos, Observed, IInv
  <2>3. window.key \in DOMAIN QOS_CONFIG
      BY <2>1, <2>2, <1>1 DEF Observed, IInv, Types
  <2>4. QOS_CONFIG'[window.key] = QOS_CONFIG[window.key]
      BY <2>2, <2>3, <1>9 DEF DeleteQos, Restrict
  <2>5. Observed /\ UNCHANGED << QOS_TOKEN_BUCKET, pending >>
      BY <2>1, <2>2, <1>9 DEF DeleteQos, Observed
  <2>6. QED BY <2>2, <2>4, <2>5, <1>1, OutsideTheWindow
<1>10. ASSUME NEW c \in Cpus, NEW key \in QosKeys, Observe(c, key) PROVE Done
    BY <1>1, <1>10, OpeningAccounts
<1>11. ASSUME Tick PROVE Done
  <2>1. UNCHANGED << QOS_CONFIG, QOS_TOKEN_BUCKET, pending, window >>
      BY <1>11 DEF Tick
  <2>2. CASE Observed
      BY <2>1, <2>2, <1>1, OutsideTheWindow
  <2>3. CASE ~Observed
      BY <2>1, <2>3, <1>3
  <2>4. QED BY <2>2, <2>3
<1>12. QED BY <1>1, <1>4, <1>5, <1>6, <1>7, <1>8, <1>9, <1>10, <1>11 DEF Next

(***************************************************************************)
(* The theorems.                                                           *)
(***************************************************************************)
\* The inductive invariant: no bucket is above its cap or refilled in the
\* future, nothing passes beyond the quota, and nothing that came is lost
\* unaccounted.
THEOREM Invariant == Spec => []IInv
<1>1. Init => IInv
  <2>1. SUFFICES ASSUME Init PROVE IInv
      OBVIOUS
  <2>2. ~Observed
      BY <2>1 DEF Init, Closed, Observed
  <2>3. QED BY <2>1, <2>2, TypesInit, ClosedAccounts DEF IInv
<1>2. IInv /\ [Next]_vars => IInv'
    BY TypesStep, AccountsStep DEF IInv
<1>3. QED BY <1>1, <1>2, PTL DEF Spec

\* The maps of the datapath keep their types: tokens between nothing and the
\* cap, no refill in the future, no more buckets than the map has room for.
THEOREM TypeCorrect == Spec => []TypeOK
<1>1. IInv => TypeOK
    BY TypesTypeOK DEF IInv
<1>2. QED BY <1>1, Invariant, PTL

\* When the window's packet is not waiting for its bucket the bucket says what
\* was let through, and when it is, the allowance alone bounds it.
LEMMA PassedWithin ==
    ASSUME IInv, Watching, Observed, window.passed # 0,
           Shaped(window.key) => Second % RateShare(Rule) = 0
    PROVE  \/ window.passed <= Allowance
           \/ Within(Watched.tokens, Watched.last_refill_ns, Watched.last_edt)
<1>1. Rationed /\ HasBucket
    BY DEF IInv, QuotaInv, Watching, HasBucket
<1>2. CASE Waits
  <2>1. Mine.tokens \in Nat
      BY <1>2, WindowRule, WaitingPacket DEF Waits, Mine, IInv
  <2>2. Mine.tokens + window.passed <= Allowance
      BY <1>1, <1>2 DEF Rationed
  <2>3. window.passed \in Nat /\ Allowance \in Nat
      BY WindowRule DEF IInv
  <2>4. QED BY <2>1, <2>2, <2>3
<1>3. CASE ~Waits
    BY <1>1, <1>3 DEF Rationed
<1>4. QED BY <1>2, <1>3

\* The bucket of an observed key.
LEMMA WatchedBucket ==
    ASSUME IInv, Watching, Observed
    PROVE  /\ Watched.tokens \in Nat /\ Watched.last_edt \in Nat
           /\ Watched.last_refill_ns \in Nat /\ Watched.last_refill_ns <= clock
<1>1. Watched \in Bucket
    BY WindowRule DEF IInv, Types, Watching, Watched
<1>2. clock \in Nat
    BY BoundsAssumption DEF IInv, Types
<1>3. QED BY <1>1, <1>2 DEF Bucket

\* A rule is watched only in an open window.
LEMMA WatchingObserved == ASSUME IInv, Watching PROVE Observed
BY NoneAssumption DEF IInv, Types, Watching, Observed

\* In any period a CPU lets at most its allowance through, and its part of
\* the rate times the period.
LEMMA PolicedShare ==
    ASSUME IInv, Watching, ~Shaped(window.key)
    PROVE  window.passed * Second
               <= Allowance * Second + RateShare(Rule) * (clock - window.since)
<1> DEFINE R == RateShare(Rule)
           A == Allowance
           s == window.since
           p == window.passed
           then == Watched.last_refill_ns
           t == Watched.tokens
<1>1. Observed
    BY WatchingObserved
<1>2. /\ s \in Nat /\ p \in Nat /\ s <= clock /\ clock \in Nat
      /\ R \in Nat \ {0} /\ A \in Nat
    BY <1>1, WindowRule DEF IInv
<1>3. t \in Nat /\ then \in Nat /\ then <= clock
    BY <1>1, WatchedBucket
<1>4. clock - s \in Nat
    BY <1>2
<1>5. R * (clock - s) \in Nat /\ A * Second \in Nat
  <2> HIDE DEF R, A, s
  <2>1. QED BY <1>2, <1>4, SecondAssumption
<1>6. p = 0 \/ p <= A \/ Within(t, then, Watched.last_edt)
    BY <1>1, PassedWithin
<1>7. CASE p = 0 \/ p <= A
  <2>1. p <= A
      BY <1>2, <1>7
  <2>2. p * Second <= A * Second
      BY <1>2, <2>1, SecondAssumption, TimesMono
  <2>3. p * Second \in Int
      BY <1>2, SecondAssumption
  <2> HIDE DEF R, A, s, p
  <2>4. p * Second <= A * Second + R * (clock - s)
      BY <1>5, <2>2, <2>3
  <2>5. QED BY <2>4 DEF R, A, s, p
<1>8. CASE Within(t, then, Watched.last_edt)
  <2>1. (t + p) * Second <= A * Second + R * (then - s) + 0
      BY <1>8 DEF Within
  <2>2. p * Second <= (t + p) * Second
      BY <1>2, <1>3, SecondAssumption, TimesMono
  <2>3. R * (then - s) <= R * (clock - s) /\ R * (then - s) \in Int
    <3>1. then - s \in Int /\ clock - s \in Int /\ then - s <= clock - s
        BY <1>2, <1>3
    <3> HIDE DEF R, s, then
    <3>2. QED BY <1>2, <3>1, TimesMono
  <2>4. p * Second \in Int /\ (t + p) * Second \in Int
      BY <1>2, <1>3, SecondAssumption
  <2> HIDE DEF R, A, s, p, t, then
  <2>5. p * Second <= A * Second + R * (clock - s)
      BY <1>5, <2>1, <2>2, <2>3, <2>4
  <2>6. QED BY <2>5 DEF R, A, s, p
<1>9. QED BY <1>6, <1>7, <1>8

\* n parts are within the whole.
LEMMA WholeOfParts ==
    ASSUME NEW n \in Nat, NEW S \in Nat, NEW passed \in Nat, NEW share \in Nat,
           NEW excess \in Nat, NEW R \in Nat, NEW e \in Nat, NEW burst \in Nat, NEW rate \in Nat,
           n * share <= burst, n * R <= rate,
           passed * S <= (share + excess) * S + R * e
    PROVE  n * passed * S <= (burst + n * excess) * S + rate * e
<1> DEFINE allowed == (share + excess) * S
           came == R * e
<1>1. allowed \in Nat /\ came \in Nat /\ passed * S \in Nat
    OBVIOUS
<1>2. n * (passed * S) <= n * (allowed + came)
    BY <1>1, TimesMono
<1>3. n * (allowed + came) = n * allowed + n * came
  <2> HIDE DEF allowed, came
  <2>1. QED BY <1>1
<1>4. n * allowed <= (burst + n * excess) * S
  <2>1. n * allowed = (n * (share + excess)) * S
      OBVIOUS
  <2>2. n * (share + excess) = n * share + n * excess
      OBVIOUS
  <2>3. n * share \in Int /\ n * excess \in Int
      OBVIOUS
  <2>4. n * share + n * excess <= burst + n * excess
      BY <2>3
  <2>5. (n * share + n * excess) * S <= (burst + n * excess) * S
    <3>1. n * share + n * excess \in Int /\ burst + n * excess \in Int
        BY <2>3
    <3>2. QED BY <2>4, <3>1, TimesMono
  <2>6. QED BY <2>1, <2>2, <2>5
<1>5. n * came <= rate * e
  <2>1. n * came = (n * R) * e
      OBVIOUS
  <2>2. n * R \in Int
      OBVIOUS
  <2>3. (n * R) * e <= rate * e
      BY <2>2, TimesMono
  <2>4. QED BY <2>1, <2>3
<1>6. n * (passed * S) = n * passed * S
    OBVIOUS
<1> DEFINE x == n * passed * S
           y == (burst + n * excess) * S
           z == rate * e
           v == n * allowed
           w == n * came
<1>7. /\ x \in Int /\ y \in Int /\ z \in Int
    OBVIOUS
<1>8. v \in Int /\ w \in Int
  <2> HIDE DEF allowed, came
  <2>1. QED BY <1>1
<1>9. x <= v + w /\ v <= y /\ w <= z
    BY <1>2, <1>3, <1>4, <1>5, <1>6
<1>10. x <= y + z
  <2> HIDE DEF x, y, z, v, w
  <2>1. QED BY <1>7, <1>8, <1>9
<1>11. QED BY <1>10

\* The quota: "each CPU has its own token bucket with rate/num_cpus quota", so
\* num_cpus of them together pass no more than the rule says.
THEOREM Quota == Spec => []QuotaHolds
<1>1. IInv => QuotaHolds
  <2>1. SUFFICES ASSUME IInv, Watching, ~Shaped(window.key),
                        Rule.rate_bps >= num_cpus, Rule.burst_bytes >= num_cpus
                 PROVE  num_cpus * window.passed * Second
                            <= (Rule.burst_bytes + num_cpus * Excess) * Second
                                   + Rule.rate_bps * (clock - window.since)
      BY DEF QuotaHolds
  <2>2. Observed
      BY <2>1, WatchingObserved
  <2>3. /\ window.since \in Nat /\ window.passed \in Nat /\ window.since <= clock /\ clock \in Nat
        /\ RateShare(Rule) \in Nat \ {0} /\ BurstShare(Rule) \in Nat \ {0}
        /\ Excess \in Nat /\ Rule \in Configs
      BY <2>1, <2>2, WindowRule DEF IInv
  <2>4. /\ Rule.rate_bps \in Nat /\ Rule.burst_bytes \in Nat
        /\ num_cpus * RateShare(Rule) <= Rule.rate_bps
        /\ num_cpus * BurstShare(Rule) <= Rule.burst_bytes
      BY <2>1, <2>3, Shares
  <2>5. window.passed * Second
            <= (BurstShare(Rule) + Excess) * Second + RateShare(Rule) * (clock - window.since)
      BY <2>1, PolicedShare DEF Allowance
  <2>6. clock - window.since \in Nat
      BY <2>3
  <2>7. QED BY <2>3, <2>4, <2>5, <2>6, SecondAssumption, CpusAssumption, WholeOfParts
<1>2. QED BY <1>1, Invariant, PTL

\* "the refill MUST be persisted or it's lost": of the tokens that came in a
\* period, those neither spent nor kept were spilt.
THEOREM Credit == Spec => []CreditKept
<1>1. IInv => CreditKept
  <2>1. SUFFICES ASSUME IInv, Watching
                 PROVE  (Watched.tokens + window.passed + window.spilt) * Second
                            >= RateShare(Rule) * (Watched.last_refill_ns - window.since)
      BY DEF CreditKept
  <2>2. Observed /\ HasBucket
      BY <2>1, WatchingObserved DEF Watching, HasBucket
  <2>3. Accounted(Watched.tokens, Watched.last_refill_ns)
      BY <2>1, <2>2 DEF IInv, CreditInv
  <2>4. QED BY <2>3 DEF Accounted
<1>2. QED BY <1>1, Invariant, PTL

\* Shaped packets leave at no more than twice the share of their CPU.
THEOREM Paced == Spec => []PacedWithinTwice
<1>1. IInv => PacedWithinTwice
  <2> DEFINE R == RateShare(Rule)
             A == Allowance
             s == window.since
             p == window.passed
             t == Watched.tokens
             then == Watched.last_refill_ns
             before == Larger(Watched.last_edt, then)
             x == R * (clock - s)
             y == R * (AllGone - s)
  <2>1. SUFFICES ASSUME IInv, Watching, Shaped(window.key), Second % R = 0
                 PROVE  p * Second <= (BurstShare(Rule) + Excess) * Second
                                          + R * ((clock - s) + (AllGone - s))
      BY DEF PacedWithinTwice
  <2>2. Observed
      BY <2>1, WatchingObserved
  <2>3. /\ s \in Nat /\ p \in Nat /\ s <= clock /\ clock \in Nat
        /\ R \in Nat \ {0} /\ A \in Nat
      BY <2>1, <2>2, WindowRule DEF IInv
  <2>4. /\ t \in Nat /\ then \in Nat /\ then <= clock /\ Watched.last_edt \in Nat
      BY <2>1, <2>2, WatchedBucket
  <2>5. /\ AllGone \in Nat /\ before \in Nat /\ before <= AllGone /\ clock <= AllGone
      BY <2>3, <2>4 DEF AllGone, Larger
  <2>6. A * Second \in Nat /\ x \in Nat /\ y \in Nat
    <3>1. clock - s \in Nat /\ AllGone - s \in Nat
        BY <2>3, <2>5
    <3> HIDE DEF R, A, s
    <3>2. QED BY <3>1, <2>3, SecondAssumption
  <2>7. p = 0 \/ p <= A \/ Within(t, then, Watched.last_edt)
      BY <2>1, <2>2, PassedWithin
  <2>8. p * Second <= A * Second + x + y
    <3>1. CASE p = 0 \/ p <= A
      <4>1. p <= A
          BY <2>3, <3>1
      <4>2. p * Second <= A * Second /\ p * Second \in Int
          BY <2>3, <4>1, SecondAssumption, TimesMono
      <4> HIDE DEF A, p, x, y
      <4>3. QED BY <2>6, <4>2
    <3>2. CASE Within(t, then, Watched.last_edt)
      <4>1. (t + p) * Second <= A * Second + R * (then - s) + R * (before - s)
          BY <2>1, <3>2 DEF Within
      <4>2. p * Second <= (t + p) * Second
          BY <2>3, <2>4, SecondAssumption, TimesMono
      <4>3. R * (then - s) <= x /\ R * (before - s) <= y
        <5>1. /\ then - s \in Int /\ clock - s \in Int /\ then - s <= clock - s
              /\ before - s \in Int /\ AllGone - s \in Int /\ before - s <= AllGone - s
            BY <2>3, <2>4, <2>5
        <5> HIDE DEF R, s, then, before
        <5>2. QED BY <2>3, <5>1, TimesMono
      <4>4. /\ p * Second \in Int /\ (t + p) * Second \in Int
            /\ R * (then - s) \in Int /\ R * (before - s) \in Int
        <5> HIDE DEF R, s, then, before, t, p
        <5>1. QED BY <2>3, <2>4, <2>5, SecondAssumption
      <4> HIDE DEF R, A, s, p, t, then, before, x, y
      <4>5. QED BY <2>6, <4>1, <4>2, <4>3, <4>4
    <3>3. QED BY <2>7, <3>1, <3>2
  <2>9. R * ((clock - s) + (AllGone - s)) = x + y
    <3>1. clock - s \in Int /\ AllGone - s \in Int
        BY <2>3, <2>5
    <3> HIDE DEF R, s
    <3>2. QED BY <3>1, <2>3
  <2> HIDE DEF p, x, y, s, R
  <2>10. p * Second <= A * Second + R * ((clock - s) + (AllGone - s))
      BY <2>3, <2>6, <2>8, <2>9
  <2>11. QED BY <2>10 DEF Allowance, p, s, R
<1>2. QED BY <1>1, Invariant, PTL
=============================================================================
