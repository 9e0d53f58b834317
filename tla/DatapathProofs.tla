--------------------------- MODULE DatapathProofs ---------------------------
(***************************************************************************)
(* What a packet between the kernel calls of the policy handlers gets, for *)
(* all groups, requests, rules, frames and bounds, and every port text     *)
(* that only denies.                                                       *)
(***************************************************************************)
EXTENDS Datapath, ControlPlaneProofs

(***************************************************************************)
(* The order of the eight lookups.                                         *)
(***************************************************************************)
\* How many of the three fields of a key are wildcards for a packet that has
\* others, and the fields that are.
Sum(a, b, c) == (IF a THEN 1 ELSE 0) + (IF b THEN 1 ELSE 0) + (IF c THEN 1 ELSE 0)

WildIn(k, pkt, i) == k[i] # << pkt.src, pkt.dst, pkt.proto >>[i]

\* Counting them.
LEMMA WildcardsCounted ==
    ASSUME NEW k, NEW pkt
    PROVE  Cardinality(Wildcards(k, pkt)) =
               Sum(WildIn(k, pkt, 1), WildIn(k, pkt, 2), WildIn(k, pkt, 3))
<1> DEFINE W == Wildcards(k, pkt)
<1>1. \A i : i \in W <=> i \in {1, 2, 3} /\ WildIn(k, pkt, i)
    BY DEF Wildcards, WildIn
<1> HIDE DEF W
<1>2. /\ IsFiniteSet({}) /\ Cardinality({}) = 0
      /\ \A S : IsFiniteSet(S) => Cardinality(S) \in Nat
      /\ \A S, x : IsFiniteSet(S) => /\ IsFiniteSet(S \cup {x})
                                     /\ x \notin S => Cardinality(S \cup {x}) = Cardinality(S) + 1
    BY FS_EmptySet, FS_CardinalityType, FS_AddElement
<1> DEFINE V1 == IF 1 \in W THEN {} \cup {1} ELSE {}
           V2 == IF 2 \in W THEN V1 \cup {2} ELSE V1
           V3 == IF 3 \in W THEN V2 \cup {3} ELSE V2
<1>3. IsFiniteSet(V1) /\ Cardinality(V1) = IF 1 \in W THEN 1 ELSE 0
    BY <1>2
<1>4. 2 \notin V1
    OBVIOUS
<1>5. 3 \notin V2
    OBVIOUS
<1>6. V3 = W
    BY <1>1
<1> HIDE DEF V1
<1>7. IsFiniteSet(V2) /\ Cardinality(V2) = Cardinality(V1) + IF 2 \in W THEN 1 ELSE 0
    BY <1>2, <1>3, <1>4
<1> HIDE DEF V2
<1>8. IsFiniteSet(V3) /\ Cardinality(V3) = Cardinality(V2) + IF 3 \in W THEN 1 ELSE 0
    BY <1>2, <1>3, <1>5, <1>7
<1> HIDE DEF V3
<1>9. QED BY <1>1, <1>3, <1>6, <1>7, <1>8 DEF Sum, W

\* Which of two keys a packet matches goes first.
LEMMA FewerWildcardsFirst ==
    ASSUME NEW k, NEW l, NEW pkt
    PROVE  LET a(i) == WildIn(k, pkt, i)
               b(i) == WildIn(l, pkt, i)
           IN  GoesBefore(k, l, pkt) <=>
                   \/ Sum(a(1), a(2), a(3)) < Sum(b(1), b(2), b(3))
                   \/ /\ Sum(a(1), a(2), a(3)) = Sum(b(1), b(2), b(3))
                      /\ \E i \in 1 .. 3 : /\ a(i) /\ ~b(i)
                                           /\ \A j \in 1 .. 3 : b(j) /\ ~a(j) => i < j
<1>1. /\ \A i : i \in Wildcards(k, pkt) <=> i \in 1 .. 3 /\ WildIn(k, pkt, i)
      /\ \A i : i \in Wildcards(l, pkt) <=> i \in 1 .. 3 /\ WildIn(l, pkt, i)
    BY DEF Wildcards, WildIn
<1>2. /\ Cardinality(Wildcards(k, pkt)) =
             Sum(WildIn(k, pkt, 1), WildIn(k, pkt, 2), WildIn(k, pkt, 3))
      /\ Cardinality(Wildcards(l, pkt)) =
             Sum(WildIn(l, pkt, 1), WildIn(l, pkt, 2), WildIn(l, pkt, 3))
    BY WildcardsCounted
<1>3. GoesBefore(k, l, pkt) <=>
          \/ Cardinality(Wildcards(k, pkt)) < Cardinality(Wildcards(l, pkt))
          \/ /\ Cardinality(Wildcards(k, pkt)) = Cardinality(Wildcards(l, pkt))
             /\ \E i \in Wildcards(k, pkt) \ Wildcards(l, pkt) :
                    \A j \in Wildcards(l, pkt) \ Wildcards(k, pkt) : i < j
    BY DEF GoesBefore
<1>4. QED BY <1>1, <1>2, <1>3

\* The keys of evaluate_policy, one by one.
LEMMA KeysAre ==
    ASSUME NEW pkt
    PROVE  LET s == pkt.src
               d == pkt.dst
               p == pkt.proto
           IN  /\ Key(pkt, 1) = << s, d, p, pkt.dir >>
               /\ Key(pkt, 2) = << 0, d, p, pkt.dir >>
               /\ Key(pkt, 3) = << s, 0, p, pkt.dir >>
               /\ Key(pkt, 4) = << s, d, 0, pkt.dir >>
               /\ Key(pkt, 5) = << 0, 0, p, pkt.dir >>
               /\ Key(pkt, 6) = << 0, d, 0, pkt.dir >>
               /\ Key(pkt, 7) = << s, 0, 0, pkt.dir >>
               /\ Key(pkt, 8) = << 0, 0, 0, pkt.dir >>
BY DEF Key, Candidates

\* Keys have four fields.
Quadruples(rules) == \A k \in DOMAIN rules : k = << k[1], k[2], k[3], k[4] >>

\* A lookup asks for a key that the packet matches.
LEMMA KeysMatch ==
    ASSUME NEW pkt, NEW i \in 1 .. 8
    PROVE  Matches(Key(pkt, i), pkt)
<1> DEFINE s == pkt.src
           d == pkt.dst
           p == pkt.proto
           r == pkt.dir
<1>1. \A a, b, c : a \in {0, s} /\ b \in {0, d} /\ c \in {0, p} => Matches(<< a, b, c, r >>, pkt)
    BY Zenon DEF Matches
<1>2. \E a \in {0, s}, b \in {0, d}, c \in {0, p} : Key(pkt, i) = << a, b, c, r >>
  <2>1. i \in {1, 2, 3, 4, 5, 6, 7, 8}
      OBVIOUS
  <2>2. /\ Key(pkt, 1) = << s, d, p, r >> /\ Key(pkt, 2) = << 0, d, p, r >>
        /\ Key(pkt, 3) = << s, 0, p, r >> /\ Key(pkt, 4) = << s, d, 0, r >>
        /\ Key(pkt, 5) = << 0, 0, p, r >> /\ Key(pkt, 6) = << 0, d, 0, r >>
        /\ Key(pkt, 7) = << s, 0, 0, r >> /\ Key(pkt, 8) = << 0, 0, 0, r >>
      BY KeysAre
  <2> HIDE DEF s, d, p, r
  <2>3. QED BY <2>1, <2>2
<1>3. QED BY <1>1, <1>2

\* And for each of them some lookup asks.
LEMMA MatchIsKey ==
    ASSUME NEW pkt, NEW k, k = << k[1], k[2], k[3], k[4] >>, Matches(k, pkt)
    PROVE  \E i \in 1 .. 8 : k = Key(pkt, i)
<1>1. /\ k[1] = pkt.src \/ k[1] = 0
      /\ k[2] = pkt.dst \/ k[2] = 0
      /\ k[3] = pkt.proto \/ k[3] = 0
      /\ k[4] = pkt.dir
    BY DEF Matches
<1>2. \E i \in {1, 2, 3, 4, 5, 6, 7, 8} : k = Key(pkt, i)
    BY <1>1, KeysAre
<1>3. QED BY <1>2

\* No earlier lookup asks for the same key.
NotBefore(pkt, i) == \A j \in 1 .. i - 1 : Key(pkt, j) # Key(pkt, i)

\* Such a key has exactly the wildcards of its place in the order.
LEMMA WildcardsOfPlace ==
    ASSUME NEW pkt, NEW i \in 1 .. 8, NotBefore(pkt, i)
    PROVE  /\ WildIn(Key(pkt, i), pkt, 1) <=> i \in {2, 5, 6, 8}
           /\ WildIn(Key(pkt, i), pkt, 2) <=> i \in {3, 5, 7, 8}
           /\ WildIn(Key(pkt, i), pkt, 3) <=> i \in {4, 6, 7, 8}
<1> DEFINE s == pkt.src
           d == pkt.dst
           p == pkt.proto
           r == pkt.dir
<1>1. \A a, b, c : LET k == << a, b, c, r >>
                   IN  /\ WildIn(k, pkt, 1) <=> a # s
                       /\ WildIn(k, pkt, 2) <=> b # d
                       /\ WildIn(k, pkt, 3) <=> c # p
    BY DEF WildIn
<1>2. /\ Key(pkt, 1) = << s, d, p, r >> /\ Key(pkt, 2) = << 0, d, p, r >>
      /\ Key(pkt, 3) = << s, 0, p, r >> /\ Key(pkt, 4) = << s, d, 0, r >>
      /\ Key(pkt, 5) = << 0, 0, p, r >> /\ Key(pkt, 6) = << 0, d, 0, r >>
      /\ Key(pkt, 7) = << s, 0, 0, r >> /\ Key(pkt, 8) = << 0, 0, 0, r >>
    BY KeysAre
<1>3. \A j \in 1 .. 8 : j < i => Key(pkt, j) # Key(pkt, i)
    BY DEF NotBefore
<1> DEFINE W(n) == WildIn(Key(pkt, i), pkt, n)
<1>4. i \in {1, 2, 3, 4, 5, 6, 7, 8}
    OBVIOUS
<1> HIDE DEF s, d, p, r
<1>5. CASE i = 1
  <2>1. ~W(1) /\ ~W(2) /\ ~W(3)
      BY <1>1, <1>2, <1>5
  <2>2. QED BY <1>5, <2>1
<1>6. CASE i = 2
  <2>1. s # 0
      BY <1>2, <1>3, <1>6
  <2>2. W(1) /\ ~W(2) /\ ~W(3)
      BY <1>1, <1>2, <1>6, <2>1
  <2>3. QED BY <1>6, <2>2
<1>7. CASE i = 3
  <2>1. d # 0
      BY <1>2, <1>3, <1>7
  <2>2. ~W(1) /\ W(2) /\ ~W(3)
      BY <1>1, <1>2, <1>7, <2>1
  <2>3. QED BY <1>7, <2>2
<1>8. CASE i = 4
  <2>1. p # 0
      BY <1>2, <1>3, <1>8
  <2>2. ~W(1) /\ ~W(2) /\ W(3)
      BY <1>1, <1>2, <1>8, <2>1
  <2>3. QED BY <1>8, <2>2
<1>9. CASE i = 5
  <2>1. s # 0 /\ d # 0
      BY <1>2, <1>3, <1>9
  <2>2. W(1) /\ W(2) /\ ~W(3)
      BY <1>1, <1>2, <1>9, <2>1
  <2>3. QED BY <1>9, <2>2
<1>10. CASE i = 6
  <2>1. s # 0 /\ p # 0
      BY <1>2, <1>3, <1>10
  <2>2. W(1) /\ ~W(2) /\ W(3)
      BY <1>1, <1>2, <1>10, <2>1
  <2>3. QED BY <1>10, <2>2
<1>11. CASE i = 7
  <2>1. d # 0 /\ p # 0
      BY <1>2, <1>3, <1>11
  <2>2. ~W(1) /\ W(2) /\ W(3)
      BY <1>1, <1>2, <1>11, <2>1
  <2>3. QED BY <1>11, <2>2
<1>12. CASE i = 8
  <2>1. s # 0 /\ d # 0 /\ p # 0
      BY <1>2, <1>3, <1>12
  <2>2. W(1) /\ W(2) /\ W(3)
      BY <1>1, <1>2, <1>12, <2>1
  <2>3. QED BY <1>12, <2>2
<1>13. QED BY <1>4, <1>5, <1>6, <1>7, <1>8, <1>9, <1>10, <1>11, <1>12

\* So the order of the lookups is that of the reference.
LEMMA EarlierGoesFirst ==
    ASSUME NEW pkt, NEW i \in 1 .. 8, NEW j \in 1 .. 8, i < j,
           NotBefore(pkt, i), NotBefore(pkt, j)
    PROVE  /\ GoesBefore(Key(pkt, i), Key(pkt, j), pkt)
           /\ ~GoesBefore(Key(pkt, j), Key(pkt, i), pkt)
<1> DEFINE a(n) == WildIn(Key(pkt, i), pkt, n)
           b(n) == WildIn(Key(pkt, j), pkt, n)
<1>1. /\ a(1) <=> i \in {2, 5, 6, 8}
      /\ a(2) <=> i \in {3, 5, 7, 8}
      /\ a(3) <=> i \in {4, 6, 7, 8}
    BY WildcardsOfPlace
<1>2. /\ b(1) <=> j \in {2, 5, 6, 8}
      /\ b(2) <=> j \in {3, 5, 7, 8}
      /\ b(3) <=> j \in {4, 6, 7, 8}
    BY WildcardsOfPlace
<1> DEFINE Less(f1, f2, f3, g1, g2, g3) ==
               \/ Sum(f1, f2, f3) < Sum(g1, g2, g3)
               \/ /\ Sum(f1, f2, f3) = Sum(g1, g2, g3)
                  /\ \/ f1 /\ ~g1
                     \/ (f2 /\ ~g2) /\ ~(g1 /\ ~f1)
                     \/ (f3 /\ ~g3) /\ ~(g1 /\ ~f1) /\ ~(g2 /\ ~f2)
<1>3. /\ GoesBefore(Key(pkt, i), Key(pkt, j), pkt) <=> Less(a(1), a(2), a(3), b(1), b(2), b(3))
      /\ GoesBefore(Key(pkt, j), Key(pkt, i), pkt) <=> Less(b(1), b(2), b(3), a(1), a(2), a(3))
  <2>1. ASSUME NEW k, NEW l
        PROVE  (\E m \in 1 .. 3 : /\ WildIn(k, pkt, m) /\ ~WildIn(l, pkt, m)
                                  /\ \A n \in 1 .. 3 : WildIn(l, pkt, n) /\ ~WildIn(k, pkt, n) => m < n)
               <=> LET f(n) == WildIn(k, pkt, n)
                       g(n) == WildIn(l, pkt, n)
                   IN  \/ f(1) /\ ~g(1)
                       \/ (f(2) /\ ~g(2)) /\ ~(g(1) /\ ~f(1))
                       \/ (f(3) /\ ~g(3)) /\ ~(g(1) /\ ~f(1)) /\ ~(g(2) /\ ~f(2))
    <3>1. 1 .. 3 = {1, 2, 3}
        OBVIOUS
    <3>2. QED BY <3>1
  <2>2. QED BY <2>1, FewerWildcardsFirst
<1> HIDE DEF a, b
<1>4. i \in {1, 2, 3, 4, 5, 6, 7, 8} /\ j \in {1, 2, 3, 4, 5, 6, 7, 8}
    OBVIOUS
<1>5. Less(a(1), a(2), a(3), b(1), b(2), b(3))
    BY <1>1, <1>2, <1>4 DEF Sum
<1>6. ~Less(b(1), b(2), b(3), a(1), a(2), a(3))
    BY <1>1, <1>2, <1>4 DEF Sum
<1>7. QED BY <1>3, <1>5, <1>6

\* Every lookup has a first one with its key.
LEMMA FirstPlace ==
    ASSUME NEW pkt, NEW i \in 1 .. 8
    PROVE  \E j \in 1 .. i : Key(pkt, j) = Key(pkt, i) /\ NotBefore(pkt, j)
<1> DEFINE Same == {j \in 1 .. i : Key(pkt, j) = Key(pkt, i)}
<1>1. Same \in SUBSET Nat /\ i \in Same
    OBVIOUS
<1> HIDE DEF Same
<1>2. PICK j \in Same : \A m \in Same : j <= m
    BY <1>1, TableAssumptions, RT!LeastNat
<1>3. j \in 1 .. i /\ Key(pkt, j) = Key(pkt, i)
    BY DEF Same
<1>4. ASSUME NEW m \in 1 .. j - 1
      PROVE  Key(pkt, m) # Key(pkt, j)
  <2>1. m \in 1 .. i /\ ~(j <= m)
      BY <1>3
  <2>2. QED BY <1>2, <1>3, <2>1 DEF Same
<1>5. QED BY <1>3, <1>4 DEF NotBefore

\* The first lookup that finds a rule finds the one that decides.
LEMMA FirstHitDecides ==
    ASSUME NEW rules, Quadruples(rules), NEW pkt, NEW i \in 1 .. 8,
           Key(pkt, i) \in DOMAIN rules,
           \A j \in 1 .. i - 1 : Key(pkt, j) = Key(pkt, i) \/ Key(pkt, j) \notin DOMAIN rules
    PROVE  Deciding(rules, pkt) = {Key(pkt, i)}
<1>1. PICK h \in 1 .. i : Key(pkt, h) = Key(pkt, i) /\ NotBefore(pkt, h)
    BY FirstPlace
<1> DEFINE k == Key(pkt, h)
<1>2. h \in 1 .. 8 /\ k \in DOMAIN rules /\ Matches(k, pkt)
    BY <1>1, KeysMatch
<1>3. \A m \in 1 .. h - 1 : Key(pkt, m) \notin DOMAIN rules
    BY <1>1 DEF NotBefore
<1>4. ASSUME NEW l \in DOMAIN rules, l # k, Matches(l, pkt)
      PROVE  GoesBefore(k, l, pkt) /\ ~GoesBefore(l, k, pkt)
  <2>1. PICK n \in 1 .. 8 : l = Key(pkt, n)
      BY <1>4, MatchIsKey DEF Quadruples
  <2>2. PICK j \in 1 .. n : Key(pkt, j) = l /\ NotBefore(pkt, j)
      BY <2>1, FirstPlace
  <2>3. j \in 1 .. 8 /\ j # h /\ ~(j \in 1 .. h - 1)
      BY <1>3, <1>4, <2>2
  <2>4. h < j
      BY <1>2, <2>3
  <2>5. QED BY <1>1, <1>2, <2>2, <2>3, <2>4, EarlierGoesFirst
<1> HIDE DEF k
<1>5. \A l \in Deciding(rules, pkt) : l = k
    BY <1>2, <1>4 DEF Deciding
<1>6. k \in Deciding(rules, pkt)
    BY <1>2, <1>4 DEF Deciding
<1>7. QED BY <1>1, <1>5, <1>6 DEF k

\* If no lookup finds one, none does.
LEMMA NoHitNoneDecides ==
    ASSUME NEW rules, Quadruples(rules), NEW pkt,
           \A i \in 1 .. 8 : Key(pkt, i) \notin DOMAIN rules
    PROVE  Deciding(rules, pkt) = {}
BY MatchIsKey DEF Deciding, Quadruples

(***************************************************************************)
(* The verdict of a rule, and where the maps give it.                      *)
(***************************************************************************)
\* What the list says of a packet that a rule decides.
Says(rule, port) ==
    IF port \in PortsOf(rule.ports)
    THEN IF Meaning(rule.ports)[port] = 2 THEN Pass ELSE Drop
    ELSE ActionVerdict(rule.action)

\* The first rule found says what is intended, and Pass is if none is found.
LEMMA IntendedIs ==
    ASSUME NEW rules, Quadruples(rules), NEW pkt
    PROVE  /\ \A i \in 1 .. 8 :
                  /\ Key(pkt, i) \in DOMAIN rules
                  /\ \A j \in 1 .. i - 1 :
                         Key(pkt, j) = Key(pkt, i) \/ Key(pkt, j) \notin DOMAIN rules
                  => Intended(rules, pkt) = Says(rules[Key(pkt, i)], pkt.port)
           /\ (\A i \in 1 .. 8 : Key(pkt, i) \notin DOMAIN rules) => Intended(rules, pkt) = Pass
<1>1. ASSUME NEW i \in 1 .. 8, Key(pkt, i) \in DOMAIN rules,
             \A j \in 1 .. i - 1 : Key(pkt, j) = Key(pkt, i) \/ Key(pkt, j) \notin DOMAIN rules
      PROVE  Intended(rules, pkt) = Says(rules[Key(pkt, i)], pkt.port)
  <2> DEFINE k == Key(pkt, i)
  <2>1. Deciding(rules, pkt) = {k}
      BY <1>1, FirstHitDecides
  <2> HIDE DEF k
  <2>2. Deciding(rules, pkt) # {} /\ (CHOOSE x \in Deciding(rules, pkt) : TRUE) = k
      BY <2>1
  <2> DEFINE c == CHOOSE x \in Deciding(rules, pkt) : TRUE
  <2>3. Intended(rules, pkt) = IF Deciding(rules, pkt) = {} THEN Pass
                               ELSE Says(rules[c], pkt.port)
      BY Zenon DEF Intended, Says
  <2> HIDE DEF c
  <2>4. c = k
      BY <2>2 DEF c
  <2>5. QED BY <2>2, <2>3, <2>4 DEF k
<1>2. ASSUME \A i \in 1 .. 8 : Key(pkt, i) \notin DOMAIN rules
      PROVE  Intended(rules, pkt) = Pass
    BY <1>2, NoHitNoneDecides, Zenon DEF Intended
<1>3. QED BY <1>1, <1>2

\* No text has a port to pass.
OnlyDeny == \A text \in PortTexts : \A i \in DOMAIN text : text[i][3] # 0

\* Its texts say the same of every port they name.
LEMMA SameOperators ==
    /\ \A text : RT!PortsOf(text) = PortsOf(text) /\ RT!Meaning(text) = Meaning(text)
    /\ \A text : RT!Inserts(text) = Inserts(text) /\ (RT!ValidPorts(text) <=> ValidPorts(text))
    /\ \A d : RT!BpfAction(d) = BpfAction(d)
    /\ RT!AllPorts = AllPorts
<1>0. \A d : RT!BpfAction(d) = BpfAction(d)
    BY Zenon DEF RT!BpfAction, BpfAction
<1>1. \A part : RT!PartInserts(part) = PartInserts(part)
    BY <1>0, Zenon DEF RT!PartInserts, PartInserts
<1>2. \A text : RT!Inserts(text) = Inserts(text)
    BY <1>1, ZenonT(40) DEF RT!Inserts, Inserts
<1>3. \A f, x, v : RT!Insert(f, x, v) = Insert(f, x, v)
    BY Zenon DEF RT!Insert, Insert
<1>4. ASSUME NEW q, NEW idx, NEW text, NEW n
      PROVE  RT!Written(q, idx, text, n) = Written(q, idx, text, n)
    BY <1>2, <1>3, ZenonT(40) DEF RT!Written, Written
<1>5. \A q, idx, text : RT!WritePortSet(q, idx, text) = WritePortSet(q, idx, text)
    BY <1>2, <1>4, Zenon DEF RT!WritePortSet, WritePortSet
<1>6. \A text : RT!PortsOf(text) = PortsOf(text)
    BY Zenon DEF RT!PortsOf, PortsOf
<1>7. \A text : RT!Meaning(text) = Meaning(text)
    BY <1>5, <1>6, Zenon DEF RT!Meaning, Meaning
<1>8. \A text : RT!ValidPorts(text) <=> ValidPorts(text)
    BY Zenon DEF RT!ValidPorts, ValidPorts
<1>9. RT!AllPorts = AllPorts
    BY Zenon DEF RT!AllPorts, AllPorts
<1>10. QED BY <1>0, <1>2, <1>6, <1>7, <1>8, <1>9

\* A text with valid parts, all of them to deny, drops each port it names.
LEMMA DenyMeans ==
    ASSUME NEW text \in RT!Text, ValidPorts(text), \A i \in DOMAIN text : text[i][3] # 0,
           NEW port \in PortsOf(text)
    PROVE  Meaning(text)[port] = 1
<1> DEFINE own == RT!WritePortSet(<< >>, 0, text)
<1>1. << >> \in RT!Pools
  <2>1. << >> \in [{} -> {1, 2}] /\ {} \in SUBSET RT!PoolKeys
      OBVIOUS
  <2>2. QED BY <2>1 DEF RT!Pools, RT!PartialMaps
<1>2. RT!ValidPorts(text) /\ port \in RT!PortsOf(text) /\ DOMAIN text = 1 .. Len(text)
    BY SameOperators DEF RT!Text
<1>3. PICK i \in DOMAIN text : port \in text[i][1] .. text[i][2]
    BY DEF PortsOf
<1>4. RT!Names(text, i, port)
    BY <1>2, <1>3 DEF RT!Names
<1>5. PICK j : RT!Names(text, j, port) /\ own[<< 0, port >>] = RT!BpfAction(text[j][3])
  <2>1. text \in RT!Text /\ RT!ValidPorts(text) /\ 0 \in Nat
      BY <1>2
  <2>2. \A n, x : RT!Names(text, n, x) =>
            \E j : RT!Names(text, j, x) /\ own[<< 0, x >>] = RT!BpfAction(text[j][3])
      BY <1>1, <2>1, TableAssumptions, RT!PortSetWritten
  <2>3. QED BY <1>4, <2>2, Zenon
<1>6. RT!BpfAction(text[j][3]) = 1
  <2>1. j \in 1 .. Len(text)
      BY <1>5 DEF RT!Names
  <2>2. text[j][3] # 0
      BY <1>2, <2>1
  <2>3. QED BY <2>2 DEF RT!BpfAction
<1>7. RT!Meaning(text)[port] = own[<< 0, port >>]
    BY <1>2 DEF RT!Meaning
<1>8. QED BY <1>5, <1>6, <1>7, SameOperators

\* The pool has, under the index of a rule, the ports its text names.
Filters(pool, rule) ==
    rule.ports # AllPorts =>
        \A port : << rule.bitmap_idx, port >> \in DOMAIN pool <=> port \in PortsOf(rule.ports)

\* Then the datapath says what the list says.
LEMMA AppliedIs ==
    ASSUME OnlyDeny, NEW t, GoodTable(t), NEW k \in DOMAIN t.rules, NEW pool,
           \A key \in DOMAIN pool : pool[key] = 1, Filters(pool, t.rules[k]), NEW port
    PROVE  ApplyPolicy(PolicyValue(t.rules[k]), pool, port) = Says(t.rules[k], port)
<1> DEFINE rule == t.rules[k]
<1>1. rule.ports \in PortTexts /\ (rule.ports # AllPorts => ValidPorts(rule.ports) /\ rule.bitmap_idx # NoIdx)
  <2>1. rule \in RT!RuleInfo /\ RT!RulesFindTheirSet(t)
      BY TableAssumptions, RT!TableFields DEF GoodTable, RT!Consistent
  <2>2. rule.ports # AllPorts => /\ ValidPorts(rule.ports)
                                 /\ RT!Normalize(rule.ports) \in DOMAIN t.port_sets
                                 /\ rule.bitmap_idx = t.port_sets[RT!Normalize(rule.ports)].bitmap_idx
      BY <2>1, SameOperators DEF RT!RulesFindTheirSet
  <2>3. \A n \in DOMAIN t.port_sets : t.port_sets[n].bitmap_idx \in Nat
      BY TableAssumptions, RT!TableFields DEF GoodTable, RT!PortSetInfo
  <2>4. QED BY <2>1, <2>2, <2>3 DEF RT!RuleInfo, NoIdx
<1> DEFINE value == PolicyValue(rule)
<1>2. /\ value.action = rule.action /\ (value.has_port_filter <=> rule.ports # AllPorts)
      /\ rule.ports # AllPorts => value.bitmap_idx = rule.bitmap_idx
    BY <1>1 DEF PolicyValue
<1>3. CASE rule.ports = AllPorts
  <2>1. port \notin PortsOf(rule.ports)
      BY <1>3 DEF PortsOf, AllPorts
  <2> HIDE DEF value, rule
  <2>2. ApplyPolicy(value, pool, port) = ActionVerdict(rule.action)
      BY <1>2, <1>3 DEF ApplyPolicy
  <2>3. Says(rule, port) = ActionVerdict(rule.action)
      BY <2>1 DEF Says
  <2>4. QED BY <2>2, <2>3 DEF value, rule
<1>4. CASE rule.ports # AllPorts
  <2>1. << value.bitmap_idx, port >> \in DOMAIN pool <=> port \in PortsOf(rule.ports)
      BY <1>2, <1>4 DEF Filters
  <2>2. port \in PortsOf(rule.ports) => Meaning(rule.ports)[port] = 1
      BY <1>1, <1>4, DenyMeans, TextsAssumption DEF OnlyDeny, RT!Text
  <2> HIDE DEF value, rule
  <2>3. CASE port \in PortsOf(rule.ports)
    <3>1. ApplyPolicy(value, pool, port) = Drop
        BY <1>2, <1>4, <2>1, <2>3 DEF ApplyPolicy
    <3>2. Says(rule, port) = Drop
        BY <2>2, <2>3 DEF Says
    <3>3. QED BY <3>1, <3>2 DEF value, rule
  <2>4. CASE port \notin PortsOf(rule.ports)
    <3>1. ApplyPolicy(value, pool, port) = ActionVerdict(rule.action)
        BY <1>2, <2>1, <2>4 DEF ApplyPolicy
    <3>2. Says(rule, port) = ActionVerdict(rule.action)
        BY <2>4 DEF Says
    <3>3. QED BY <3>1, <3>2 DEF value, rule
  <2>5. QED BY <2>3, <2>4
<1>5. QED BY <1>3, <1>4

(***************************************************************************)
(* The calls a handler has still to make.                                  *)
(***************************************************************************)
PolicyOps == {"setPolicy", "dropPolicy"}

KernelCalls == [op : {"setPort"}, key : Nat \X Nat, value : {1}]
               \cup [op : {"setPolicy"}, key : RuleKeys, value : PolicyValues]
               \cup [op : {"dropPolicy"}, key : RuleKeys]
               \cup [op : {"dropPort"}, key : Nat \X Nat]

KeysOf(c, op) == {c[i].key : i \in {j \in DOMAIN c : c[j].op = op}}

PolicyPending(c) == \E i \in DOMAIN c : c[i].op \in PolicyOps

\* Ports are written before the policy and dropped after it.
Ordered(c) ==
    /\ \A i, j \in DOMAIN c : i < j /\ c[i].op # "setPort" => c[j].op = "dropPort"
    /\ \A i \in DOMAIN c : c[i].op = "setPort" =>
           \E j \in DOMAIN c : i < j /\ c[j].op \in PolicyOps

\* A call has one of four operations, and its fields.
LEMMA CallTypes ==
    ASSUME NEW call \in KernelCalls
    PROVE  \/ call.op = "setPort" /\ call.key \in Nat \X Nat /\ call.value = 1
           \/ call.op = "setPolicy" /\ call.key \in RuleKeys
           \/ call.op = "dropPolicy" /\ call.key \in RuleKeys
           \/ call.op = "dropPort" /\ call.key \in Nat \X Nat
BY DEF KernelCalls

\* What is left when the first call has been made.
LEMMA OneCallLess ==
    ASSUME NEW c \in Seq(KernelCalls), c # << >>
    PROVE  /\ 1 \in DOMAIN c /\ Head(c) = c[1] /\ c[1] \in KernelCalls
           /\ Tail(c) \in Seq(KernelCalls)
           /\ \A i \in DOMAIN Tail(c) : i \in Nat /\ i + 1 \in DOMAIN c /\ i + 1 > 1
                                        /\ Tail(c)[i] = c[i + 1]
           /\ \A i \in DOMAIN c : i # 1 => i - 1 \in DOMAIN Tail(c) /\ Tail(c)[i - 1] = c[i]
<1>1. PICK n \in Nat : c \in [1 .. n -> KernelCalls] /\ Len(c) = n
    OBVIOUS
<1>2. n >= 1
    BY <1>1
<1>3. /\ DOMAIN Tail(c) = 1 .. n - 1
      /\ \A i \in 1 .. n - 1 : Tail(c)[i] = c[i + 1]
    BY <1>1, <1>2
<1>4. QED BY <1>1, <1>2, <1>3

\* Of the keys of an operation, the first call's is gone.
LEMMA OneKeyLess ==
    ASSUME NEW c \in Seq(KernelCalls), c # << >>, NEW op
    PROVE  KeysOf(c, op) = KeysOf(Tail(c), op) \cup (IF c[1].op = op THEN {c[1].key} ELSE {})
<1>1. ASSUME NEW x \in KeysOf(c, op)
      PROVE  x \in KeysOf(Tail(c), op) \cup (IF c[1].op = op THEN {c[1].key} ELSE {})
  <2>1. PICK i \in DOMAIN c : c[i].op = op /\ c[i].key = x
      BY <1>1 DEF KeysOf
  <2>2. CASE i = 1
      BY <2>1, <2>2
  <2>3. CASE i # 1
    <3>1. i - 1 \in DOMAIN Tail(c) /\ Tail(c)[i - 1] = c[i]
        BY <2>3, OneCallLess
    <3>2. \E j \in DOMAIN Tail(c) : Tail(c)[j].op = op /\ Tail(c)[j].key = x
        BY <2>1, <3>1
    <3>3. QED BY <3>2 DEF KeysOf
  <2>4. QED BY <2>2, <2>3
<1>2. ASSUME NEW x \in KeysOf(Tail(c), op)
      PROVE  x \in KeysOf(c, op)
  <2>1. PICK i \in DOMAIN Tail(c) : Tail(c)[i].op = op /\ Tail(c)[i].key = x
      BY <1>2 DEF KeysOf
  <2>2. i + 1 \in DOMAIN c /\ Tail(c)[i] = c[i + 1]
      BY OneCallLess
  <2>3. \E j \in DOMAIN c : c[j].op = op /\ c[j].key = x
      BY <2>1, <2>2
  <2>4. QED BY <2>3 DEF KeysOf
<1>3. c[1].op = op => c[1].key \in KeysOf(c, op)
    BY OneCallLess DEF KeysOf
<1>4. QED BY <1>1, <1>2, <1>3

\* The order stays, and tells what the first call leaves to do.
LEMMA OrderKept ==
    ASSUME NEW c \in Seq(KernelCalls), c # << >>, Ordered(c)
    PROVE  /\ Ordered(Tail(c))
           /\ PolicyPending(Tail(c)) => PolicyPending(c)
           /\ c[1].op = "setPort" => PolicyPending(Tail(c)) /\ PolicyPending(c)
           /\ c[1].op # "setPort" => /\ ~PolicyPending(Tail(c))
                                     /\ KeysOf(Tail(c), "setPort") = {}
           /\ c[1].op = "dropPort" => ~PolicyPending(c)
           /\ c[1].op \in PolicyOps => PolicyPending(c)
<1> DEFINE d == Tail(c)
<1>1. /\ 1 \in DOMAIN c
      /\ \A i \in DOMAIN d : i \in Nat /\ i + 1 \in DOMAIN c /\ i + 1 > 1 /\ d[i] = c[i + 1]
      /\ \A i \in DOMAIN c : i # 1 => i - 1 \in DOMAIN d /\ d[i - 1] = c[i]
    BY OneCallLess
<1>2. DOMAIN c \subseteq Nat
    OBVIOUS
<1> HIDE DEF d
<1>3. Ordered(d)
  <2>1. ASSUME NEW i \in DOMAIN d, NEW j \in DOMAIN d, i < j, d[i].op # "setPort"
        PROVE  d[j].op = "dropPort"
    <3>1. /\ i \in Nat /\ j \in Nat
          /\ i + 1 \in DOMAIN c /\ j + 1 \in DOMAIN c
          /\ d[i] = c[i + 1] /\ d[j] = c[j + 1]
        BY <1>1
    <3>2. i + 1 < j + 1
        BY <2>1, <3>1
    <3>3. \A x, y \in DOMAIN c : x < y /\ c[x].op # "setPort" => c[y].op = "dropPort"
        BY DEF Ordered
    <3> HIDE DEF Ordered
    <3>4. QED BY <2>1, <3>1, <3>2, <3>3
  <2>2. ASSUME NEW i \in DOMAIN d, d[i].op = "setPort"
        PROVE  \E j \in DOMAIN d : i < j /\ d[j].op \in PolicyOps
    <3>1. PICK j \in DOMAIN c : i + 1 < j /\ c[j].op \in PolicyOps
        BY <1>1, <2>2 DEF Ordered
    <3>2. j - 1 \in DOMAIN d /\ d[j - 1] = c[j] /\ i < j - 1
        BY <1>1, <1>2, <3>1
    <3>3. QED BY <3>1, <3>2
  <2>3. QED BY <2>1, <2>2 DEF Ordered
<1>4. PolicyPending(d) => PolicyPending(c)
    BY <1>1 DEF PolicyPending
<1>5. ASSUME c[1].op = "setPort"
      PROVE  PolicyPending(d)
  <2>1. PICK j \in DOMAIN c : 1 < j /\ c[j].op \in PolicyOps
      BY <1>1, <1>5 DEF Ordered
  <2>2. j - 1 \in DOMAIN d /\ d[j - 1] = c[j]
      BY <1>1, <1>2, <2>1
  <2>3. QED BY <2>1, <2>2 DEF PolicyPending
<1>6. ASSUME c[1].op # "setPort"
      PROVE  \A i \in DOMAIN d : d[i].op = "dropPort"
  <2> TAKE i \in DOMAIN d
  <2>1. i + 1 \in DOMAIN c /\ 1 < i + 1 /\ d[i] = c[i + 1]
      BY <1>1
  <2>2. QED BY <1>1, <1>6, <2>1 DEF Ordered
<1>7. ASSUME c[1].op = "dropPort"
      PROVE  ~PolicyPending(c)
  <2>1. ASSUME NEW i \in DOMAIN c
        PROVE  c[i].op = "dropPort"
    <3>1. CASE i = 1
        BY <1>7, <3>1
    <3>2. CASE i # 1
      <4>1. i - 1 \in DOMAIN d /\ d[i - 1] = c[i]
          BY <1>1, <3>2
      <4>2. c[1].op # "setPort"
          BY <1>7
      <4>3. QED BY <1>6, <4>1, <4>2
    <3>3. QED BY <3>1, <3>2
  <2>2. QED BY <2>1 DEF PolicyPending, PolicyOps
<1>8. QED BY <1>1, <1>3, <1>4, <1>5, <1>6, <1>7 DEF PolicyPending, PolicyOps, KeysOf, d

\* The numbers up to m + 1 + n are those up to m, the next one and n more.
LEMMA ThreeParts ==
    ASSUME NEW m \in Nat, NEW n \in Nat, NEW i \in 1 .. m + 1 + n
    PROVE  i \in 1 .. m \/ i = m + 1 \/ (i - m - 1 \in 1 .. n /\ i = m + 1 + (i - m - 1) /\ i > m + 1)
    OBVIOUS

\* The calls of a handler: ports to write, the policy, ports to drop.
LEMMA Queue ==
    ASSUME NEW a \in Seq(KernelCalls), NEW b \in KernelCalls, NEW c \in Seq(KernelCalls),
           \A i \in DOMAIN a : a[i].op = "setPort",
           b.op \in PolicyOps,
           \A i \in DOMAIN c : c[i].op = "dropPort"
    PROVE  LET q == a \o << b >> \o c
           IN  /\ q \in Seq(KernelCalls) /\ q # << >>
               /\ Ordered(q)
               /\ KeysOf(q, "setPort") = KeysOf(a, "setPort")
               /\ KeysOf(q, "dropPort") = KeysOf(c, "dropPort")
               /\ \A i \in DOMAIN q : q[i].op \in PolicyOps => q[i] = b
<1> DEFINE q == a \o << b >> \o c
           m == Len(a)
           n == Len(c)
<1>1. m \in Nat /\ n \in Nat /\ DOMAIN a = 1 .. m /\ DOMAIN c = 1 .. n
    OBVIOUS
<1>2. /\ q \in Seq(KernelCalls)
      /\ DOMAIN q = 1 .. m + 1 + n
      /\ \A i \in 1 .. m : q[i] = a[i]
      /\ q[m + 1] = b
      /\ \A i \in 1 .. n : q[m + 1 + i] = c[i]
  <2>1. << b >> \in Seq(KernelCalls) /\ Len(<< b >>) = 1 /\ << b >>[1] = b
      OBVIOUS
  <2>2. /\ a \o << b >> \in Seq(KernelCalls)
        /\ Len(a \o << b >>) = m + 1
        /\ \A i \in 1 .. m : (a \o << b >>)[i] = a[i]
        /\ (a \o << b >>)[m + 1] = b
      BY <2>1, <1>1
  <2> DEFINE ab == a \o << b >>
  <2> HIDE DEF ab
  <2>3. /\ ab \o c \in Seq(KernelCalls)
        /\ DOMAIN (ab \o c) = 1 .. m + 1 + n
        /\ \A i \in 1 .. m + 1 : (ab \o c)[i] = ab[i]
        /\ \A i \in 1 .. n : (ab \o c)[m + 1 + i] = c[i]
      BY <1>1, <2>2 DEF ab
  <2>4. QED BY <1>1, <2>2, <2>3 DEF ab
<1> HIDE DEF q, m, n
<1>3. \A i \in DOMAIN q : \/ i \in 1 .. m /\ q[i] = a[i] /\ q[i].op = "setPort"
                          \/ i = m + 1 /\ q[i] = b
                          \/ /\ i - m - 1 \in 1 .. n /\ q[i] = c[i - m - 1]
                             /\ q[i].op = "dropPort" /\ i > m + 1
  <2> TAKE i \in DOMAIN q
  <2>1. i \in 1 .. m \/ i = m + 1 \/ (i - m - 1 \in 1 .. n /\ i = m + 1 + (i - m - 1) /\ i > m + 1)
    <3>1. m \in Nat /\ n \in Nat
        BY <1>1
    <3>2. i \in 1 .. m + 1 + n
        BY <1>2
    <3>3. QED BY <3>1, <3>2, ThreeParts, Zenon
  <2>2. CASE i \in 1 .. m
      BY <1>1, <1>2, <2>2
  <2>3. CASE i = m + 1
      BY <1>2, <2>3
  <2>4. ASSUME NEW j \in 1 .. n, i = m + 1 + j, i > m + 1
        PROVE  j = i - m - 1 /\ q[i] = c[j] /\ q[i].op = "dropPort"
    <3>1. q[i] = c[j] /\ j \in DOMAIN c
        BY <1>1, <1>2, <2>4
    <3>2. j = i - m - 1
        BY <1>1, <2>4
    <3>3. QED BY <3>1, <3>2
  <2>5. QED BY <2>1, <2>2, <2>3, <2>4
<1>4. m + 1 \in DOMAIN q /\ q[m + 1].op \in PolicyOps /\ 1 .. m \subseteq DOMAIN q
      /\ \A i \in 1 .. n : m + 1 + i \in DOMAIN q
    BY <1>1, <1>2
<1>5. Ordered(q)
  <2>1. \A i, j \in DOMAIN q : i < j /\ q[i].op # "setPort" => q[j].op = "dropPort"
      BY <1>1, <1>2, <1>3
  <2>2. \A i \in DOMAIN q : q[i].op = "setPort" => i < m + 1
      BY <1>1, <1>3 DEF PolicyOps
  <2>3. QED BY <1>4, <2>1, <2>2 DEF Ordered
<1>6. KeysOf(q, "setPort") = KeysOf(a, "setPort")
  <2>1. \A i \in DOMAIN q : q[i].op = "setPort" => i \in DOMAIN a /\ a[i] = q[i]
      BY <1>1, <1>3 DEF PolicyOps
  <2>2. \A i \in DOMAIN a : i \in DOMAIN q /\ q[i] = a[i]
      BY <1>1, <1>2, <1>4
  <2>3. QED BY <2>1, <2>2 DEF KeysOf
<1>7. KeysOf(q, "dropPort") = KeysOf(c, "dropPort")
  <2>1. \A i \in DOMAIN q : q[i].op = "dropPort" =>
            i - m - 1 \in DOMAIN c /\ c[i - m - 1] = q[i]
      BY <1>1, <1>3 DEF PolicyOps
  <2>2. \A i \in DOMAIN c : m + 1 + i \in DOMAIN q /\ q[m + 1 + i] = c[i]
      BY <1>1, <1>2, <1>4
  <2>3. \A x : x \in KeysOf(q, "dropPort") => x \in KeysOf(c, "dropPort")
      BY <2>1 DEF KeysOf
  <2>4. \A x : x \in KeysOf(c, "dropPort") => x \in KeysOf(q, "dropPort")
      BY <2>2 DEF KeysOf
  <2>5. QED BY <2>3, <2>4
<1>8. \A i \in DOMAIN q : q[i].op \in PolicyOps => q[i] = b
    BY <1>3 DEF PolicyOps
<1>9. QED BY <1>2, <1>4, <1>5, <1>6, <1>7, <1>8 DEF q

\* The normal form of a text names its ports, and is a text itself; of one
\* that only denies it is valid, and all of it is to deny.
LEMMA FormIs ==
    ASSUME NEW p \in RT!Text
    PROVE  /\ Normalize(p) \in RT!Text
           /\ PortsOf(Normalize(p)) = PortsOf(p)
           /\ ValidPorts(p) /\ (\A i \in DOMAIN p : p[i][3] # 0) =>
                  ValidPorts(Normalize(p)) /\ \A i \in DOMAIN Normalize(p) : Normalize(p)[i][3] # 0
<1> DEFINE n == Normalize(p)
<1>1. RT!Normalize(p) = n
    BY SameNormalize
<1> HIDE DEF n
<1>2. n \in Seq(Nat \X Nat \X {1, 2})
  <2>1. RT!Normalize(p) \in Seq(RT!Entry)
      BY TableAssumptions, RT!NormalizeSorts, Zenon
  <2>2. QED BY <1>1, <2>1, Zenon DEF RT!Entry
<1>3. n \in Seq(Nat \X Nat \X Nat) /\ DOMAIN n = 1 .. Len(n) /\ DOMAIN p = 1 .. Len(p)
  <2>1. Len(n) \in Nat /\ n \in [1 .. Len(n) -> Nat \X Nat \X {1, 2}]
      BY <1>2
  <2>2. \A i \in 1 .. Len(n) : n[i] \in Nat \X Nat \X Nat
      BY <2>1
  <2>3. n \in [1 .. Len(n) -> Nat \X Nat \X Nat]
      BY <2>1, <2>2
  <2>4. DOMAIN n = 1 .. Len(n)
      BY <2>1
  <2>5. n \in Seq(Nat \X Nat \X Nat)
      BY <2>1, <2>3
  <2>6. DOMAIN p = 1 .. Len(p)
      BY DEF RT!Text
  <2>7. QED BY <2>4, <2>5, <2>6
<1>5. PortsOf(n) = PortsOf(p)
  <2>1. RT!PortsOf(RT!Normalize(p)) = RT!PortsOf(p)
      BY TableAssumptions, RT!PortsOfForm, Zenon
  <2>2. QED BY <1>1, <2>1, SameOperators, Zenon
<1>6. ASSUME ValidPorts(p), \A i \in DOMAIN p : p[i][3] # 0
      PROVE  ValidPorts(n) /\ \A i \in DOMAIN n : n[i][3] # 0
  <2>1. RT!ValidPorts(p)
      BY <1>6, SameOperators
  <2>2. /\ RT!ValidPorts(RT!Normalize(p))
        /\ \A i \in DOMAIN RT!Normalize(p) : RT!Normalize(p)[i][3] # 0
      BY <1>6, <2>1, TableAssumptions, RT!FormDenies, Zenon
  <2>3. QED BY <1>1, <2>2, SameOperators, Zenon
<1>7. QED BY <1>3, <1>5, <1>6 DEF n, RT!Text

\* What add_policy inserts for a text that only denies.
LEMMA DenyInserts ==
    ASSUME NEW text \in RT!Text, ValidPorts(text), \A i \in DOMAIN text : text[i][3] # 0
    PROVE  /\ DOMAIN Inserts(text) = 1 .. Len(Inserts(text)) /\ Len(Inserts(text)) \in Nat
           /\ \A m \in DOMAIN Inserts(text) :
                  /\ Inserts(text)[m][1] \in Nat /\ Inserts(text)[m][1] \in PortsOf(text)
                  /\ Inserts(text)[m][2] = 1
           /\ \A port \in PortsOf(text) : \E m \in DOMAIN Inserts(text) : Inserts(text)[m][1] = port
<1> DEFINE ins == Inserts(text)
<1>1. RT!ValidPorts(text) /\ RT!Inserts(text) = ins /\ DOMAIN text = 1 .. Len(text)
    BY SameOperators DEF RT!Text
<1> HIDE DEF ins
<1>2. ins \in Seq(Nat \X {1, 2})
    BY <1>1, TableAssumptions, RT!InsertsNamed DEF RT!PoolInsert
<1>3. /\ \A m \in 1 .. Len(ins) :
             \E i \in 1 .. Len(text) :
                 /\ RT!Names(text, i, ins[m][1])
                 /\ ins[m][2] = RT!BpfAction(text[i][3])
      /\ \A i, port : RT!Names(text, i, port) => \E m \in 1 .. Len(ins) : ins[m][1] = port
  <2>1. /\ \A m \in 1 .. Len(RT!Inserts(text)) :
               \E i \in 1 .. Len(text) :
                   /\ RT!Names(text, i, RT!Inserts(text)[m][1])
                   /\ RT!Inserts(text)[m][2] = RT!BpfAction(text[i][3])
        /\ \A i, port : RT!Names(text, i, port) =>
               \E m \in 1 .. Len(RT!Inserts(text)) : RT!Inserts(text)[m][1] = port
      BY <1>1, TableAssumptions, RT!InsertsNamed, Zenon
  <2>2. QED BY <1>1, <2>1, Zenon
<1>4. DOMAIN ins = 1 .. Len(ins) /\ Len(ins) \in Nat
    BY <1>2
<1>5. ASSUME NEW m \in DOMAIN ins
      PROVE  ins[m][1] \in Nat /\ ins[m][1] \in PortsOf(text) /\ ins[m][2] = 1
  <2>1. PICK i \in 1 .. Len(text) : /\ RT!Names(text, i, ins[m][1])
                                    /\ ins[m][2] = RT!BpfAction(text[i][3])
      BY <1>3, <1>4
  <2>2. text[i][3] # 0
      BY <1>1, <2>1
  <2>3. RT!BpfAction(text[i][3]) = 1
      BY <2>2 DEF RT!BpfAction
  <2>4. ins[m][1] \in Nat
      BY <1>2, <1>4
  <2>5. QED BY <1>1, <2>1, <2>3, <2>4 DEF RT!Names, PortsOf
<1>6. ASSUME NEW port \in PortsOf(text)
      PROVE  \E m \in DOMAIN ins : ins[m][1] = port
  <2>1. PICK i \in DOMAIN text : port \in text[i][1] .. text[i][2]
      BY <1>6 DEF PortsOf
  <2>2. RT!Names(text, i, port)
      BY <1>1, <2>1 DEF RT!Names
  <2>3. QED BY <1>3, <1>4, <2>2
<1>7. QED BY <1>4, <1>5, <1>6 DEF ins

\* The calls that write the ports of a text.
LEMMA SetPortsCalls ==
    ASSUME NEW text \in RT!Text, ValidPorts(text), \A i \in DOMAIN text : text[i][3] # 0,
           NEW idx \in Nat
    PROVE  /\ SetPorts(idx, text) \in Seq(KernelCalls)
           /\ \A i \in DOMAIN SetPorts(idx, text) : SetPorts(idx, text)[i].op = "setPort"
           /\ KeysOf(SetPorts(idx, text), "setPort") = {idx} \X PortsOf(text)
<1> DEFINE ins == Inserts(text)
           N == Len(ins)
           c == SetPorts(idx, text)
<1>1. /\ DOMAIN ins = 1 .. N /\ N \in Nat
      /\ \A m \in DOMAIN ins : /\ ins[m][1] \in Nat /\ ins[m][1] \in PortsOf(text)
                               /\ ins[m][2] = 1
      /\ \A port \in PortsOf(text) : \E m \in DOMAIN ins : ins[m][1] = port
    BY DenyInserts
<1>2. c = [i \in 1 .. N |-> [op |-> "setPort", key |-> << idx, ins[i][1] >>, value |-> ins[i][2]]]
    BY <1>1 DEF SetPorts
<1> HIDE DEF ins, c, N
<1>3. \A i \in 1 .. N : [op |-> "setPort", key |-> << idx, ins[i][1] >>, value |-> ins[i][2]]
                        \in KernelCalls
    BY <1>1 DEF KernelCalls
<1>4. c \in Seq(KernelCalls)
    BY <1>1, <1>2, <1>3
<1>5. DOMAIN c = 1 .. N
      /\ \A i \in 1 .. N : c[i].op = "setPort" /\ c[i].key = << idx, ins[i][1] >>
    BY <1>2
<1>6. KeysOf(c, "setPort") = {<< idx, ins[i][1] >> : i \in 1 .. N}
    BY <1>5 DEF KeysOf
<1>7. {<< idx, ins[i][1] >> : i \in 1 .. N} = {idx} \X PortsOf(text)
    BY <1>1
<1>8. QED BY <1>4, <1>5, <1>6, <1>7 DEF c

\* Those that delete the ports of a released set.
LEMMA DropPortsCalls ==
    ASSUME NEW released, \A r, s \in released : r = s,
           \A s \in released : /\ s[1] \in Nat /\ s[2] \in RT!Text /\ ValidPorts(s[2])
                               /\ \A i \in DOMAIN s[2] : s[2][i][3] # 0
    PROVE  /\ DropPorts(released) \in Seq(KernelCalls)
           /\ \A i \in DOMAIN DropPorts(released) : DropPorts(released)[i].op = "dropPort"
           /\ KeysOf(DropPorts(released), "dropPort") =
                  UNION {{s[1]} \X PortsOf(s[2]) : s \in released}
<1> DEFINE c == DropPorts(released)
<1>1. CASE released = {}
  <2>1. c = << >>
      BY <1>1 DEF DropPorts
  <2> HIDE DEF c
  <2>2. c \in Seq(KernelCalls) /\ DOMAIN c = {}
      BY <2>1
  <2>3. KeysOf(c, "dropPort") = {} /\ UNION {{s[1]} \X PortsOf(s[2]) : s \in released} = {}
      BY <1>1, <2>2 DEF KeysOf
  <2>4. QED BY <2>2, <2>3 DEF c
<1>2. CASE released # {}
  <2> DEFINE s == CHOOSE s \in released : TRUE
  <2>1. s \in released
      BY <1>2
  <2>2. c = IF ~ValidPorts(s[2]) THEN << >>
            ELSE [i \in DOMAIN Inserts(s[2]) |->
                     [op |-> "dropPort", key |-> << s[1], Inserts(s[2])[i][1] >>]]
      BY <1>2, Zenon DEF DropPorts
  <2> HIDE DEF s
  <2>3. released = {s}
      BY <2>1
  <2> DEFINE ins == Inserts(s[2])
             N == Len(ins)
  <2>4. /\ DOMAIN ins = 1 .. N /\ N \in Nat
        /\ \A m \in DOMAIN ins : ins[m][1] \in Nat /\ ins[m][1] \in PortsOf(s[2])
        /\ \A port \in PortsOf(s[2]) : \E m \in DOMAIN ins : ins[m][1] = port
      BY <2>1, DenyInserts
  <2>5. c = [i \in 1 .. N |-> [op |-> "dropPort", key |-> << s[1], ins[i][1] >>]]
      BY <2>1, <2>2, <2>4
  <2>6. s[1] \in Nat
      BY <2>1
  <2> HIDE DEF ins, c, N
  <2>7. \A i \in 1 .. N : [op |-> "dropPort", key |-> << s[1], ins[i][1] >>] \in KernelCalls
      BY <2>4, <2>6 DEF KernelCalls
  <2>8. c \in Seq(KernelCalls)
    <3>1. c \in [1 .. N -> KernelCalls]
        BY <2>5, <2>7
    <3>2. QED BY <2>4, <3>1
  <2>9. DOMAIN c = 1 .. N
        /\ \A i \in 1 .. N : c[i].op = "dropPort" /\ c[i].key = << s[1], ins[i][1] >>
      BY <2>5
  <2>10. KeysOf(c, "dropPort") = {<< s[1], ins[i][1] >> : i \in 1 .. N}
      BY <2>9 DEF KeysOf
  <2>11. {<< s[1], ins[i][1] >> : i \in 1 .. N} = {s[1]} \X PortsOf(s[2])
      BY <2>4
  <2>12. UNION {{r[1]} \X PortsOf(r[2]) : r \in released} = {s[1]} \X PortsOf(s[2])
      BY <2>3
  <2>13. QED BY <2>8, <2>9, <2>10, <2>11, <2>12 DEF c
<1>3. QED BY <1>1, <1>2

(***************************************************************************)
(* What a handler does to the table.                                       *)
(***************************************************************************)
\* Two lists of rules differ at one key at most.
AgreeOff(r, s, k) == \A l : l # k => /\ l \in DOMAIN r <=> l \in DOMAIN s
                                     /\ l \in DOMAIN r => r[l] = s[l]

\* Sets that stay keep their index, and new ones get one that was not live.
SetsMove(t, u) ==
    \A n \in DOMAIN u.port_sets :
        IF n \in DOMAIN t.port_sets
        THEN u.port_sets[n].bitmap_idx = t.port_sets[n].bitmap_idx
        ELSE u.port_sets[n].bitmap_idx \notin LiveIndices(t)

\* The pool entries of some port sets.
EntriesOf(t, sets) == UNION {{t.port_sets[n].bitmap_idx} \X PortsOf(n) : n \in sets}

SetEntries(t) == EntriesOf(t, DOMAIN t.port_sets)
NewEntries(t, u) == EntriesOf(u, DOMAIN u.port_sets \ DOMAIN t.port_sets)

\* The entries that are deleted with a set that is released.
OldEntries(t, u) == UNION {{s[1]} \X PortsOf(s[2]) : s \in ReleasedPortSets(t, u)}

\* An entry of some sets belongs to one of them.
LEMMA EntryOf ==
    ASSUME NEW t, NEW sets, NEW x
    PROVE  x \in EntriesOf(t, sets) <=>
               \E n \in sets : \E port \in PortsOf(n) : x = << t.port_sets[n].bitmap_idx, port >>
BY DEF EntriesOf

\* The port set of a rule.
LEMMA SetOfRule ==
    ASSUME OnlyDeny, NEW t, GoodTable(t), NEW k \in DOMAIN t.rules, t.rules[k].ports # AllPorts
    PROVE  LET n == Normalize(t.rules[k].ports)
           IN  /\ n \in DOMAIN t.port_sets
               /\ t.port_sets[n].bitmap_idx = t.rules[k].bitmap_idx
               /\ PortsOf(n) = PortsOf(t.rules[k].ports)
               /\ n \in RT!Text /\ ValidPorts(n)
               /\ \A i \in DOMAIN n : n[i][3] # 0
<1> DEFINE rule == t.rules[k]
           text == rule.ports
<1>1. rule \in RT!RuleInfo /\ RT!RulesFindTheirSet(t)
    BY TableAssumptions, RT!TableFields DEF GoodTable, RT!Consistent
<1>2. text \in PortTexts
    BY <1>1 DEF RT!RuleInfo
<1>3. /\ ValidPorts(text)
      /\ RT!Normalize(text) \in DOMAIN t.port_sets
      /\ rule.bitmap_idx = t.port_sets[RT!Normalize(text)].bitmap_idx
    BY <1>1, SameOperators DEF RT!RulesFindTheirSet
<1>4. text \in RT!Text /\ \A i \in DOMAIN text : text[i][3] # 0
    BY <1>2, TextsAssumption DEF OnlyDeny, RT!Text
<1>5. RT!Normalize(text) = Normalize(text)
    BY SameNormalize
<1> HIDE DEF text
<1>6. /\ Normalize(text) \in RT!Text
      /\ PortsOf(Normalize(text)) = PortsOf(text)
      /\ ValidPorts(Normalize(text)) /\ \A i \in DOMAIN Normalize(text) : Normalize(text)[i][3] # 0
    BY <1>3, <1>4, FormIs
<1>7. QED BY <1>3, <1>5, <1>6 DEF text

\* And the other way round.
LEMMA RuleWithSet ==
    ASSUME OnlyDeny, NEW t, GoodTable(t), NEW n \in DOMAIN t.port_sets
    PROVE  /\ t.port_sets[n].bitmap_idx \in Nat
           /\ \E k \in DOMAIN t.rules : /\ t.rules[k].ports # AllPorts
                                        /\ n = Normalize(t.rules[k].ports)
<1>1. t.port_sets[n].bitmap_idx \in Nat
    BY TableAssumptions, RT!TableFields DEF GoodTable, RT!PortSetInfo
<1>2. PICK k \in DOMAIN t.rules : t.rules[k].bitmap_idx = t.port_sets[n].bitmap_idx
    BY SetHasRule
<1>3. t.rules[k].ports # AllPorts
  <2>1. RT!RulesFindTheirSet(t)
      BY DEF GoodTable, RT!Consistent
  <2>2. t.rules[k].ports = AllPorts => t.rules[k].bitmap_idx = RT!NoIdx
      BY <2>1, SameOperators DEF RT!RulesFindTheirSet
  <2>3. QED BY <1>1, <1>2, <2>2 DEF RT!NoIdx
<1>4. /\ Normalize(t.rules[k].ports) \in DOMAIN t.port_sets
      /\ t.port_sets[Normalize(t.rules[k].ports)].bitmap_idx = t.rules[k].bitmap_idx
    BY <1>3, SetOfRule
<1>5. n = Normalize(t.rules[k].ports)
    BY <1>2, <1>4 DEF GoodTable, RT!Consistent, RT!OneSetPerIdx
<1>6. QED BY <1>1, <1>3, <1>5

\* Its index tells a set.
LEMMA SetOfIdx ==
    ASSUME NEW t, GoodTable(t), NEW m \in DOMAIN t.port_sets, NEW n \in DOMAIN t.port_sets,
           t.port_sets[m].bitmap_idx = t.port_sets[n].bitmap_idx
    PROVE  m = n
BY DEF GoodTable, RT!Consistent, RT!OneSetPerIdx

\* A handler that changes one rule releases one port set at most, and what it
\* writes and deletes makes the entries of the sets before those after it.
LEMMA TableChange ==
    ASSUME OnlyDeny, NEW t, GoodTable(t), NEW u, GoodTable(u),
           NEW k, AgreeOff(t.rules, u.rules, k), SetsMove(t, u)
    PROVE  LET released == ReleasedPortSets(t, u)
           IN  /\ \A r, s \in released : r = s
               /\ \A s \in released : /\ s[1] \in Nat /\ s[2] \in RT!Text /\ ValidPorts(s[2])
                                      /\ \A i \in DOMAIN s[2] : s[2][i][3] # 0
               /\ \A key \in OldEntries(t, u) : key[1] \notin LiveIndices(u)
               /\ \A key \in NewEntries(t, u) : key[1] \notin LiveIndices(t)
               /\ SetEntries(u) = (SetEntries(t) \cup NewEntries(t, u)) \ OldEntries(t, u)
<1> DEFINE Idx(n) == t.port_sets[n].bitmap_idx
           Gone == DOMAIN t.port_sets \ DOMAIN u.port_sets
<1>1. \A s : s \in ReleasedPortSets(t, u) <=> \E n \in Gone : s = << Idx(n), n >>
    BY DEF ReleasedPortSets
<1>2. ASSUME NEW n \in Gone
      PROVE  /\ k \in DOMAIN t.rules /\ n = Normalize(t.rules[k].ports)
             /\ Idx(n) \in Nat /\ n \in RT!Text /\ ValidPorts(n)
             /\ \A i \in DOMAIN n : n[i][3] # 0
  <2>1. PICK l \in DOMAIN t.rules : /\ t.rules[l].ports # AllPorts
                                    /\ n = Normalize(t.rules[l].ports)
      BY RuleWithSet
  <2>2. l = k
    <3> SUFFICES ASSUME l # k
                 PROVE  FALSE
        OBVIOUS
    <3>1. l \in DOMAIN u.rules /\ u.rules[l] = t.rules[l]
        BY DEF AgreeOff
    <3>2. n \in DOMAIN u.port_sets
        BY <2>1, <3>1, SetOfRule
    <3>3. QED BY <3>2
  <2>3. Idx(n) \in Nat
      BY RuleWithSet
  <2>4. n \in RT!Text /\ ValidPorts(n) /\ \A i \in DOMAIN n : n[i][3] # 0
      BY <2>1, SetOfRule
  <2>5. QED BY <2>1, <2>2, <2>3, <2>4
<1>3. ASSUME NEW n \in Gone, NEW m \in DOMAIN u.port_sets
      PROVE  u.port_sets[m].bitmap_idx # Idx(n)
  <2>1. CASE m \in DOMAIN t.port_sets
    <3>1. u.port_sets[m].bitmap_idx = Idx(m)
        BY <2>1 DEF SetsMove
    <3>2. QED BY <2>1, <3>1, SetOfIdx
  <2>2. CASE m \notin DOMAIN t.port_sets
      BY <2>2 DEF SetsMove, LiveIndices
  <2>3. QED BY <2>1, <2>2
<1>4. \A x : x \in OldEntries(t, u) <=> \E n \in Gone : \E port \in PortsOf(n) : x = << Idx(n), port >>
  <2>1. ASSUME NEW x \in OldEntries(t, u)
        PROVE  \E n \in Gone : \E port \in PortsOf(n) : x = << Idx(n), port >>
    <3>1. PICK s \in ReleasedPortSets(t, u) : x \in {s[1]} \X PortsOf(s[2])
        BY <2>1 DEF OldEntries
    <3>2. PICK n \in Gone : s = << Idx(n), n >>
        BY <1>1
    <3>3. s[1] = Idx(n) /\ s[2] = n
        BY <3>2
    <3>4. QED BY <3>1, <3>3
  <2>2. ASSUME NEW n \in Gone, NEW port \in PortsOf(n)
        PROVE  << Idx(n), port >> \in OldEntries(t, u)
    <3> DEFINE s == << Idx(n), n >>
    <3>1. s \in ReleasedPortSets(t, u) /\ s[1] = Idx(n) /\ s[2] = n
        BY <1>1
    <3> HIDE DEF s
    <3>2. << Idx(n), port >> \in {s[1]} \X PortsOf(s[2])
        BY <3>1
    <3>3. QED BY <3>1, <3>2 DEF OldEntries
  <2>3. QED BY <2>1, <2>2
<1>5. \A x : x \in NewEntries(t, u) <=>
          \E n \in DOMAIN u.port_sets \ DOMAIN t.port_sets : \E port \in PortsOf(n) :
              x = << u.port_sets[n].bitmap_idx, port >>
    BY EntryOf DEF NewEntries
<1>6. /\ \A x : x \in SetEntries(u) <=>
             \E n \in DOMAIN u.port_sets : \E port \in PortsOf(n) :
                 x = << u.port_sets[n].bitmap_idx, port >>
      /\ \A x : x \in SetEntries(t) <=>
             \E n \in DOMAIN t.port_sets : \E port \in PortsOf(n) : x = << Idx(n), port >>
    BY EntryOf DEF SetEntries
<1>7. /\ \A r, s \in ReleasedPortSets(t, u) : r = s
      /\ \A s \in ReleasedPortSets(t, u) :
             /\ s[1] \in Nat /\ s[2] \in RT!Text /\ ValidPorts(s[2])
             /\ \A i \in DOMAIN s[2] : s[2][i][3] # 0
  <2>1. ASSUME NEW s \in ReleasedPortSets(t, u)
        PROVE  /\ s = << Idx(Normalize(t.rules[k].ports)), Normalize(t.rules[k].ports) >>
               /\ s[1] \in Nat /\ s[2] \in RT!Text /\ ValidPorts(s[2])
               /\ \A i \in DOMAIN s[2] : s[2][i][3] # 0
    <3>1. PICK n \in Gone : s = << Idx(n), n >>
        BY <1>1
    <3>2. s[1] = Idx(n) /\ s[2] = n
        BY <3>1
    <3> HIDE DEF Gone
    <3>3. QED BY <1>2, <3>1, <3>2
  <2>2. QED BY <2>1
<1>8. \A key \in OldEntries(t, u) : key[1] \notin LiveIndices(u)
    BY <1>3, <1>4 DEF LiveIndices
<1>9. \A key \in NewEntries(t, u) : key[1] \notin LiveIndices(t)
    BY <1>5 DEF SetsMove
<1>10. ASSUME NEW x \in SetEntries(u)
       PROVE  (x \in SetEntries(t) \/ x \in NewEntries(t, u)) /\ x \notin OldEntries(t, u)
  <2>1. PICK n \in DOMAIN u.port_sets : \E port \in PortsOf(n) :
            x = << u.port_sets[n].bitmap_idx, port >>
      BY <1>6
  <2>2. x \notin OldEntries(t, u)
      BY <1>3, <1>4, <2>1
  <2>3. CASE n \in DOMAIN t.port_sets
    <3>1. u.port_sets[n].bitmap_idx = Idx(n)
        BY <2>3 DEF SetsMove
    <3>2. QED BY <1>6, <2>1, <2>2, <2>3, <3>1
  <2>4. CASE n \notin DOMAIN t.port_sets
      BY <1>5, <2>1, <2>2, <2>4
  <2>5. QED BY <2>3, <2>4
<1>11. ASSUME NEW x \in SetEntries(t), x \notin OldEntries(t, u)
       PROVE  x \in SetEntries(u)
  <2>1. PICK n \in DOMAIN t.port_sets : \E port \in PortsOf(n) : x = << Idx(n), port >>
      BY <1>6
  <2>2. n \in DOMAIN u.port_sets
      BY <1>4, <1>11, <2>1
  <2>3. u.port_sets[n].bitmap_idx = Idx(n)
      BY <2>2 DEF SetsMove
  <2>4. QED BY <1>6, <2>1, <2>2, <2>3
<1>12. ASSUME NEW x \in NewEntries(t, u)
       PROVE  x \in SetEntries(u)
    BY <1>5, <1>6
<1>13. SetEntries(u) = (SetEntries(t) \cup NewEntries(t, u)) \ OldEntries(t, u)
  <2>1. ASSUME NEW x \in NewEntries(t, u)
        PROVE  x \notin OldEntries(t, u)
      BY <1>10, <1>12
  <2>2. QED BY <1>10, <1>11, <1>12, <2>1
<1>14. QED BY <1>7, <1>8, <1>9, <1>13

(***************************************************************************)
(* The invariant of the handlers, of a table t and the one before b, the   *)
(* calls c still to make, and the two maps.                                *)
(***************************************************************************)
PoliciesOf(rules) == [k \in DOMAIN rules |-> PolicyValue(rules[k])]

\* The rules the datapath goes by.
Active(t, b, c) == IF PolicyPending(c) THEN b.rules ELSE t.rules

\* Ports are written where nobody reads yet, and dropped where nobody reads
\* any more.
GoodCall(call, t, b) ==
    /\ call.op = "setPort" => call.key[1] \notin LiveIndices(b)
    /\ call.op = "setPolicy" => /\ call.key \in DOMAIN t.rules
                                /\ call.value = PolicyValue(t.rules[call.key])
    /\ call.op = "dropPolicy" => call.key \notin DOMAIN t.rules
    /\ call.op = "dropPort" => call.key[1] \notin LiveIndices(t)

CallsInv(t, b, c) ==
    /\ c \in Seq(KernelCalls)
    /\ Ordered(c)
    /\ c = << >> => b = t
    /\ \A i \in DOMAIN c : GoodCall(c[i], t, b)
    /\ \E k : /\ AgreeOff(b.rules, t.rules, k)
              /\ \A i \in DOMAIN c : c[i].op \in PolicyOps => c[i].key = k

PoolGood(t, c, pool) ==
    /\ pool \in Pools
    /\ \A key \in DOMAIN pool : pool[key] = 1
    /\ (DOMAIN pool \cup KeysOf(c, "setPort")) \ KeysOf(c, "dropPort") = SetEntries(t)

Enforces(rules, policies, pool) ==
    /\ policies = PoliciesOf(rules)
    /\ \A k \in DOMAIN rules : Filters(pool, rules[k])

HandlerInv(t, b, c, policies, pool) ==
    /\ GoodTable(t) /\ GoodTable(b)
    /\ CallsInv(t, b, c)
    /\ PoolGood(t, c, pool)
    /\ Enforces(Active(t, b, c), policies, pool)

\* A map after an insert.
LEMMA Inserted ==
    ASSUME NEW f, NEW x, NEW v
    PROVE  /\ DOMAIN Insert(f, x, v) = DOMAIN f \cup {x}
           /\ \A y \in DOMAIN f \cup {x} : Insert(f, x, v)[y] = IF y = x THEN v ELSE f[y]
BY DEF Insert

\* A map after a removal.
LEMMA Removed ==
    ASSUME NEW f, NEW S
    PROVE  /\ DOMAIN Without(f, S) = DOMAIN f \ S
           /\ \A y \in DOMAIN f \ S : Without(f, S)[y] = f[y]
BY DEF Without, Restrict

\* The index of a rule with ports is live.
LEMMA RuleIdxLive ==
    ASSUME OnlyDeny, NEW t, GoodTable(t), NEW k \in DOMAIN t.rules, t.rules[k].ports # AllPorts
    PROVE  t.rules[k].bitmap_idx \in LiveIndices(t)
BY SetOfRule DEF LiveIndices

\* Entries of other indices do not matter to the rules.
LEMMA FiltersKept ==
    ASSUME OnlyDeny, NEW t, GoodTable(t), NEW pool, NEW w,
           \A i \in LiveIndices(t) : \A port :
               << i, port >> \in DOMAIN pool <=> << i, port >> \in DOMAIN w,
           NEW k \in DOMAIN t.rules, Filters(pool, t.rules[k])
    PROVE  Filters(w, t.rules[k])
<1> SUFFICES ASSUME t.rules[k].ports # AllPorts, NEW port
             PROVE  << t.rules[k].bitmap_idx, port >> \in DOMAIN w
                    <=> port \in PortsOf(t.rules[k].ports)
    BY DEF Filters
<1>1. t.rules[k].bitmap_idx \in LiveIndices(t)
    BY RuleIdxLive
<1>2. << t.rules[k].bitmap_idx, port >> \in DOMAIN pool <=> port \in PortsOf(t.rules[k].ports)
    BY DEF Filters
<1> DEFINE i == t.rules[k].bitmap_idx
<1> HIDE DEF i
<1>3. << i, port >> \in DOMAIN pool <=> << i, port >> \in DOMAIN w
    BY <1>1 DEF i
<1>4. QED BY <1>2, <1>3 DEF i

\* With the entries of the live sets the ports of every rule are there.
LEMMA EntriesFilter ==
    ASSUME OnlyDeny, NEW t, GoodTable(t), NEW pool,
           \A i \in LiveIndices(t) : \A port :
               << i, port >> \in DOMAIN pool <=> << i, port >> \in SetEntries(t),
           NEW k \in DOMAIN t.rules
    PROVE  Filters(pool, t.rules[k])
<1> DEFINE i == t.rules[k].bitmap_idx
           text == t.rules[k].ports
           n == Normalize(text)
<1> SUFFICES ASSUME text # AllPorts, NEW port
             PROVE  << i, port >> \in DOMAIN pool <=> port \in PortsOf(text)
    BY DEF Filters
<1>1. /\ n \in DOMAIN t.port_sets /\ t.port_sets[n].bitmap_idx = i
      /\ PortsOf(n) = PortsOf(text) /\ i \in LiveIndices(t)
    BY SetOfRule, RuleIdxLive
<1> HIDE DEF i, n, text
<1>2. << i, port >> \in SetEntries(t) <=>
          \E m \in DOMAIN t.port_sets : \E x \in PortsOf(m) :
              << i, port >> = << t.port_sets[m].bitmap_idx, x >>
    BY EntryOf DEF SetEntries
<1>3. \A m \in DOMAIN t.port_sets : t.port_sets[m].bitmap_idx = i => m = n
    BY <1>1, SetOfIdx
<1>4. << i, port >> \in SetEntries(t) <=> port \in PortsOf(text)
  <2>1. ASSUME << i, port >> \in SetEntries(t)
        PROVE  port \in PortsOf(text)
    <3>1. PICK m \in DOMAIN t.port_sets : \E x \in PortsOf(m) :
              << i, port >> = << t.port_sets[m].bitmap_idx, x >>
        BY <1>2, <2>1
    <3>2. i = t.port_sets[m].bitmap_idx /\ port \in PortsOf(m)
        BY <3>1
    <3>3. QED BY <1>1, <1>3, <3>2
  <2>2. ASSUME port \in PortsOf(text)
        PROVE  << i, port >> \in SetEntries(t)
      BY <1>1, <1>2, <2>2
  <2>3. QED BY <2>1, <2>2
<1>5. << i, port >> \in DOMAIN pool <=> << i, port >> \in SetEntries(t)
    BY <1>1
<1>6. QED BY <1>4, <1>5

\* The calls after the first one has been made.
LEMMA CallsLess ==
    ASSUME NEW t, NEW b, NEW c, CallsInv(t, b, c), c # << >>
    PROVE  LET d == Tail(c)
               b2 == IF d = << >> THEN t ELSE b
           IN  /\ CallsInv(t, b2, d)
               /\ Active(t, b2, d) = IF PolicyPending(d) THEN b.rules ELSE t.rules
<1> DEFINE d == Tail(c)
           b2 == IF d = << >> THEN t ELSE b
<1>1. c \in Seq(KernelCalls) /\ Ordered(c) /\ \A i \in DOMAIN c : GoodCall(c[i], t, b)
    BY DEF CallsInv
<1>2. PICK k : /\ AgreeOff(b.rules, t.rules, k)
               /\ \A i \in DOMAIN c : c[i].op \in PolicyOps => c[i].key = k
    BY DEF CallsInv
<1>3. /\ d \in Seq(KernelCalls)
      /\ \A i \in DOMAIN d : i + 1 \in DOMAIN c /\ d[i] = c[i + 1]
    BY <1>1, OneCallLess
<1>4. Ordered(d)
    BY <1>1, OrderKept
<1>5. PolicyPending(d) => d # << >>
    BY DEF PolicyPending
<1> HIDE DEF d
<1>6. CASE d = << >>
  <2>1. \A i \in DOMAIN d : FALSE
      BY <1>6
  <2>2. AgreeOff(b2.rules, t.rules, k)
      BY <1>6 DEF AgreeOff
  <2>3. CallsInv(t, b2, d)
      BY <1>3, <1>4, <1>6, <2>1, <2>2 DEF CallsInv
  <2>4. QED BY <1>5, <1>6, <2>3 DEF Active, d
<1>7. CASE d # << >>
  <2>1. b2 = b
      BY <1>7
  <2>2. \A i \in DOMAIN d : GoodCall(d[i], t, b)
      BY <1>1, <1>3
  <2>3. \A i \in DOMAIN d : d[i].op \in PolicyOps => d[i].key = k
      BY <1>2, <1>3
  <2> HIDE DEF b2
  <2>4. CallsInv(t, b2, d)
      BY <1>2, <1>3, <1>4, <1>7, <2>1, <2>2, <2>3 DEF CallsInv
  <2>5. QED BY <2>1, <2>4 DEF Active, d, b2
<1>8. QED BY <1>6, <1>7

\* What a call does to the pool and to the policies.
Effect(call, pool, policies, w, q) ==
    \/ call.op = "setPort" /\ w = Insert(pool, call.key, call.value) /\ q = policies
    \/ call.op = "setPolicy" /\ w = pool /\ q = Insert(policies, call.key, call.value)
    \/ call.op = "dropPolicy" /\ w = pool /\ q = Without(policies, {call.key})
    \/ call.op = "dropPort" /\ w = Without(pool, {call.key}) /\ q = policies

\* The pool stays what the calls still to come make the entries of the table.
LEMMA PoolCall ==
    ASSUME NEW t, NEW c \in Seq(KernelCalls), c # << >>, Ordered(c), NEW pool,
           PoolGood(t, c, pool), NEW policies, NEW w, NEW q,
           Effect(c[1], pool, policies, w, q)
    PROVE  PoolGood(t, Tail(c), w)
<1> DEFINE d == Tail(c)
           call == c[1]
           S(e) == KeysOf(e, "setPort")
           R(e) == KeysOf(e, "dropPort")
<1>1. /\ S(c) = S(d) \cup (IF call.op = "setPort" THEN {call.key} ELSE {})
      /\ R(c) = R(d) \cup (IF call.op = "dropPort" THEN {call.key} ELSE {})
    BY OneKeyLess
<1>2. call.op # "setPort" => S(d) = {}
    BY OrderKept
<1>3. /\ pool \in Pools /\ \A key \in DOMAIN pool : pool[key] = 1
      /\ (DOMAIN pool \cup S(c)) \ R(c) = SetEntries(t)
    BY DEF PoolGood
<1>4. \/ call.op = "setPort" /\ call.key \in Nat \X Nat /\ call.value = 1
      \/ call.op \in PolicyOps
      \/ call.op = "dropPort"
    BY CallTypes, OneCallLess DEF PolicyOps
<1> HIDE DEF d, call, S, R
<1> USE DEF PolicyOps
<1>5. CASE call.op = "setPort"
  <2>1. w = Insert(pool, call.key, 1)
      BY <1>4, <1>5 DEF Effect, call
  <2>2. DOMAIN w = DOMAIN pool \cup {call.key} /\ \A key \in DOMAIN w : w[key] = 1
    <3>1. /\ DOMAIN w = DOMAIN pool \cup {call.key}
          /\ \A y \in DOMAIN pool \cup {call.key} : w[y] = IF y = call.key THEN 1 ELSE pool[y]
        BY <2>1 DEF Insert
    <3>2. QED BY <1>3, <3>1
  <2>3. w \in Pools
    <3>1. call.key \in Nat \X Nat
        BY <1>4, <1>5
    <3>2. QED BY <1>3, <2>1, <3>1, InsertType DEF Pools
  <2>4. S(c) = S(d) \cup {call.key} /\ R(c) = R(d)
      BY <1>1, <1>5
  <2>5. (DOMAIN w \cup S(d)) \ R(d) = SetEntries(t)
      BY <1>3, <2>2, <2>4
  <2>6. QED BY <2>2, <2>3, <2>5 DEF PoolGood, S, R, d
<1>6. CASE call.op \in PolicyOps
  <2>1. w = pool
      BY <1>6 DEF Effect, call
  <2>2. S(c) = S(d) /\ R(c) = R(d)
      BY <1>1, <1>6
  <2>3. QED BY <1>3, <2>1, <2>2 DEF PoolGood, S, R, d
<1>7. CASE call.op = "dropPort"
  <2>1. w = Without(pool, {call.key})
      BY <1>7 DEF Effect, call
  <2>2. DOMAIN w = DOMAIN pool \ {call.key} /\ \A key \in DOMAIN w : w[key] = 1
    <3>1. /\ DOMAIN w = DOMAIN pool \ {call.key}
          /\ \A y \in DOMAIN pool \ {call.key} : w[y] = pool[y]
        BY <2>1, Removed, Zenon
    <3>2. QED BY <1>3, <3>1
  <2>3. w \in Pools
    <3>1. DOMAIN pool \ {call.key} \subseteq DOMAIN pool
        OBVIOUS
    <3>2. Restrict(pool, DOMAIN pool \ {call.key}) \in PartialMaps(Nat \X Nat, {1, 2})
        BY <1>3, <3>1, RestrictType DEF Pools
    <3>3. QED BY <2>1, <3>2 DEF Pools, Without
  <2>4. S(c) = {} /\ S(d) = {} /\ R(c) = R(d) \cup {call.key}
      BY <1>1, <1>2, <1>7
  <2>5. (DOMAIN w \cup S(d)) \ R(d) = SetEntries(t)
      BY <1>3, <2>2, <2>4
  <2>6. QED BY <2>2, <2>3, <2>5 DEF PoolGood, S, R, d
<1>8. QED BY <1>4, <1>5, <1>6, <1>7

\* The policies after the call that is about one of them.
LEMMA PolicyCall ==
    ASSUME NEW t, NEW b, NEW c, CallsInv(t, b, c), c # << >>, c[1].op \in PolicyOps,
           NEW pool, NEW w, NEW q, Effect(c[1], pool, PoliciesOf(b.rules), w, q)
    PROVE  q = PoliciesOf(t.rules)
<1> DEFINE call == c[1]
           key == call.key
           old == b.rules
           new == t.rules
<1>1. c \in Seq(KernelCalls) /\ 1 \in DOMAIN c
    BY OneCallLess DEF CallsInv
<1>2. GoodCall(call, t, b) /\ AgreeOff(old, new, key)
    BY <1>1 DEF CallsInv
<1>3. /\ DOMAIN PoliciesOf(old) = DOMAIN old /\ DOMAIN PoliciesOf(new) = DOMAIN new
      /\ \A k \in DOMAIN old : PoliciesOf(old)[k] = PolicyValue(old[k])
      /\ \A k \in DOMAIN new : PoliciesOf(new)[k] = PolicyValue(new[k])
      /\ PoliciesOf(new) = [k \in DOMAIN new |-> PoliciesOf(new)[k]]
    BY DEF PoliciesOf
<1>4. CASE call.op = "setPolicy"
  <2>1. q = Insert(PoliciesOf(old), key, call.value)
      BY <1>4 DEF Effect
  <2>2. key \in DOMAIN new /\ call.value = PolicyValue(new[key])
      BY <1>2, <1>4 DEF GoodCall
  <2>3. q = [k \in DOMAIN old \cup {key} |->
                IF k = key THEN PolicyValue(new[key]) ELSE PoliciesOf(old)[k]]
      BY <1>3, <2>1, <2>2 DEF Insert
  <2> HIDE DEF call, key, old, new
  <2>4. DOMAIN old \cup {key} = DOMAIN new
      BY <1>2, <2>2 DEF AgreeOff
  <2>5. \A k \in DOMAIN new : (IF k = key THEN PolicyValue(new[key]) ELSE PoliciesOf(old)[k])
                              = PolicyValue(new[k])
      BY <1>2, <1>3, <2>4 DEF AgreeOff
  <2>6. QED BY <2>3, <2>4, <2>5 DEF PoliciesOf, new
<1>5. CASE call.op = "dropPolicy"
  <2>1. q = Without(PoliciesOf(old), {key})
      BY <1>5 DEF Effect
  <2>2. key \notin DOMAIN new
      BY <1>2, <1>5 DEF GoodCall
  <2>3. q = [k \in DOMAIN old \ {key} |-> PoliciesOf(old)[k]]
      BY <1>3, <2>1 DEF Without, Restrict
  <2> HIDE DEF call, key, old, new
  <2>4. DOMAIN old \ {key} = DOMAIN new
      BY <1>2, <2>2 DEF AgreeOff
  <2>5. \A k \in DOMAIN new : PoliciesOf(old)[k] = PolicyValue(new[k])
      BY <1>2, <1>3, <2>4 DEF AgreeOff
  <2>6. QED BY <2>3, <2>4, <2>5 DEF PoliciesOf, new
<1>6. QED BY <1>4, <1>5 DEF PolicyOps

\* What the datapath enforces after a call.
LEMMA EnforceCall ==
    ASSUME OnlyDeny, NEW t, NEW b, NEW c, c # << >>, NEW pool, NEW policies,
           HandlerInv(t, b, c, policies, pool),
           NEW w, NEW q, Effect(c[1], pool, policies, w, q)
    PROVE  Enforces(IF PolicyPending(Tail(c)) THEN b.rules ELSE t.rules, q, w)
<1> DEFINE d == Tail(c)
           call == c[1]
           key == call.key
<1>1. /\ GoodTable(t) /\ GoodTable(b) /\ CallsInv(t, b, c) /\ PoolGood(t, c, pool)
      /\ Enforces(Active(t, b, c), policies, pool)
    BY DEF HandlerInv
<1>2. /\ c \in Seq(KernelCalls) /\ Ordered(c)
      /\ \A i \in DOMAIN c : GoodCall(c[i], t, b)
    BY <1>1 DEF CallsInv
<1>3. 1 \in DOMAIN c /\ call \in KernelCalls
    BY <1>2, OneCallLess
<1>4. /\ call.op = "setPort" => PolicyPending(d) /\ PolicyPending(c)
      /\ call.op # "setPort" => ~PolicyPending(d) /\ KeysOf(d, "setPort") = {}
      /\ call.op = "dropPort" => ~PolicyPending(c)
      /\ call.op \in PolicyOps => PolicyPending(c)
    BY <1>2, OrderKept
<1>5. \/ call.op = "setPort" /\ key = << key[1], key[2] >>
      \/ call.op \in PolicyOps
      \/ call.op = "dropPort" /\ key = << key[1], key[2] >>
    BY <1>3, CallTypes DEF PolicyOps
<1>6. GoodCall(call, t, b)
    BY <1>2, <1>3
<1> HIDE DEF d, call, key
<1>7. CASE call.op = "setPort"
  <2>1. q = policies /\ w = Insert(pool, key, call.value)
      BY <1>7 DEF Effect, call, key
  <2>2. Enforces(b.rules, policies, pool)
      BY <1>1, <1>4, <1>7 DEF Active
  <2>3. DOMAIN w = DOMAIN pool \cup {key} /\ key[1] \notin LiveIndices(b)
    <3>1. DOMAIN w = DOMAIN pool \cup {key}
        BY <2>1, Inserted, Zenon
    <3>2. key[1] \notin LiveIndices(b)
        BY <1>6, <1>7 DEF GoodCall, key
    <3>3. QED BY <3>1, <3>2
  <2>4. ASSUME NEW k \in DOMAIN b.rules
        PROVE  Filters(w, b.rules[k])
    <3>1. Filters(pool, b.rules[k])
        BY <2>2 DEF Enforces
    <3>2. \A i \in LiveIndices(b) : \A port : << i, port >> # key
        BY <2>3
    <3>3. \A i \in LiveIndices(b) : \A port :
              << i, port >> \in DOMAIN pool <=> << i, port >> \in DOMAIN w
        BY <2>3, <3>2
    <3>4. QED BY <1>1, <3>1, <3>3, FiltersKept
  <2>5. QED BY <1>4, <1>7, <2>1, <2>2, <2>4 DEF Enforces, d
<1>8. CASE call.op \in PolicyOps
  <2>1. w = pool
      BY <1>8 DEF Effect, call, PolicyOps
  <2>2. policies = PoliciesOf(b.rules)
      BY <1>1, <1>4, <1>8 DEF Active, Enforces
  <2>3. q = PoliciesOf(t.rules)
      BY <1>1, <1>8, <2>2, PolicyCall DEF call
  <2>4. KeysOf(c, "setPort") = {}
    <3>1. KeysOf(c, "setPort") = KeysOf(d, "setPort") \cup
                                 (IF call.op = "setPort" THEN {key} ELSE {})
        BY <1>2, OneKeyLess DEF d, call, key
    <3>2. QED BY <1>4, <1>8, <3>1 DEF PolicyOps
  <2>5. DOMAIN pool \ KeysOf(c, "dropPort") = SetEntries(t)
      BY <1>1, <2>4 DEF PoolGood
  <2>6. \A x \in KeysOf(c, "dropPort") : x[1] \notin LiveIndices(t)
      BY <1>2 DEF KeysOf, GoodCall
  <2>7. \A i \in LiveIndices(t) : \A port :
            << i, port >> \in DOMAIN pool <=> << i, port >> \in SetEntries(t)
    <3>1. \A i \in LiveIndices(t) : \A port : << i, port >> \notin KeysOf(c, "dropPort")
        BY <2>6
    <3>2. QED BY <2>5, <3>1
  <2>8. \A k \in DOMAIN t.rules : Filters(w, t.rules[k])
      BY <1>1, <2>1, <2>7, EntriesFilter
  <2>9. QED BY <1>4, <1>8, <2>3, <2>8 DEF Enforces, PolicyOps, d
<1>9. CASE call.op = "dropPort"
  <2>1. q = policies /\ w = Without(pool, {key})
      BY <1>9 DEF Effect, call, key
  <2>2. Enforces(t.rules, policies, pool)
      BY <1>1, <1>4, <1>9 DEF Active
  <2>3. DOMAIN w = DOMAIN pool \ {key} /\ key[1] \notin LiveIndices(t)
    <3>1. DOMAIN w = DOMAIN pool \ {key}
        BY <2>1, Removed, Zenon
    <3>2. key[1] \notin LiveIndices(t)
        BY <1>6, <1>9 DEF GoodCall, key
    <3>3. QED BY <3>1, <3>2
  <2>4. ASSUME NEW k \in DOMAIN t.rules
        PROVE  Filters(w, t.rules[k])
    <3>1. Filters(pool, t.rules[k])
        BY <2>2 DEF Enforces
    <3>2. \A i \in LiveIndices(t) : \A port : << i, port >> # key
        BY <2>3
    <3>3. \A i \in LiveIndices(t) : \A port :
              << i, port >> \in DOMAIN pool <=> << i, port >> \in DOMAIN w
        BY <2>3, <3>2
    <3>4. QED BY <1>1, <3>1, <3>3, FiltersKept
  <2>5. QED BY <1>4, <1>9, <2>1, <2>2, <2>4 DEF Enforces, d
<1>10. QED BY <1>5, <1>7, <1>8, <1>9

\* A call keeps the invariant.
LEMMA CallMade ==
    ASSUME OnlyDeny, NEW t, NEW b, NEW c, c # << >>, NEW pool, NEW policies,
           HandlerInv(t, b, c, policies, pool),
           NEW w, NEW q, Effect(c[1], pool, policies, w, q)
    PROVE  HandlerInv(t, IF Tail(c) = << >> THEN t ELSE b, Tail(c), q, w)
<1> DEFINE b2 == IF Tail(c) = << >> THEN t ELSE b
<1>1. GoodTable(t) /\ GoodTable(b2) /\ CallsInv(t, b, c) /\ PoolGood(t, c, pool)
    BY DEF HandlerInv
<1>2. /\ CallsInv(t, b2, Tail(c))
      /\ Active(t, b2, Tail(c)) = IF PolicyPending(Tail(c)) THEN b.rules ELSE t.rules
    BY <1>1, CallsLess
<1>3. Enforces(IF PolicyPending(Tail(c)) THEN b.rules ELSE t.rules, q, w)
    BY EnforceCall
<1>4. PoolGood(t, Tail(c), w)
    BY <1>1, PoolCall DEF CallsInv
<1> HIDE DEF b2
<1>5. HandlerInv(t, b2, Tail(c), q, w)
    BY <1>1, <1>2, <1>3, <1>4 DEF HandlerInv
<1>6. QED BY <1>5 DEF b2

(***************************************************************************)
(* A handler begins: it writes the ports of the new sets, then the policy, *)
(* and deletes the ports of the set it has released.                       *)
(***************************************************************************)
\* What add_policy and delete_policy have in common.
LEMMA HandlerBegins ==
    ASSUME OnlyDeny, NEW t, NEW u, GoodTable(u), NEW policies, NEW pool,
           HandlerInv(t, t, << >>, policies, pool),
           NEW k, AgreeOff(t.rules, u.rules, k), SetsMove(t, u),
           NEW show \in Seq(KernelCalls), \A i \in DOMAIN show : show[i].op = "setPort",
           KeysOf(show, "setPort") = NewEntries(t, u),
           NEW call \in KernelCalls, call.op \in PolicyOps, call.key = k, GoodCall(call, u, t)
    PROVE  LET c == show \o << call >> \o DropPorts(ReleasedPortSets(t, u))
           IN  HandlerInv(u, t, c, policies, pool) /\ c # << >>
<1> DEFINE drop == DropPorts(ReleasedPortSets(t, u))
           c == show \o << call >> \o drop
<1>1. GoodTable(t) /\ PoolGood(t, << >>, pool) /\ Enforces(Active(t, t, << >>), policies, pool)
    BY DEF HandlerInv
<1>2. /\ \A r, s \in ReleasedPortSets(t, u) : r = s
      /\ \A s \in ReleasedPortSets(t, u) :
             /\ s[1] \in Nat /\ s[2] \in RT!Text /\ ValidPorts(s[2])
             /\ \A i \in DOMAIN s[2] : s[2][i][3] # 0
      /\ \A key \in OldEntries(t, u) : key[1] \notin LiveIndices(u)
      /\ \A key \in NewEntries(t, u) : key[1] \notin LiveIndices(t)
      /\ SetEntries(u) = (SetEntries(t) \cup NewEntries(t, u)) \ OldEntries(t, u)
    BY <1>1, TableChange
<1>3. /\ drop \in Seq(KernelCalls)
      /\ \A i \in DOMAIN drop : drop[i].op = "dropPort"
      /\ KeysOf(drop, "dropPort") = OldEntries(t, u)
    BY <1>2, DropPortsCalls DEF OldEntries
<1> HIDE DEF drop
<1>4. /\ c \in Seq(KernelCalls) /\ c # << >>
      /\ Ordered(c)
      /\ KeysOf(c, "setPort") = NewEntries(t, u)
      /\ KeysOf(c, "dropPort") = OldEntries(t, u)
      /\ \A i \in DOMAIN c : c[i].op \in PolicyOps => c[i] = call
  <2>1. /\ c \in Seq(KernelCalls) /\ c # << >>
        /\ Ordered(c)
        /\ KeysOf(c, "setPort") = KeysOf(show, "setPort")
        /\ KeysOf(c, "dropPort") = KeysOf(drop, "dropPort")
        /\ \A i \in DOMAIN c : c[i].op \in PolicyOps => c[i] = call
      BY <1>3, Queue
  <2>2. QED BY <1>3, <2>1
<1> HIDE DEF c
<1>5. \A i \in DOMAIN c : GoodCall(c[i], u, t)
  <2>1. TAKE i \in DOMAIN c
  <2>2. CASE c[i].op \in PolicyOps
      BY <1>4, <2>2
  <2>3. CASE c[i].op = "setPort"
    <3>1. c[i].key \in NewEntries(t, u)
        BY <1>4, <2>3 DEF KeysOf
    <3>2. QED BY <1>2, <2>3, <3>1 DEF GoodCall
  <2>4. CASE c[i].op = "dropPort"
    <3>1. c[i].key \in OldEntries(t, u)
        BY <1>4, <2>4 DEF KeysOf
    <3>2. QED BY <1>2, <2>4, <3>1 DEF GoodCall
  <2>5. c[i] \in KernelCalls
      BY <1>4
  <2>6. QED BY <2>2, <2>3, <2>4, <2>5, CallTypes DEF PolicyOps
<1>6. CallsInv(u, t, c)
    BY <1>4, <1>5 DEF CallsInv
<1>7. PoolGood(u, c, pool)
  <2>1. KeysOf(<< >>, "setPort") = {} /\ KeysOf(<< >>, "dropPort") = {}
      BY DEF KeysOf
  <2>2. pool \in Pools /\ (\A key \in DOMAIN pool : pool[key] = 1) /\ DOMAIN pool = SetEntries(t)
      BY <1>1, <2>1 DEF PoolGood
  <2>3. QED BY <1>2, <1>4, <2>2 DEF PoolGood
<1>8. Enforces(Active(u, t, c), policies, pool)
  <2>1. KeysOf(c, "setPort") = NewEntries(t, u)
      BY <1>4
  <2>2. PolicyPending(c)
    <3>1. \E i \in DOMAIN c : c[i].op \in PolicyOps
      <4>1. Len(show) \in Nat /\ Len(show \o << call >>) = Len(show) + 1
            /\ (show \o << call >>)[Len(show) + 1] = call
          OBVIOUS
      <4>2. show \o << call >> \in Seq(KernelCalls) /\ drop \in Seq(KernelCalls)
          BY <1>3
      <4> DEFINE a == show \o << call >>
                 m == Len(show) + 1
      <4> HIDE DEF a
      <4>3. m \in DOMAIN (a \o drop) /\ (a \o drop)[m] = a[m]
          BY <4>1, <4>2 DEF a
      <4>4. QED BY <4>1, <4>3 DEF a, c
    <3>2. QED BY <3>1 DEF PolicyPending
  <2>3. ~PolicyPending(<< >>)
      BY DEF PolicyPending
  <2>4. QED BY <1>1, <2>2, <2>3 DEF Active
<1>9. HandlerInv(u, t, c, policies, pool)
    BY <1>1, <1>6, <1>7, <1>8 DEF HandlerInv
<1>10. QED BY <1>4, <1>9 DEF c, drop

\* add_policy begins.
LEMMA AddBegins ==
    ASSUME OnlyDeny, NEW policies, NEW pool, HandlerInv(table, table, << >>, policies, pool),
           NEW k \in RuleKeys, NEW a \in {0, 1}, NEW p \in PortTexts,
           AddRuleAccepts(table, MaxPortPolicies, p)
    PROVE  LET added == ApplyAddRule(table, k, a, p)
               c == AddCalls(k, p, added)
           IN  /\ HandlerInv(added, table, c, policies, pool) /\ c # << >>
               /\ AgreeOff(table.rules, added.rules, k)
<1> DEFINE added == ApplyAddRule(table, k, a, p)
           n == Normalize(p)
           idx == added.rules[k].bitmap_idx
           show == IF IsNewPortSet(table, p) THEN SetPorts(idx, p) ELSE << >>
           call == [op |-> "setPolicy", key |-> k, value |-> PolicyValue(added.rules[k])]
<1>1. GoodTable(table) /\ table \in RT!Tables /\ RT!Consistent(table)
    BY DEF HandlerInv, GoodTable
<1>2. /\ added \in RT!Tables /\ RT!Consistent(added)
      /\ DOMAIN added.rules = DOMAIN table.rules \cup {k}
      /\ \A l \in DOMAIN table.rules \ {k} : added.rules[l] = table.rules[l]
    BY <1>1, RuleAdded
<1>3. /\ \A m \in DOMAIN added.port_sets :
             IF m \in DOMAIN table.port_sets
             THEN added.port_sets[m].bitmap_idx = table.port_sets[m].bitmap_idx
             ELSE /\ m = n /\ p # AllPorts
                  /\ \A l \in DOMAIN table.port_sets :
                         added.port_sets[m].bitmap_idx # table.port_sets[l].bitmap_idx
      /\ p # AllPorts => /\ n \in DOMAIN added.port_sets
                         /\ idx = added.port_sets[n].bitmap_idx
                         /\ idx \in Nat
                         /\ ValidPorts(p)
    BY <1>1, SetsAfterAdd
<1>4. p \in RT!Text /\ \A i \in DOMAIN p : p[i][3] # 0
    BY TextsAssumption DEF OnlyDeny, RT!Text
<1>5. PortsOf(n) = PortsOf(p)
    BY <1>4, FormIs
<1>6. IsNewPortSet(table, p) <=> p # AllPorts /\ n \notin DOMAIN table.port_sets
    BY DEF IsNewPortSet
<1> SUFFICES /\ HandlerInv(added, table,
                           show \o << call >> \o DropPorts(ReleasedPortSets(table, added)),
                           policies, pool)
             /\ show \o << call >> \o DropPorts(ReleasedPortSets(table, added)) # << >>
             /\ AgreeOff(table.rules, added.rules, k)
    BY Zenon DEF AddCalls
<1>7. GoodTable(added) /\ k \in DOMAIN added.rules
    BY <1>2 DEF GoodTable
<1>8. call \in KernelCalls /\ call.op \in PolicyOps /\ call.key = k /\ GoodCall(call, added, table)
  <2>1. PolicyValue(added.rules[k]) \in PolicyValues
      BY <1>2, <1>7, PolicyTyped
  <2> HIDE DEF added
  <2>2. call \in KernelCalls
      BY <2>1 DEF KernelCalls
  <2>3. QED BY <1>7, <2>2 DEF GoodCall, PolicyOps
<1> HIDE DEF added, n, call, idx
<1>9. AgreeOff(table.rules, added.rules, k)
    BY <1>2 DEF AgreeOff
<1>10. SetsMove(table, added)
    BY <1>3 DEF SetsMove, LiveIndices
<1>11. /\ show \in Seq(KernelCalls) /\ \A i \in DOMAIN show : show[i].op = "setPort"
       /\ KeysOf(show, "setPort") = NewEntries(table, added)
  <2>1. CASE IsNewPortSet(table, p)
    <3>1. show = SetPorts(idx, p) /\ p # AllPorts
        BY <1>6, <2>1
    <3>2. /\ SetPorts(idx, p) \in Seq(KernelCalls)
          /\ \A i \in DOMAIN SetPorts(idx, p) : SetPorts(idx, p)[i].op = "setPort"
          /\ KeysOf(SetPorts(idx, p), "setPort") = {idx} \X PortsOf(p)
        BY <1>3, <1>4, <3>1, SetPortsCalls
    <3>3. DOMAIN added.port_sets \ DOMAIN table.port_sets = {n}
        BY <1>3, <1>6, <2>1
    <3>4. NewEntries(table, added) = {added.port_sets[n].bitmap_idx} \X PortsOf(n)
        BY <3>3 DEF NewEntries, EntriesOf
    <3> HIDE DEF show
    <3>5. NewEntries(table, added) = {idx} \X PortsOf(p)
        BY <1>3, <1>5, <3>1, <3>4
    <3>6. QED BY <3>1, <3>2, <3>5
  <2>2. CASE ~IsNewPortSet(table, p)
    <3>1. show = << >>
        BY <2>2
    <3>2. DOMAIN added.port_sets \ DOMAIN table.port_sets = {}
        BY <1>3, <1>6, <2>2
    <3>3. NewEntries(table, added) = {}
        BY <3>2 DEF NewEntries, EntriesOf
    <3> HIDE DEF show
    <3>4. KeysOf(show, "setPort") = {}
        BY <3>1 DEF KeysOf
    <3>5. QED BY <3>1, <3>3, <3>4
  <2>3. QED BY <2>1, <2>2
<1> HIDE DEF show
<1>12. /\ HandlerInv(added, table,
                     show \o << call >> \o DropPorts(ReleasedPortSets(table, added)),
                     policies, pool)
       /\ show \o << call >> \o DropPorts(ReleasedPortSets(table, added)) # << >>
    BY <1>7, <1>8, <1>9, <1>10, <1>11, HandlerBegins
<1>13. QED BY <1>9, <1>12

\* delete_policy begins.
LEMMA DeleteBegins ==
    ASSUME OnlyDeny, NEW policies, NEW pool, HandlerInv(table, table, << >>, policies, pool),
           NEW k \in DOMAIN table.rules
    PROVE  LET removed == ApplyRemoveRule(table, k)
               c == DeleteCalls(k, removed)
           IN  /\ HandlerInv(removed, table, c, policies, pool) /\ c # << >>
               /\ AgreeOff(table.rules, removed.rules, k)
<1> DEFINE removed == ApplyRemoveRule(table, k)
           call == [op |-> "dropPolicy", key |-> k]
           drop == DropPorts(ReleasedPortSets(table, removed))
<1>1. GoodTable(table) /\ table \in RT!Tables /\ RT!Consistent(table)
    BY DEF HandlerInv, GoodTable
<1>2. /\ removed \in RT!Tables /\ RT!Consistent(removed)
      /\ DOMAIN removed.rules = DOMAIN table.rules \ {k}
      /\ \A l \in DOMAIN removed.rules : removed.rules[l] = table.rules[l]
      /\ \A n \in DOMAIN removed.port_sets :
             /\ n \in DOMAIN table.port_sets
             /\ removed.port_sets[n].bitmap_idx = table.port_sets[n].bitmap_idx
    BY <1>1, RuleRemoved
<1>3. k \in RuleKeys
    BY <1>1, PolicyTyped
<1> HIDE DEF removed
<1>4. GoodTable(removed)
    BY <1>2 DEF GoodTable
<1>5. AgreeOff(table.rules, removed.rules, k)
    BY <1>2 DEF AgreeOff
<1>6. SetsMove(table, removed)
    BY <1>2 DEF SetsMove
<1>7. call \in KernelCalls /\ call.op \in PolicyOps /\ call.key = k /\ GoodCall(call, removed, table)
    BY <1>2, <1>3 DEF KernelCalls, GoodCall, PolicyOps
<1> HIDE DEF call
<1>8. /\ << >> \in Seq(KernelCalls) /\ (\A i \in DOMAIN << >> : << >>[i].op = "setPort")
      /\ KeysOf(<< >>, "setPort") = {}
    BY DEF KeysOf
<1>9. NewEntries(table, removed) = {}
    BY <1>2 DEF NewEntries, EntriesOf
<1>10. HandlerInv(removed, table, << >> \o << call >> \o drop, policies, pool)
       /\ << >> \o << call >> \o drop # << >>
    BY <1>4, <1>5, <1>6, <1>7, <1>8, <1>9, HandlerBegins
<1>11. << >> \o << call >> \o drop = << call >> \o drop
  <2>1. << >> \o << call >> = << call >>
      BY <1>7
  <2>2. QED BY <2>1
<1>12. DeleteCalls(k, removed) = << call >> \o drop
    BY Zenon DEF DeleteCalls, call
<1>13. QED BY <1>5, <1>10, <1>11, <1>12 DEF removed

(***************************************************************************)
(* The packet.  The lists of rules it may be judged by are the one before  *)
(* the handler it overlaps and the one after.                              *)
(***************************************************************************)
\* No lookup below a level finds a rule in both lists.
MissedInOne(old, new, pkt, level) ==
    \A j \in 1 .. level - 1 : Key(pkt, j) \notin DOMAIN old \/ Key(pkt, j) \notin DOMAIN new

\* The rules of a good table have keys of four fields.
LEMMA KeysOfFour ==
    ASSUME NEW t, GoodTable(t)
    PROVE  Quadruples(t.rules)
<1>1. DOMAIN t.rules \subseteq RuleKeys
    BY TableAssumptions, RT!TableFields DEF GoodTable
<1>2. \A k \in RuleKeys : k = << k[1], k[2], k[3], k[4] >>
    BY DEF RuleKeys
<1>3. QED BY <1>1, <1>2 DEF Quadruples

\* Misses that one list alone would have made.
LEMMA MissesOfOne ==
    ASSUME NEW old, NEW new, NEW k, AgreeOff(old, new, k), NEW pkt, NEW level \in 1 .. 9,
           MissedInOne(old, new, pkt, level)
    PROVE  /\ \A j \in 1 .. level - 1 :
                  Key(pkt, j) # k => Key(pkt, j) \notin DOMAIN old /\ Key(pkt, j) \notin DOMAIN new
           /\ (\E j \in 1 .. level - 1 : Key(pkt, j) = k) => k \notin DOMAIN old \/ k \notin DOMAIN new
<1>1. ASSUME NEW j \in 1 .. level - 1, Key(pkt, j) # k
      PROVE  Key(pkt, j) \notin DOMAIN old /\ Key(pkt, j) \notin DOMAIN new
  <2>1. Key(pkt, j) \notin DOMAIN old \/ Key(pkt, j) \notin DOMAIN new
      BY DEF MissedInOne
  <2>2. Key(pkt, j) \in DOMAIN old <=> Key(pkt, j) \in DOMAIN new
      BY <1>1 DEF AgreeOff
  <2>3. QED BY <2>1, <2>2
<1>2. ASSUME NEW j \in 1 .. level - 1, Key(pkt, j) = k
      PROVE  k \notin DOMAIN old \/ k \notin DOMAIN new
    BY <1>2 DEF MissedInOne
<1>3. QED BY <1>1, <1>2

\* Whatever list the lookup goes by that finds a rule, the rule is the one
\* that decides in one of the two lists.
LEMMA HitOfOne ==
    ASSUME NEW old, NEW new, Quadruples(old), Quadruples(new), NEW k, AgreeOff(old, new, k),
           NEW pkt, NEW level \in 1 .. 8, MissedInOne(old, new, pkt, level),
           NEW rules \in {old, new}, Key(pkt, level) \in DOMAIN rules
    PROVE  Says(rules[Key(pkt, level)], pkt.port) \in {Intended(old, pkt), Intended(new, pkt)}
<1> DEFINE key == Key(pkt, level)
<1>1. /\ \A j \in 1 .. level - 1 :
             Key(pkt, j) # k => Key(pkt, j) \notin DOMAIN old /\ Key(pkt, j) \notin DOMAIN new
      /\ (\E j \in 1 .. level - 1 : Key(pkt, j) = k) => k \notin DOMAIN old \/ k \notin DOMAIN new
    BY MissesOfOne
<1>2. ASSUME NEW list \in {old, new}, key \in DOMAIN list,
             \A j \in 1 .. level - 1 : Key(pkt, j) = key \/ Key(pkt, j) \notin DOMAIN list
      PROVE  Intended(list, pkt) = Says(list[key], pkt.port)
    BY <1>2, IntendedIs
<1> HIDE DEF key
<1>3. CASE key = k
  <2>1. \A j \in 1 .. level - 1 : Key(pkt, j) = key \/ Key(pkt, j) \notin DOMAIN rules
      BY <1>1, <1>3
  <2>2. Intended(rules, pkt) = Says(rules[key], pkt.port)
      BY <1>2, <2>1 DEF key
  <2>3. QED BY <2>2 DEF key
<1>4. CASE key # k /\ \E j \in 1 .. level - 1 : Key(pkt, j) = k
  <2>1. PICK list \in {old, new} : k \notin DOMAIN list
      BY <1>1, <1>4
  <2>2. key \in DOMAIN list /\ list[key] = rules[key]
      BY <1>4 DEF AgreeOff, key
  <2>3. \A j \in 1 .. level - 1 : Key(pkt, j) \notin DOMAIN list
      BY <1>1, <2>1
  <2>4. Intended(list, pkt) = Says(list[key], pkt.port)
      BY <1>2, <2>2, <2>3
  <2>5. QED BY <2>2, <2>4 DEF key
<1>5. CASE key # k /\ \A j \in 1 .. level - 1 : Key(pkt, j) # k
  <2>1. \A j \in 1 .. level - 1 : Key(pkt, j) \notin DOMAIN rules
      BY <1>1, <1>5
  <2>2. Intended(rules, pkt) = Says(rules[key], pkt.port)
      BY <1>2, <2>1 DEF key
  <2>3. QED BY <2>2 DEF key
<1>6. QED BY <1>3, <1>4, <1>5

\* If no lookup finds one, one of the lists says Pass.
LEMMA MissOfOne ==
    ASSUME NEW old, NEW new, Quadruples(old), Quadruples(new), NEW k, AgreeOff(old, new, k),
           NEW pkt, MissedInOne(old, new, pkt, 9)
    PROVE  Pass \in {Intended(old, pkt), Intended(new, pkt)}
<1>1. /\ \A j \in 1 .. 8 :
             Key(pkt, j) # k => Key(pkt, j) \notin DOMAIN old /\ Key(pkt, j) \notin DOMAIN new
      /\ (\E j \in 1 .. 8 : Key(pkt, j) = k) => k \notin DOMAIN old \/ k \notin DOMAIN new
  <2>1. 9 \in 1 .. 9 /\ 9 - 1 = 8
      OBVIOUS
  <2>2. QED BY <2>1, MissesOfOne
<1>2. PICK list \in {old, new} : \A j \in 1 .. 8 : Key(pkt, j) \notin DOMAIN list
    BY <1>1
<1>3. Intended(list, pkt) = Pass
    BY <1>2, IntendedIs
<1>4. QED BY <1>3

(***************************************************************************)
(* The invariant of a packet that is judged.                               *)
(***************************************************************************)
\* Before a hit.
Judging(t, b, c, pkt, level, asked, crossed) ==
    /\ level \in 1 .. 8
    /\ crossed \in {0, 1, 2}
    /\ crossed = 0 => /\ c = << >>
                      /\ Intended(t.rules, pkt) \in asked
                      /\ \A i \in 1 .. level - 1 : Key(pkt, i) \notin DOMAIN t.rules
    /\ crossed = 1 =>
           \E old, k : /\ Quadruples(old)
                       /\ AgreeOff(old, t.rules, k)
                       /\ {Intended(old, pkt), Intended(t.rules, pkt)} \subseteq asked
                       /\ PolicyPending(c) => old = b.rules
                       /\ MissedInOne(old, t.rules, pkt, level)

\* After one, as long as the ports it reads are not deleted.
Reading(t, c, pool, pkt, value, asked, crossed, torn) ==
    /\ crossed \in {0, 1, 2}
    /\ torn \in BOOLEAN
    /\ crossed # 2 /\ ~torn =>
           /\ ApplyPolicy(value, pool, pkt.port) \in asked
           /\ \A key \in KeysOf(c, "setPort") : key[1] # value.bitmap_idx
           /\ crossed = 0 => c = << >> /\ value.bitmap_idx \in LiveIndices(t)

PolicyPacket(pkt, level, asked, crossed) ==
    [stage |-> "policy", pkt |-> pkt, level |-> level, asked |-> asked, crossed |-> crossed]

PortPacket(pkt, value, asked, crossed, torn) ==
    [stage |-> "port", pkt |-> pkt, value |-> value, asked |-> asked, crossed |-> crossed,
     torn |-> torn]

PacketInv(t, b, c, pool, p) ==
    \/ p = IdlePacket
    \/ \E pkt, level, asked, crossed :
           /\ p = PolicyPacket(pkt, level, asked, crossed)
           /\ Judging(t, b, c, pkt, level, asked, crossed)
    \/ \E pkt, value, asked, crossed, torn :
           /\ p = PortPacket(pkt, value, asked, crossed, torn)
           /\ Reading(t, c, pool, pkt, value, asked, crossed, torn)

\* The packet when a handler begins that leaves the rules given.
CrossedTo(p, rules) ==
    IF p.stage = "idle" THEN p
    ELSE IF p.crossed = 0
    THEN [p EXCEPT !.crossed = 1, !.asked = @ \cup {Intended(rules, p.pkt)}]
    ELSE [p EXCEPT !.crossed = 2, !.asked = {}]

\* A packet that meets the begin of a handler is judged by the rules before
\* and after it, or by any if it has met another.
LEMMA PacketCrosses ==
    ASSUME NEW t, GoodTable(t), NEW u, GoodTable(u), NEW k, AgreeOff(t.rules, u.rules, k),
           NEW c, CallsInv(u, t, c), NEW pool, NEW p, PacketInv(t, t, << >>, pool, p)
    PROVE  PacketInv(u, t, c, pool, CrossedTo(p, u.rules))
<1>1. CASE p = IdlePacket
    BY <1>1 DEF IdlePacket, PacketInv, CrossedTo
<1>2. ASSUME NEW pkt, NEW level, NEW asked, NEW crossed,
             p = PolicyPacket(pkt, level, asked, crossed),
             Judging(t, t, << >>, pkt, level, asked, crossed)
      PROVE  PacketInv(u, t, c, pool, CrossedTo(p, u.rules))
  <2>1. level \in 1 .. 8 /\ crossed \in {0, 1, 2}
      BY <1>2 DEF Judging
  <2>2. CASE crossed = 0
    <3> DEFINE more == asked \cup {Intended(u.rules, pkt)}
    <3>1. CrossedTo(p, u.rules) = PolicyPacket(pkt, level, more, 1)
        BY <1>2, <2>2 DEF CrossedTo, PolicyPacket
    <3>2. /\ Quadruples(t.rules)
          /\ {Intended(t.rules, pkt), Intended(u.rules, pkt)} \subseteq more
          /\ MissedInOne(t.rules, u.rules, pkt, level)
        BY <1>2, <2>2, KeysOfFour DEF Judging, MissedInOne
    <3> HIDE DEF more
    <3>3. Judging(u, t, c, pkt, level, more, 1)
      <4>1. \E old, l : /\ Quadruples(old)
                        /\ AgreeOff(old, u.rules, l)
                        /\ {Intended(old, pkt), Intended(u.rules, pkt)} \subseteq more
                        /\ PolicyPending(c) => old = t.rules
                        /\ MissedInOne(old, u.rules, pkt, level)
          BY <3>2
      <4>2. QED BY <2>1, <4>1 DEF Judging
    <3>4. QED BY <3>1, <3>3 DEF PacketInv
  <2>3. CASE crossed # 0
    <3>1. CrossedTo(p, u.rules) = PolicyPacket(pkt, level, {}, 2)
        BY <1>2, <2>3 DEF CrossedTo, PolicyPacket
    <3>2. Judging(u, t, c, pkt, level, {}, 2)
        BY <2>1 DEF Judging
    <3>3. QED BY <3>1, <3>2 DEF PacketInv
  <2>4. QED BY <2>2, <2>3
<1>3. ASSUME NEW pkt, NEW value, NEW asked, NEW crossed, NEW torn,
             p = PortPacket(pkt, value, asked, crossed, torn),
             Reading(t, << >>, pool, pkt, value, asked, crossed, torn)
      PROVE  PacketInv(u, t, c, pool, CrossedTo(p, u.rules))
  <2>1. torn \in BOOLEAN
      BY <1>3 DEF Reading
  <2>2. CASE crossed = 0
    <3> DEFINE more == asked \cup {Intended(u.rules, pkt)}
    <3>1. CrossedTo(p, u.rules) = PortPacket(pkt, value, more, 1, torn)
        BY <1>3, <2>2 DEF CrossedTo, PortPacket
    <3>2. \A key \in KeysOf(c, "setPort") : key[1] \notin LiveIndices(t)
        BY DEF CallsInv, KeysOf, GoodCall
    <3>3. ~torn => /\ ApplyPolicy(value, pool, pkt.port) \in more
                   /\ value.bitmap_idx \in LiveIndices(t)
        BY <1>3, <2>2 DEF Reading
    <3>4. Reading(u, c, pool, pkt, value, more, 1, torn)
      <4> HIDE DEF more
      <4>1. QED BY <2>1, <3>2, <3>3 DEF Reading
    <3> HIDE DEF more
    <3>5. QED BY <3>1, <3>4 DEF PacketInv
  <2>3. CASE crossed # 0
    <3>1. CrossedTo(p, u.rules) = PortPacket(pkt, value, {}, 2, torn)
        BY <1>3, <2>3 DEF CrossedTo, PortPacket
    <3>2. Reading(u, c, pool, pkt, value, {}, 2, torn)
        BY <2>1 DEF Reading
    <3>3. QED BY <3>1, <3>2 DEF PacketInv
  <2>4. QED BY <2>2, <2>3
<1>4. QED BY <1>1, <1>2, <1>3 DEF PacketInv

\* A policy reads its own port only.
LEMMA PortsKept ==
    ASSUME NEW value, NEW pool, NEW w, NEW port,
           << value.bitmap_idx, port >> \in DOMAIN pool <=> << value.bitmap_idx, port >> \in DOMAIN w,
           << value.bitmap_idx, port >> \in DOMAIN pool =>
               pool[<< value.bitmap_idx, port >>] = w[<< value.bitmap_idx, port >>]
    PROVE  ApplyPolicy(value, w, port) = ApplyPolicy(value, pool, port)
BY DEF ApplyPolicy

\* The packet when a port of an index is deleted.
TornAt(p, key) ==
    IF p.stage = "port" /\ p.value.bitmap_idx = key[1] THEN [p EXCEPT !.torn = TRUE] ELSE p

\* A packet that reads ports when a call is made.
LEMMA ReadingKept ==
    ASSUME NEW t, NEW c \in Seq(KernelCalls), c # << >>, NEW pool, NEW policies, NEW w, NEW q,
           Effect(c[1], pool, policies, w, q),
           NEW pkt, NEW value, NEW asked, NEW crossed, NEW torn,
           Reading(t, c, pool, pkt, value, asked, crossed, torn),
           c[1].op = "dropPort" => c[1].key[1] # value.bitmap_idx
    PROVE  Reading(t, Tail(c), w, pkt, value, asked, crossed, torn)
<1> DEFINE key == c[1].key
           own == << value.bitmap_idx, pkt.port >>
<1>1. torn \in BOOLEAN /\ crossed \in {0, 1, 2}
    BY DEF Reading
<1>2. SUFFICES ASSUME crossed # 2, ~torn
               PROVE  /\ ApplyPolicy(value, w, pkt.port) \in asked
                      /\ \A x \in KeysOf(Tail(c), "setPort") : x[1] # value.bitmap_idx
                      /\ crossed # 0
    BY <1>1 DEF Reading
<1>3. /\ ApplyPolicy(value, pool, pkt.port) \in asked
      /\ \A x \in KeysOf(c, "setPort") : x[1] # value.bitmap_idx
      /\ crossed # 0
    BY <1>2 DEF Reading
<1>4. KeysOf(c, "setPort") = KeysOf(Tail(c), "setPort")
                             \cup (IF c[1].op = "setPort" THEN {key} ELSE {})
    BY OneKeyLess
<1>5. \A x \in KeysOf(Tail(c), "setPort") : x[1] # value.bitmap_idx
    BY <1>3, <1>4
<1>6. (own \in DOMAIN pool <=> own \in DOMAIN w) /\ (own \in DOMAIN pool => pool[own] = w[own])
  <2>1. own[1] = value.bitmap_idx
      OBVIOUS
  <2> HIDE DEF own
  <2>2. CASE c[1].op = "setPort"
    <3>1. w = Insert(pool, key, c[1].value) /\ own # key
        BY <1>3, <1>4, <2>1, <2>2 DEF Effect
    <3>2. QED BY <3>1 DEF Insert
  <2>3. CASE c[1].op = "dropPort"
    <3>1. w = Without(pool, {key}) /\ own # key
        BY <2>1, <2>3 DEF Effect
    <3>2. QED BY <3>1 DEF Without, Restrict
  <2>4. CASE c[1].op \in PolicyOps
    <3>1. w = pool
        BY <2>4 DEF Effect, PolicyOps
    <3>2. QED BY <3>1
  <2>5. QED BY <2>2, <2>3, <2>4 DEF Effect, PolicyOps
<1>7. ApplyPolicy(value, w, pkt.port) = ApplyPolicy(value, pool, pkt.port)
    BY <1>6, PortsKept
<1>8. QED BY <1>3, <1>5, <1>7

\* A packet, in either stage, when a call is made.
LEMMA PacketCall ==
    ASSUME NEW t, NEW b, NEW c, CallsInv(t, b, c), c # << >>, NEW pool, NEW policies, NEW w, NEW q,
           Effect(c[1], pool, policies, w, q), NEW p, PacketInv(t, b, c, pool, p)
    PROVE  PacketInv(t, IF Tail(c) = << >> THEN t ELSE b, Tail(c), w,
                     IF c[1].op = "dropPort" THEN TornAt(p, c[1].key) ELSE p)
<1> DEFINE d == Tail(c)
           b2 == IF d = << >> THEN t ELSE b
           p2 == IF c[1].op = "dropPort" THEN TornAt(p, c[1].key) ELSE p
<1>1. c \in Seq(KernelCalls) /\ Ordered(c)
    BY DEF CallsInv
<1>2. /\ PolicyPending(d) => PolicyPending(c) /\ d # << >>
    BY <1>1, OrderKept DEF PolicyPending
<1> SUFFICES PacketInv(t, b2, d, w, p2)
    OBVIOUS
<1>3. CASE p = IdlePacket
  <2>1. p2 = IdlePacket
      BY <1>3 DEF IdlePacket, TornAt
  <2>2. QED BY <2>1 DEF PacketInv
<1>4. ASSUME NEW pkt, NEW level, NEW asked, NEW crossed,
             p = PolicyPacket(pkt, level, asked, crossed),
             Judging(t, b, c, pkt, level, asked, crossed)
      PROVE  PacketInv(t, b2, d, w, p2)
  <2>1. p2 = p
      BY <1>4 DEF PolicyPacket, TornAt
  <2>2. crossed # 0
      BY <1>4 DEF Judging
  <2>3. PolicyPending(d) => PolicyPending(c) /\ b2 = b
      BY <1>2
  <2> HIDE DEF b2, d, p2
  <2>4. Judging(t, b2, d, pkt, level, asked, crossed)
      BY <1>4, <2>2, <2>3 DEF Judging
  <2>5. QED BY <1>4, <2>1, <2>4 DEF PacketInv
<1>5. ASSUME NEW pkt, NEW value, NEW asked, NEW crossed, NEW torn,
             p = PortPacket(pkt, value, asked, crossed, torn),
             Reading(t, c, pool, pkt, value, asked, crossed, torn)
      PROVE  PacketInv(t, b2, d, w, p2)
  <2>1. CASE c[1].op = "dropPort" /\ c[1].key[1] = value.bitmap_idx
    <3>1. p2 = PortPacket(pkt, value, asked, crossed, TRUE)
        BY <1>5, <2>1 DEF TornAt, PortPacket
    <3> HIDE DEF p2, b2, d
    <3>2. Reading(t, d, w, pkt, value, asked, crossed, TRUE)
        BY <1>5 DEF Reading
    <3>3. QED BY <3>1, <3>2 DEF PacketInv
  <2>2. CASE c[1].op = "dropPort" => c[1].key[1] # value.bitmap_idx
    <3>1. p2 = p
        BY <1>5, <2>2 DEF TornAt, PortPacket
    <3> HIDE DEF p2, b2
    <3>2. Reading(t, d, w, pkt, value, asked, crossed, torn)
        BY <1>1, <1>5, <2>2, ReadingKept
    <3>3. QED BY <1>5, <3>1, <3>2 DEF PacketInv
  <2>3. QED BY <2>1, <2>2
<1>6. QED BY <1>3, <1>4, <1>5 DEF PacketInv

\* The two lists of rules a packet may be judged by, as long as it overlaps
\* one handler at most: the datapath goes by one of them.
LEMMA TwoLists ==
    ASSUME NEW t, GoodTable(t), NEW b, NEW c,
           NEW pkt, NEW level, NEW asked, NEW crossed, crossed # 2,
           Judging(t, b, c, pkt, level, asked, crossed)
    PROVE  \E old, k : /\ Quadruples(old)
                       /\ AgreeOff(old, t.rules, k)
                       /\ {Intended(old, pkt), Intended(t.rules, pkt)} \subseteq asked
                       /\ Active(t, b, c) \in {old, t.rules}
                       /\ MissedInOne(old, t.rules, pkt, level)
                       /\ crossed = 1 => (PolicyPending(c) => old = b.rules)
<1>1. CASE crossed = 0
  <2>1. /\ c = << >>
        /\ Intended(t.rules, pkt) \in asked
        /\ \A i \in 1 .. level - 1 : Key(pkt, i) \notin DOMAIN t.rules
      BY <1>1 DEF Judging
  <2>2. Active(t, b, c) = t.rules
      BY <2>1 DEF Active, PolicyPending
  <2>3. AgreeOff(t.rules, t.rules, 0) /\ Quadruples(t.rules)
        /\ MissedInOne(t.rules, t.rules, pkt, level)
      BY <2>1, KeysOfFour DEF AgreeOff, MissedInOne
  <2>4. QED BY <1>1, <2>1, <2>2, <2>3
<1>2. CASE crossed = 1
  <2>1. PICK old, k : /\ Quadruples(old)
                      /\ AgreeOff(old, t.rules, k)
                      /\ {Intended(old, pkt), Intended(t.rules, pkt)} \subseteq asked
                      /\ PolicyPending(c) => old = b.rules
                      /\ MissedInOne(old, t.rules, pkt, level)
      BY <1>2 DEF Judging
  <2>2. Active(t, b, c) \in {old, t.rules}
      BY <2>1 DEF Active
  <2>3. QED BY <2>1, <2>2
<1>3. QED BY <1>1, <1>2 DEF Judging

\* What becomes of a packet that has found a policy.
Found(t, c, pool, pkt, value, asked, crossed) ==
    /\ value.has_port_filter => Reading(t, c, pool, pkt, value, asked, crossed, FALSE)
    /\ ~value.has_port_filter /\ crossed # 2 => ActionVerdict(value.action) \in asked

\* A lookup that finds a policy.
LEMMA Hit ==
    ASSUME OnlyDeny, NEW t, NEW b, NEW c, NEW policies, NEW pool,
           HandlerInv(t, b, c, policies, pool),
           NEW pkt, NEW level, NEW asked, NEW crossed,
           Judging(t, b, c, pkt, level, asked, crossed),
           Key(pkt, level) \in DOMAIN policies
    PROVE  Found(t, c, pool, pkt, policies[Key(pkt, level)], asked, crossed)
<1> DEFINE key == Key(pkt, level)
           value == policies[key]
           rules == Active(t, b, c)
           table_ == IF PolicyPending(c) THEN b ELSE t
           rule == rules[key]
<1>1. /\ GoodTable(t) /\ GoodTable(b) /\ CallsInv(t, b, c) /\ PoolGood(t, c, pool)
      /\ Enforces(rules, policies, pool)
    BY DEF HandlerInv
<1>2. GoodTable(table_) /\ rules = table_.rules
    BY <1>1 DEF Active
<1>3. key \in DOMAIN rules /\ value = PolicyValue(rule) /\ Filters(pool, rule)
    BY <1>1 DEF Enforces, PoliciesOf
<1>4. level \in 1 .. 8 /\ crossed \in {0, 1, 2}
    BY DEF Judging
<1> HIDE DEF key, rules, table_
<1>5. ApplyPolicy(value, pool, pkt.port) = Says(rule, pkt.port)
  <2>1. \A x \in DOMAIN pool : pool[x] = 1
      BY <1>1 DEF PoolGood
  <2>2. key \in DOMAIN table_.rules /\ rule = table_.rules[key]
      BY <1>2, <1>3
  <2> HIDE DEF rule
  <2>3. ApplyPolicy(PolicyValue(table_.rules[key]), pool, pkt.port) = Says(table_.rules[key], pkt.port)
      BY <1>2, <1>3, <2>1, <2>2, AppliedIs
  <2>4. QED BY <1>3, <2>2, <2>3
<1>6. ASSUME crossed # 2
      PROVE  ApplyPolicy(value, pool, pkt.port) \in asked
  <2>1. PICK old, k : /\ Quadruples(old)
                      /\ AgreeOff(old, t.rules, k)
                      /\ {Intended(old, pkt), Intended(t.rules, pkt)} \subseteq asked
                      /\ rules \in {old, t.rules}
                      /\ MissedInOne(old, t.rules, pkt, level)
      BY <1>1, <1>6, TwoLists DEF rules
  <2>2. Quadruples(t.rules)
      BY <1>1, KeysOfFour
  <2>3. Says(rules[key], pkt.port) \in {Intended(old, pkt), Intended(t.rules, pkt)}
      BY <1>3, <1>4, <2>1, <2>2, HitOfOne DEF key
  <2>4. QED BY <1>5, <2>1, <2>3
<1>7. ASSUME ~value.has_port_filter, crossed # 2
      PROVE  ActionVerdict(value.action) \in asked
  <2>1. ApplyPolicy(value, pool, pkt.port) = ActionVerdict(value.action)
      BY <1>7 DEF ApplyPolicy
  <2> HIDE DEF value
  <2>2. QED BY <1>6, <1>7, <2>1
<1>8. ASSUME value.has_port_filter
      PROVE  Reading(t, c, pool, pkt, value, asked, crossed, FALSE)
  <2> HIDE DEF value, rule
  <2>1. rule.ports # AllPorts
      BY <1>3, <1>8 DEF PolicyValue
  <2>2. rule.bitmap_idx \in LiveIndices(table_)
      BY <1>2, <1>3, <2>1, RuleIdxLive DEF rule
  <2>3. rule.bitmap_idx \in Nat
    <3>1. \A n \in DOMAIN table_.port_sets : table_.port_sets[n].bitmap_idx \in Nat
        BY <1>2, RuleWithSet
    <3>2. QED BY <2>2, <3>1 DEF LiveIndices
  <2>4. value.bitmap_idx = rule.bitmap_idx
      BY <1>3, <2>3 DEF PolicyValue, NoIdx
  <2>5. \A x \in KeysOf(c, "setPort") : x[1] # value.bitmap_idx
    <3>1. CASE PolicyPending(c)
      <4>1. rule.bitmap_idx \in LiveIndices(b)
          BY <2>2, <3>1 DEF table_
      <4>2. \A x \in KeysOf(c, "setPort") : x[1] \notin LiveIndices(b)
          BY <1>1 DEF CallsInv, KeysOf, GoodCall
      <4>3. QED BY <2>4, <4>1, <4>2
    <3>2. CASE ~PolicyPending(c)
      <4>1. \A i \in DOMAIN c : c[i].op # "setPort"
          BY <1>1, <3>2 DEF CallsInv, Ordered, PolicyPending
      <4>2. KeysOf(c, "setPort") = {}
          BY <4>1 DEF KeysOf
      <4>3. QED BY <4>2
    <3>3. QED BY <3>1, <3>2
  <2>6. crossed = 0 => c = << >> /\ value.bitmap_idx \in LiveIndices(t)
    <3>1. crossed = 0 => c = << >>
        BY DEF Judging
    <3>2. c = << >> => ~PolicyPending(c)
        BY DEF PolicyPending
    <3>3. QED BY <2>2, <2>4, <3>1, <3>2 DEF table_
  <2>7. Reading(t, c, pool, pkt, value, asked, crossed, FALSE)
      BY <1>4, <1>6, <2>5, <2>6 DEF Reading
  <2>8. QED BY <1>8, <2>7
<1> HIDE DEF value
<1>9. Found(t, c, pool, pkt, value, asked, crossed)
    BY <1>7, <1>8 DEF Found
<1>10. QED BY <1>9 DEF value, key

\* A lookup that does not.
LEMMA Miss ==
    ASSUME NEW t, NEW b, NEW c, NEW policies, NEW pool, HandlerInv(t, b, c, policies, pool),
           NEW pkt, NEW level, NEW asked, NEW crossed,
           Judging(t, b, c, pkt, level, asked, crossed),
           Key(pkt, level) \notin DOMAIN policies
    PROVE  IF level = 8 THEN crossed # 2 => Pass \in asked
                        ELSE Judging(t, b, c, pkt, level + 1, asked, crossed)
<1> DEFINE rules == Active(t, b, c)
<1>1. GoodTable(t) /\ Enforces(rules, policies, pool)
    BY DEF HandlerInv
<1>2. Key(pkt, level) \notin DOMAIN rules
    BY <1>1 DEF Enforces, PoliciesOf
<1>3. level \in 1 .. 8 /\ crossed \in {0, 1, 2}
    BY DEF Judging
<1> HIDE DEF rules
<1>4. ASSUME NEW old, rules \in {old, t.rules}, MissedInOne(old, t.rules, pkt, level)
      PROVE  MissedInOne(old, t.rules, pkt, level + 1)
  <2>1. \A j \in 1 .. (level + 1) - 1 : j \in 1 .. level - 1 \/ j = level
      BY <1>3
  <2>2. QED BY <1>2, <1>4, <2>1 DEF MissedInOne
<1>5. CASE level = 8
  <2> SUFFICES ASSUME crossed # 2
               PROVE  Pass \in asked
      BY <1>5
  <2>1. PICK old, k : /\ Quadruples(old)
                      /\ AgreeOff(old, t.rules, k)
                      /\ {Intended(old, pkt), Intended(t.rules, pkt)} \subseteq asked
                      /\ rules \in {old, t.rules}
                      /\ MissedInOne(old, t.rules, pkt, level)
      BY <1>1, TwoLists DEF rules
  <2>2. Quadruples(t.rules)
      BY <1>1, KeysOfFour
  <2>3. MissedInOne(old, t.rules, pkt, 9)
      BY <1>4, <1>5, <2>1
  <2>4. Pass \in {Intended(old, pkt), Intended(t.rules, pkt)}
      BY <2>1, <2>2, <2>3, MissOfOne
  <2>5. QED BY <2>1, <2>4
<1>6. CASE level # 8
  <2>1. level + 1 \in 1 .. 8
      BY <1>3, <1>6
  <2>2. ASSUME crossed = 0
        PROVE  /\ c = << >> /\ Intended(t.rules, pkt) \in asked
               /\ \A i \in 1 .. (level + 1) - 1 : Key(pkt, i) \notin DOMAIN t.rules
    <3>1. /\ c = << >> /\ Intended(t.rules, pkt) \in asked
          /\ \A i \in 1 .. level - 1 : Key(pkt, i) \notin DOMAIN t.rules
        BY <2>2 DEF Judging
    <3>2. rules = t.rules
        BY <3>1 DEF rules, Active, PolicyPending
    <3>3. MissedInOne(t.rules, t.rules, pkt, level + 1)
        BY <1>4, <3>1, <3>2 DEF MissedInOne
    <3>4. QED BY <3>1, <3>3 DEF MissedInOne
  <2>3. ASSUME crossed = 1
        PROVE  \E old, k : /\ Quadruples(old)
                           /\ AgreeOff(old, t.rules, k)
                           /\ {Intended(old, pkt), Intended(t.rules, pkt)} \subseteq asked
                           /\ PolicyPending(c) => old = b.rules
                           /\ MissedInOne(old, t.rules, pkt, level + 1)
    <3>1. PICK old, k : /\ Quadruples(old)
                        /\ AgreeOff(old, t.rules, k)
                        /\ {Intended(old, pkt), Intended(t.rules, pkt)} \subseteq asked
                        /\ rules \in {old, t.rules}
                        /\ MissedInOne(old, t.rules, pkt, level)
                        /\ crossed = 1 => (PolicyPending(c) => old = b.rules)
        BY <1>1, <2>3, TwoLists DEF rules
    <3>2. MissedInOne(old, t.rules, pkt, level + 1)
        BY <1>4, <3>1
    <3>3. QED BY <2>3, <3>1, <3>2
  <2>4. Judging(t, b, c, pkt, level + 1, asked, crossed)
      BY <1>3, <2>1, <2>2, <2>3 DEF Judging
  <2>5. QED BY <1>6, <2>4
<1>7. QED BY <1>5, <1>6

(***************************************************************************)
(* The invariant of the specification.  Groups, QoS rules and switches are *)
(* what they are in ControlPlane.                                          *)
(***************************************************************************)
DpInv ==
    /\ GroupInv /\ QosInv /\ SwitchInv
    /\ faults \in 0 .. MaxFaults
    /\ HandlerInv(table, before, calls, POLICY_TABLE, PORT_BITMAP_POOL)
    /\ PacketInv(table, before, calls, PORT_BITMAP_POOL, packet)

\* Nothing is in the maps, and nothing is under way.
LEMMA DpInitInv == DpInit => DpInv
<1> SUFFICES ASSUME DpInit PROVE DpInv
    OBVIOUS
<1>1. IInv
    BY InitInv DEF DpInit
<1>2. /\ table = EmptyTable /\ before = table /\ calls = << >>
      /\ POLICY_TABLE = << >> /\ PORT_BITMAP_POOL = << >> /\ packet = IdlePacket
    BY DEF DpInit, Init
<1>3. table.rules = << >> /\ table.port_sets = << >> /\ DOMAIN << >> = {}
    BY <1>2 DEF EmptyTable
<1>4. GoodTable(table)
    BY <1>2, GoodEmpty
<1>5. \A op : KeysOf(<< >>, op) = {}
    BY <1>3 DEF KeysOf
<1>6. CallsInv(table, table, << >>)
  <2>1. << >> \in Seq(KernelCalls) /\ Ordered(<< >>)
      BY <1>3 DEF Ordered
  <2>2. AgreeOff(table.rules, table.rules, 0)
      BY DEF AgreeOff
  <2>3. QED BY <1>3, <2>1, <2>2 DEF CallsInv
<1>7. PoolGood(table, << >>, << >>)
  <2>1. SetEntries(table) = {}
      BY <1>3 DEF SetEntries, EntriesOf
  <2>2. << >> \in Pools
      BY EmptyMap DEF Pools
  <2>3. QED BY <1>3, <1>5, <2>1, <2>2 DEF PoolGood
<1>8. Enforces(Active(table, table, << >>), << >>, << >>)
  <2>1. Active(table, table, << >>) = << >>
      BY <1>3 DEF Active
  <2>2. QED BY <1>3, <2>1 DEF Enforces, PoliciesOf
<1>9. HandlerInv(table, before, calls, POLICY_TABLE, PORT_BITMAP_POOL)
    BY <1>2, <1>4, <1>6, <1>7, <1>8 DEF HandlerInv
<1>10. PacketInv(table, before, calls, PORT_BITMAP_POOL, packet)
    BY <1>2 DEF PacketInv
<1>11. QED BY <1>1, <1>9, <1>10 DEF DpInv, IInv

\* Of the maps when no handler is at work.
LEMMA NoCalls ==
    ASSUME OnlyDeny, NEW t, NEW b, NEW policies, NEW pool,
           HandlerInv(t, b, << >>, policies, pool)
    PROVE  /\ b = t
           /\ policies = PoliciesOf(t.rules)
           /\ \A k \in DOMAIN t.rules : Filters(pool, t.rules[k])
           /\ pool \in Pools /\ DOMAIN pool = SetEntries(t)
           /\ \A key \in DOMAIN pool : pool[key] = 1
           /\ SetsWritten(pool, t.port_sets)
<1>1. GoodTable(t) /\ b = t /\ PoolGood(t, << >>, pool) /\ Enforces(Active(t, b, << >>), policies, pool)
    BY DEF HandlerInv, CallsInv
<1>2. \A op : KeysOf(<< >>, op) = {}
    BY DEF KeysOf
<1>3. Enforces(t.rules, policies, pool)
    BY <1>1 DEF Active
<1>4. pool \in Pools /\ DOMAIN pool = SetEntries(t) /\ \A key \in DOMAIN pool : pool[key] = 1
    BY <1>1, <1>2 DEF PoolGood
<1>5. ASSUME NEW n \in DOMAIN t.port_sets
      PROVE  SetWritten(pool, t.port_sets[n].bitmap_idx, n)
  <2>1. PICK k \in DOMAIN t.rules : t.rules[k].ports # AllPorts /\ n = Normalize(t.rules[k].ports)
      BY <1>1, RuleWithSet
  <2>2. n \in RT!Text /\ ValidPorts(n) /\ \A i \in DOMAIN n : n[i][3] # 0
      BY <1>1, <2>1, SetOfRule
  <2>3. \A i \in DOMAIN n : n[i][3] = 1
    <3>1. \A i \in DOMAIN n : n[i] \in Nat \X Nat \X Nat
        BY <2>2 DEF RT!Text
    <3>2. \A i \in DOMAIN n : n[i][3] \in Nat
        BY <3>1
    <3>3. \A i \in DOMAIN n : n[i][3] <= 1 /\ n[i][3] # 0
        BY <2>2 DEF ValidPorts
    <3>4. \A m \in Nat : m <= 1 /\ m # 0 => m = 1
        OBVIOUS
    <3>5. QED BY <3>2, <3>3, <3>4
  <2>4. \A i \in DOMAIN n : \A port \in n[i][1] .. n[i][2] : port \in PortsOf(n)
      BY DEF PortsOf
  <2>5. \A port \in PortsOf(n) : << t.port_sets[n].bitmap_idx, port >> \in SetEntries(t)
      BY EntryOf DEF SetEntries
  <2> DEFINE idx == t.port_sets[n].bitmap_idx
  <2> HIDE DEF idx
  <2>6. \A port \in PortsOf(n) : << idx, port >> \in DOMAIN pool
      BY <1>4, <2>5 DEF idx
  <2>7. SetWritten(pool, idx, n)
      BY <1>4, <2>3, <2>4, <2>6 DEF SetWritten
  <2>8. QED BY <2>7 DEF idx
<1>6. QED BY <1>1, <1>3, <1>4, <1>5 DEF Enforces, SetsWritten

\* Between two handlers the state is one of ControlPlane.
LEMMA BetweenHandlers ==
    ASSUME OnlyDeny, DpInv, calls = << >>
    PROVE  IInv
<1>1. HandlerInv(table, before, << >>, POLICY_TABLE, PORT_BITMAP_POOL)
    BY DEF DpInv
<1>2. /\ POLICY_TABLE = PoliciesOf(table.rules) /\ PORT_BITMAP_POOL \in Pools
      /\ SetsWritten(PORT_BITMAP_POOL, table.port_sets)
    BY <1>1, NoCalls
<1>3. KernelHasTheRules
    BY <1>2 DEF KernelHasTheRules, PoliciesOf
<1>4. GoodTable(table)
    BY <1>1 DEF HandlerInv
<1>5. PolicyInv
    BY <1>3, <1>4 DEF PolicyInv, GoodTable
<1>6. PoolInv
    BY <1>2, LiveDef DEF PoolInv
<1>7. QED BY <1>5, <1>6 DEF DpInv, IInv

\* The parts about groups, QoS rules and switches when none of them changes.
LEMMA OthersKept ==
    ASSUME GroupInv, QosInv, SwitchInv, faults \in 0 .. MaxFaults,
           UNCHANGED << groupVars, qosVars, configVars, faults >>
    PROVE  GroupInv' /\ QosInv' /\ SwitchInv' /\ faults' \in 0 .. MaxFaults
<1>1. /\ UNCHANGED << directory, SRC_TRIE, DST_TRIE >>
      /\ UNCHANGED << QOS_CONFIG, qos_rules, FIREWALL_CONFIG >>
      /\ UNCHANGED << flags, misread, faults >>
    BY DEF groupVars, qosVars, configVars, switchVars
<1>2. GroupInv'
  <2>1. TriesNameOwners'
      BY <1>1 DEF GroupInv, TriesNameOwners
  <2>2. QED BY <1>1, <2>1 DEF GroupInv
<1>3. QosInv'
  <2>1. QosInForce'
      BY <1>1 DEF QosInv, QosInForce, QosFlagInSync
  <2>2. QED BY <1>1, <2>1 DEF QosInv
<1>4. SwitchInv'
  <2>1. SwitchesInForce'
      BY <1>1 DEF SwitchInv, SwitchesInForce
  <2>2. QED BY <1>1, <2>1 DEF SwitchInv
<1>5. QED BY <1>1, <1>2, <1>3, <1>4

\* A handler begins.
LEMMA BeginKeeps ==
    ASSUME OnlyDeny, DpInv, NEW u, NEW c, NEW k, Handle(u, c),
           HandlerInv(u, table, c, POLICY_TABLE, PORT_BITMAP_POOL),
           AgreeOff(table.rules, u.rules, k)
    PROVE  DpInv'
<1>1. /\ calls = << >> /\ table' = u /\ calls' = c /\ before' = before
      /\ POLICY_TABLE' = POLICY_TABLE /\ PORT_BITMAP_POOL' = PORT_BITMAP_POOL
      /\ packet' = CrossedTo(packet, u.rules)
    BY DEF Handle, Crossed, CrossedTo
<1>2. HandlerInv(table, before, << >>, POLICY_TABLE, PORT_BITMAP_POOL)
      /\ PacketInv(table, before, << >>, PORT_BITMAP_POOL, packet)
    BY <1>1 DEF DpInv
<1>3. before = table /\ GoodTable(table)
    BY <1>2 DEF HandlerInv, CallsInv
<1>4. GoodTable(u) /\ CallsInv(u, table, c)
    BY DEF HandlerInv
<1>5. PacketInv(u, table, c, PORT_BITMAP_POOL, CrossedTo(packet, u.rules))
    BY <1>2, <1>3, <1>4, PacketCrosses
<1>6. GroupInv' /\ QosInv' /\ SwitchInv' /\ faults' \in 0 .. MaxFaults
    BY OthersKept DEF DpInv, Handle
<1>7. QED BY <1>1, <1>3, <1>5, <1>6 DEF DpInv

\* add_policy begins.
LEMMA BeginAddKeeps ==
    ASSUME OnlyDeny, DpInv, NEW r \in PolicyRequests, NEW a \in {0, 1}, NEW p \in PortTexts,
           BeginAddPolicy(r, a, p)
    PROVE  DpInv'
<1> DEFINE k     == PolicyKey(r)
           added == ApplyAddRule(table, k, a, p)
           c     == AddCalls(k, p, added)
<1>1. /\ Resolvable(r)
      /\ AddRuleAccepts(table, MaxPortPolicies, p)
      /\ Handle(added, c)
    BY DEF BeginAddPolicy
<1>2. calls = << >>
    BY <1>1 DEF Handle
<1>3. MemoryTyped
    BY <1>2, BetweenHandlers, Typed
<1>4. k \in RuleKeys
    BY <1>1, <1>3, PolicyKeyType
<1>5. HandlerInv(table, before, << >>, POLICY_TABLE, PORT_BITMAP_POOL)
    BY <1>2 DEF DpInv
<1>6. HandlerInv(table, table, << >>, POLICY_TABLE, PORT_BITMAP_POOL)
    BY <1>5 DEF HandlerInv, CallsInv
<1> HIDE DEF k
<1>7. /\ HandlerInv(added, table, c, POLICY_TABLE, PORT_BITMAP_POOL) /\ c # << >>
      /\ AgreeOff(table.rules, added.rules, k)
    BY <1>1, <1>4, <1>6, AddBegins
<1> HIDE DEF added, c
<1>8. QED BY <1>1, <1>7, BeginKeeps

\* delete_policy begins.
LEMMA BeginDeleteKeeps ==
    ASSUME OnlyDeny, DpInv, NEW r \in PolicyRequests, BeginDeletePolicy(r)
    PROVE  DpInv'
<1> DEFINE k       == PolicyKey(r)
           removed == ApplyRemoveRule(table, k)
           c       == DeleteCalls(k, removed)
<1>1. k \in DOMAIN table.rules /\ Handle(removed, c)
    BY DEF BeginDeletePolicy
<1>2. calls = << >>
    BY <1>1 DEF Handle
<1>3. HandlerInv(table, before, << >>, POLICY_TABLE, PORT_BITMAP_POOL)
    BY <1>2 DEF DpInv
<1>4. HandlerInv(table, table, << >>, POLICY_TABLE, PORT_BITMAP_POOL)
    BY <1>3 DEF HandlerInv, CallsInv
<1> HIDE DEF k
<1>5. /\ HandlerInv(removed, table, c, POLICY_TABLE, PORT_BITMAP_POOL) /\ c # << >>
      /\ AgreeOff(table.rules, removed.rules, k)
    BY <1>1, <1>4, DeleteBegins
<1> HIDE DEF removed, c
<1>6. QED BY <1>1, <1>5, BeginKeeps

\* The next call is made.
LEMMA KernelCallKeeps ==
    ASSUME OnlyDeny, DpInv, KernelCall
    PROVE  DpInv'
<1> DEFINE call == Head(calls)
<1>1. /\ calls # << >> /\ calls' = Tail(calls) /\ table' = table
      /\ before' = IF Tail(calls) = << >> THEN table ELSE before
    BY DEF KernelCall
<1>2. HandlerInv(table, before, calls, POLICY_TABLE, PORT_BITMAP_POOL)
      /\ PacketInv(table, before, calls, PORT_BITMAP_POOL, packet)
    BY DEF DpInv
<1>3. CallsInv(table, before, calls) /\ calls \in Seq(KernelCalls)
    BY <1>2 DEF HandlerInv, CallsInv
<1>4. call = calls[1] /\ call \in KernelCalls
    BY <1>1, <1>3, OneCallLess
<1>5. /\ Effect(call, PORT_BITMAP_POOL, POLICY_TABLE, PORT_BITMAP_POOL', POLICY_TABLE')
      /\ packet' = IF call.op = "dropPort" THEN TornAt(packet, call.key) ELSE packet
  <2>1. CASE call.op = "setPort"
      BY <2>1 DEF KernelCall, Effect
  <2>2. CASE call.op = "setPolicy"
      BY <2>2 DEF KernelCall, Effect
  <2>3. CASE call.op = "dropPolicy"
      BY <2>3 DEF KernelCall, Effect
  <2>4. CASE call.op = "dropPort"
      BY <2>4 DEF KernelCall, Effect, Tear, TornAt
  <2>5. QED BY <1>4, <2>1, <2>2, <2>3, <2>4, CallTypes
<1> HIDE DEF call
<1>6. Effect(calls[1], PORT_BITMAP_POOL, POLICY_TABLE, PORT_BITMAP_POOL', POLICY_TABLE')
    BY <1>4, <1>5
<1>7. HandlerInv(table, IF Tail(calls) = << >> THEN table ELSE before, Tail(calls),
                 POLICY_TABLE', PORT_BITMAP_POOL')
    BY <1>1, <1>2, <1>6, CallMade
<1>8. PacketInv(table, IF Tail(calls) = << >> THEN table ELSE before, Tail(calls), PORT_BITMAP_POOL',
                IF calls[1].op = "dropPort" THEN TornAt(packet, calls[1].key) ELSE packet)
    BY <1>1, <1>2, <1>3, <1>6, PacketCall
<1>9. GroupInv' /\ QosInv' /\ SwitchInv' /\ faults' \in 0 .. MaxFaults
    BY OthersKept DEF DpInv, KernelCall
<1>10. HandlerInv(table', before', calls', POLICY_TABLE', PORT_BITMAP_POOL')
    BY <1>1, <1>7
<1>11. PacketInv(table', before', calls', PORT_BITMAP_POOL', packet')
    BY <1>1, <1>4, <1>5, <1>8
<1>12. QED BY <1>9, <1>10, <1>11 DEF DpInv

\* The handlers of groups leave the policies alone.
LEMMA GroupStepKeeps ==
    ASSUME OnlyDeny, DpInv, NEW r \in GroupRequests,
           BeginAddGroup(r[1], r[2]) \/ BeginDeleteGroup(r[1])
    PROVE  DpInv'
<1>1. /\ calls = << >> /\ UNCHANGED << calls, before, datapathVars >>
      /\ AddGroup(r[1], r[2]) \/ DeleteGroup(r[1])
    BY DEF BeginAddGroup, BeginDeleteGroup
<1>2. IInv'
    BY <1>1, BetweenHandlers, AddGroupInv, DeleteGroupInv
<1>3. UNCHANGED policyVars
    BY <1>1 DEF AddGroup, DeleteGroup
<1>4. /\ table' = table /\ before' = before /\ calls' = calls /\ packet' = packet
      /\ POLICY_TABLE' = POLICY_TABLE /\ PORT_BITMAP_POOL' = PORT_BITMAP_POOL
    BY <1>1, <1>3 DEF policyVars, datapathVars
<1>5. HandlerInv(table', before', calls', POLICY_TABLE', PORT_BITMAP_POOL')
      /\ PacketInv(table', before', calls', PORT_BITMAP_POOL', packet')
    BY <1>4 DEF DpInv
<1>6. QED BY <1>2, <1>5 DEF DpInv, IInv

\* A step of a packet, that changes no map.
LEMMA PacketStep ==
    ASSUME DpInv, UNCHANGED << vars, calls, before >>,
           PacketInv(table, before, calls, PORT_BITMAP_POOL, packet')
    PROVE  DpInv'
<1>1. /\ UNCHANGED << groupVars, qosVars, configVars, faults >>
      /\ UNCHANGED << table, POLICY_TABLE, PORT_BITMAP_POOL, calls, before >>
    BY DEF vars, policyVars
<1>2. GroupInv' /\ QosInv' /\ SwitchInv' /\ faults' \in 0 .. MaxFaults
    BY <1>1, OthersKept DEF DpInv
<1>3. HandlerInv(table', before', calls', POLICY_TABLE', PORT_BITMAP_POOL')
      /\ PacketInv(table', before', calls', PORT_BITMAP_POOL', packet')
    BY <1>1 DEF DpInv
<1>4. QED BY <1>2, <1>3 DEF DpInv

\* A frame arrives, between two handlers or during one.
LEMMA ReceiveKeeps ==
    ASSUME OnlyDeny, DpInv, NEW d \in Traffic, Receive(d)
    PROVE  DpInv'
<1> DEFINE info == Parse(Frame(d))
           pkt == PacketOf(d, info)
           asked == {Intended(t.rules, pkt) : t \in {before, table}}
           crossed == IF calls = << >> THEN 0 ELSE 1
<1>1. /\ UNCHANGED << vars, calls, before >>
      /\ packet' = packet \/ packet' = PolicyPacket(pkt, 1, asked, crossed)
    BY DEF Receive, PolicyPacket
<1>2. CASE packet' = packet
  <2>1. PacketInv(table, before, calls, PORT_BITMAP_POOL, packet')
      BY <1>2 DEF DpInv
  <2>2. QED BY <1>1, <2>1, PacketStep
<1>3. CASE packet' = PolicyPacket(pkt, 1, asked, crossed)
  <2>1. /\ HandlerInv(table, before, calls, POLICY_TABLE, PORT_BITMAP_POOL)
        /\ CallsInv(table, before, calls) /\ GoodTable(table) /\ GoodTable(before)
      BY DEF DpInv, HandlerInv
  <2> HIDE DEF pkt, info
  <2>2. {Intended(before.rules, pkt), Intended(table.rules, pkt)} \subseteq asked
      OBVIOUS
  <2>3. \A j \in 1 .. 1 - 1 : FALSE
      OBVIOUS
  <2>4. Judging(table, before, calls, pkt, 1, asked, crossed)
    <3>1. CASE calls = << >>
      <4>1. crossed = 0
          BY <3>1
      <4> HIDE DEF asked, crossed
      <4>2. QED BY <2>2, <2>3, <3>1, <4>1 DEF Judging
    <3>2. CASE calls # << >>
      <4>1. crossed = 1
          BY <3>2
      <4>2. PICK k : AgreeOff(before.rules, table.rules, k)
          BY <2>1 DEF CallsInv
      <4>3. Quadruples(before.rules) /\ MissedInOne(before.rules, table.rules, pkt, 1)
          BY <2>1, <2>3, KeysOfFour DEF MissedInOne
      <4> HIDE DEF asked, crossed
      <4>4. \E old, l : /\ Quadruples(old)
                        /\ AgreeOff(old, table.rules, l)
                        /\ {Intended(old, pkt), Intended(table.rules, pkt)} \subseteq asked
                        /\ PolicyPending(calls) => old = before.rules
                        /\ MissedInOne(old, table.rules, pkt, 1)
          BY <2>2, <4>2, <4>3
      <4>5. QED BY <4>1, <4>4 DEF Judging
    <3>3. QED BY <3>1, <3>2
  <2> HIDE DEF asked, crossed
  <2>5. PacketInv(table, before, calls, PORT_BITMAP_POOL, packet')
      BY <1>3, <2>4 DEF PacketInv
  <2>6. QED BY <1>1, <2>5, PacketStep
<1>4. QED BY <1>1, <1>2, <1>3

\* A lookup in POLICY_TABLE: the packet goes on with the invariant, or is
\* decided as one of the lists asks for.
LEMMA LookupPolicyKeeps ==
    ASSUME OnlyDeny, DpInv, LookupPolicy
    PROVE  /\ DpInv'
           /\ packet'.stage = "idle" /\ packet.crossed <= 1 => verdict' \in packet.asked
<1>1. /\ packet.stage = "policy" /\ UNCHANGED << vars, calls, before >>
      /\ HandlerInv(table, before, calls, POLICY_TABLE, PORT_BITMAP_POOL)
      /\ PacketInv(table, before, calls, PORT_BITMAP_POOL, packet)
    BY DEF LookupPolicy, DpInv
<1>2. PICK pkt, level, asked, crossed :
          /\ packet = PolicyPacket(pkt, level, asked, crossed)
          /\ Judging(table, before, calls, pkt, level, asked, crossed)
    BY <1>1 DEF PacketInv, IdlePacket, PortPacket
<1>3. /\ packet.pkt = pkt /\ packet.level = level /\ packet.asked = asked
      /\ packet.crossed = crossed
    BY <1>2 DEF PolicyPacket
<1>4. level \in 1 .. 8 /\ crossed \in {0, 1, 2}
    BY <1>2 DEF Judging
<1>5. crossed <= 1 => crossed # 2
    BY <1>4
<1> DEFINE key == Key(pkt, level)
           value == POLICY_TABLE[key]
<1>6. CASE key \in DOMAIN POLICY_TABLE /\ value.has_port_filter
  <2>1. packet' = PortPacket(pkt, value, asked, crossed, FALSE)
      BY <1>3, <1>6 DEF LookupPolicy, PortPacket
  <2>2. Reading(table, calls, PORT_BITMAP_POOL, pkt, value, asked, crossed, FALSE)
    <3>1. Found(table, calls, PORT_BITMAP_POOL, pkt, value, asked, crossed)
        BY <1>1, <1>2, <1>6, Hit
    <3> HIDE DEF value
    <3>2. QED BY <1>6, <3>1 DEF Found
  <2> HIDE DEF value
  <2>3. PacketInv(table, before, calls, PORT_BITMAP_POOL, packet')
      BY <2>1, <2>2 DEF PacketInv
  <2>4. packet'.stage # "idle"
      BY <2>1 DEF PortPacket
  <2>5. QED BY <1>1, <2>3, <2>4, PacketStep
<1>7. CASE key \in DOMAIN POLICY_TABLE /\ ~value.has_port_filter
  <2>1. packet' = IdlePacket /\ verdict' = ActionVerdict(value.action)
      BY <1>3, <1>7 DEF LookupPolicy, Decide
  <2>2. Found(table, calls, PORT_BITMAP_POOL, pkt, value, asked, crossed)
      BY <1>1, <1>2, <1>7, Hit
  <2> HIDE DEF value
  <2>3. PacketInv(table, before, calls, PORT_BITMAP_POOL, packet')
      BY <2>1 DEF PacketInv
  <2>4. crossed # 2 => ActionVerdict(value.action) \in asked
      BY <1>7, <2>2 DEF Found
  <2>5. QED BY <1>1, <1>3, <1>5, <2>1, <2>3, <2>4, PacketStep
<1>8. CASE key \notin DOMAIN POLICY_TABLE /\ level = 8
  <2>1. packet' = IdlePacket /\ verdict' = Pass
      BY <1>3, <1>8 DEF LookupPolicy, Decide
  <2>2. crossed # 2 => Pass \in asked
    <3>1. IF level = 8 THEN crossed # 2 => Pass \in asked
          ELSE Judging(table, before, calls, pkt, level + 1, asked, crossed)
        BY <1>1, <1>2, <1>8, Miss
    <3>2. QED BY <1>8, <3>1
  <2>3. PacketInv(table, before, calls, PORT_BITMAP_POOL, packet')
      BY <2>1 DEF PacketInv
  <2>4. QED BY <1>1, <1>3, <1>5, <2>1, <2>2, <2>3, PacketStep
<1>9. CASE key \notin DOMAIN POLICY_TABLE /\ level # 8
  <2>1. packet' = [packet EXCEPT !.level = level + 1]
      BY <1>3, <1>9 DEF LookupPolicy
  <2>2. packet' = PolicyPacket(pkt, level + 1, asked, crossed)
      BY <1>2, <2>1 DEF PolicyPacket
  <2>3. Judging(table, before, calls, pkt, level + 1, asked, crossed)
      BY <1>1, <1>2, <1>9, Miss
  <2>4. PacketInv(table, before, calls, PORT_BITMAP_POOL, packet')
      BY <2>2, <2>3 DEF PacketInv
  <2>5. packet'.stage # "idle"
      BY <2>2 DEF PolicyPacket
  <2>6. QED BY <1>1, <2>4, <2>5, PacketStep
<1>10. QED BY <1>6, <1>7, <1>8, <1>9

\* The lookup in PORT_BITMAP_POOL.
LEMMA LookupPortKeeps ==
    ASSUME DpInv, LookupPort
    PROVE  /\ DpInv'
           /\ packet.crossed <= 1 /\ ~packet.torn => verdict' \in packet.asked
<1>1. /\ packet.stage = "port" /\ UNCHANGED << vars, calls, before >>
      /\ packet' = IdlePacket
      /\ verdict' = ApplyPolicy(packet.value, PORT_BITMAP_POOL, packet.pkt.port)
      /\ PacketInv(table, before, calls, PORT_BITMAP_POOL, packet)
    BY DEF LookupPort, Decide, DpInv
<1>2. PICK pkt, value, asked, crossed, torn :
          /\ packet = PortPacket(pkt, value, asked, crossed, torn)
          /\ Reading(table, calls, PORT_BITMAP_POOL, pkt, value, asked, crossed, torn)
    BY <1>1 DEF PacketInv, IdlePacket, PolicyPacket
<1>3. /\ packet.pkt = pkt /\ packet.value = value /\ packet.asked = asked
      /\ packet.crossed = crossed /\ packet.torn = torn
    BY <1>2 DEF PortPacket
<1>4. crossed <= 1 => crossed # 2
    OBVIOUS
<1>5. crossed # 2 /\ ~torn => ApplyPolicy(value, PORT_BITMAP_POOL, pkt.port) \in asked
    BY <1>2 DEF Reading
<1>6. PacketInv(table, before, calls, PORT_BITMAP_POOL, packet')
    BY <1>1 DEF PacketInv
<1>7. DpInv'
    BY <1>1, <1>6, PacketStep
<1>8. QED BY <1>1, <1>3, <1>4, <1>5, <1>7

\* No handler decides a packet.
LEMMA CrossedStays ==
    ASSUME Crossed, DpInv, packet.stage # "idle"
    PROVE  packet'.stage # "idle"
<1>1. \E p, x, y : packet' = [p EXCEPT !.crossed = x, !.asked = y] /\ p = packet
    BY DEF Crossed
<1>2. PacketInv(table, before, calls, PORT_BITMAP_POOL, packet)
    BY DEF DpInv
<1>3. QED BY <1>1, <1>2 DEF PacketInv, PolicyPacket, PortPacket, IdlePacket

\* Nor does a kernel call.
LEMMA CallStays ==
    ASSUME KernelCall, DpInv, packet.stage # "idle"
    PROVE  packet'.stage # "idle"
<1>1. packet' = packet \/ (packet' = [packet EXCEPT !.torn = TRUE] /\ packet.stage = "port")
  <2>1. /\ calls # << >>
        /\ HandlerInv(table, before, calls, POLICY_TABLE, PORT_BITMAP_POOL)
      BY DEF DpInv, KernelCall
  <2>2. calls \in Seq(KernelCalls)
      BY <2>1 DEF HandlerInv, CallsInv
  <2>3. Head(calls) \in KernelCalls
      BY <2>1, <2>2, OneCallLess
  <2>4. Head(calls).op \in {"setPort", "setPolicy", "dropPolicy", "dropPort"}
      BY <2>3, CallTypes
  <2> DEFINE call == Head(calls)
  <2> HIDE DEF call
  <2>5. KernelCall => (call.op = "dropPort" => Tear(call.key))
                      /\ (call.op \in {"setPort", "setPolicy", "dropPolicy"} => packet' = packet)
      BY DEF KernelCall, call
  <2>6. QED BY <2>4, <2>5 DEF Tear, call
<1>2. PacketInv(table, before, calls, PORT_BITMAP_POOL, packet)
    BY DEF DpInv
<1>3. QED BY <1>1, <1>2 DEF PacketInv, PolicyPacket, PortPacket, IdlePacket

\* Only a lookup decides.
LEMMA DpStep ==
    ASSUME OnlyDeny, DpInv, [DpNext]_dpVars
    PROVE  /\ DpInv'
           /\ Decides /\ packet.crossed <= 1 =>
                  verdict' \in packet.asked \/ (packet.stage = "port" /\ packet.torn)
<1> DEFINE Same == packet.stage # "idle" => packet'.stage # "idle"
<1>1. ASSUME NEW r \in PolicyRequests, NEW a \in {0, 1}, NEW p \in PortTexts,
             BeginAddPolicy(r, a, p)
      PROVE  DpInv' /\ Same
  <2>1. Crossed
      BY <1>1 DEF BeginAddPolicy, Handle
  <2>2. QED BY <1>1, <2>1, BeginAddKeeps, CrossedStays
<1>2. ASSUME NEW r \in PolicyRequests, BeginDeletePolicy(r)
      PROVE  DpInv' /\ Same
  <2>1. Crossed
      BY <1>2 DEF BeginDeletePolicy, Handle
  <2>2. QED BY <1>2, <2>1, BeginDeleteKeeps, CrossedStays
<1>3. ASSUME KernelCall
      PROVE  DpInv' /\ Same
    BY <1>3, KernelCallKeeps, CallStays
<1>4. ASSUME NEW r \in GroupRequests, BeginAddGroup(r[1], r[2]) \/ BeginDeleteGroup(r[1])
      PROVE  DpInv' /\ Same
  <2>1. packet' = packet
      BY <1>4 DEF BeginAddGroup, BeginDeleteGroup, datapathVars
  <2>2. QED BY <1>4, <2>1, GroupStepKeeps
<1>5. ASSUME NEW d \in Traffic, Receive(d)
      PROVE  DpInv' /\ Same
  <2>1. packet.stage = "idle"
      BY <1>5 DEF Receive
  <2>2. QED BY <1>5, <2>1, ReceiveKeeps
<1>6. CASE LookupPolicy
    BY <1>6, LookupPolicyKeeps DEF Decides
<1>7. CASE LookupPort
  <2>1. packet.stage = "port"
      BY <1>7 DEF LookupPort
  <2>2. QED BY <1>7, <2>1, LookupPortKeeps
<1>8. CASE UNCHANGED dpVars
  <2>1. UNCHANGED << vars, calls, before >> /\ packet' = packet
      BY <1>8 DEF dpVars, datapathVars
  <2>2. DpInv'
      BY <2>1, PacketStep DEF DpInv
  <2>3. QED BY <2>1, <2>2 DEF Decides
<1>9. QED BY <1>1, <1>2, <1>3, <1>4, <1>5, <1>6, <1>7, <1>8 DEF DpNext, Evaluate, Decides

(***************************************************************************)
(* What evaluate_policy says when nothing is under way.                    *)
(***************************************************************************)
\* It goes by the first lookup that finds a policy.
LEMMA EvaluatedIs ==
    ASSUME NEW policies, NEW pool, NEW pkt
    PROVE  /\ \A i \in 1 .. 8 :
                  /\ Key(pkt, i) \in DOMAIN policies
                  /\ \A j \in 1 .. i - 1 : Key(pkt, j) \notin DOMAIN policies
                  => EvaluatePolicy(policies, pool, pkt)
                         = ApplyPolicy(policies[Key(pkt, i)], pool, pkt.port)
           /\ (\A i \in 1 .. 8 : Key(pkt, i) \notin DOMAIN policies) =>
                  EvaluatePolicy(policies, pool, pkt) = Pass
<1> DEFINE hits == {i \in 1 .. 8 : Key(pkt, i) \in DOMAIN policies}
<1>1. EvaluatePolicy(policies, pool, pkt) =
          IF hits = {} THEN Pass ELSE ApplyPolicy(policies[Key(pkt, Min(hits))], pool, pkt.port)
    BY Zenon DEF EvaluatePolicy, Key
<1>2. ASSUME NEW i \in hits, \A j \in hits : i <= j
      PROVE  Min(hits) = i
  <2>1. \A x \in hits : x \in Nat
      OBVIOUS
  <2> HIDE DEF hits
  <2>2. \A x \in hits : (\A y \in hits : x <= y) => x = i
      BY <1>2, <2>1
  <2>3. QED BY <1>2, <2>2 DEF Min
<1>3. ASSUME NEW i \in 1 .. 8, Key(pkt, i) \in DOMAIN policies,
             \A j \in 1 .. i - 1 : Key(pkt, j) \notin DOMAIN policies
      PROVE  EvaluatePolicy(policies, pool, pkt)
                 = ApplyPolicy(policies[Key(pkt, i)], pool, pkt.port)
  <2>1. i \in hits
      BY <1>3
  <2>2. \A j \in hits : i <= j
      BY <1>3
  <2> HIDE DEF hits
  <2>3. Min(hits) = i
      BY <1>2, <2>1, <2>2
  <2>4. QED BY <1>1, <2>1, <2>3
<1>4. ASSUME \A i \in 1 .. 8 : Key(pkt, i) \notin DOMAIN policies
      PROVE  EvaluatePolicy(policies, pool, pkt) = Pass
    BY <1>1, <1>4
<1>5. QED BY <1>3, <1>4

\* With the policies of the rules, and the ports of each in the pool, that is
\* what the list asks for.
LEMMA SettledPacket ==
    ASSUME OnlyDeny, NEW t, GoodTable(t), NEW pool, \A key \in DOMAIN pool : pool[key] = 1,
           \A k \in DOMAIN t.rules : Filters(pool, t.rules[k]), NEW pkt
    PROVE  EvaluatePolicy(PoliciesOf(t.rules), pool, pkt) = Intended(t.rules, pkt)
<1> DEFINE policies == PoliciesOf(t.rules)
<1>1. ASSUME NEW k \in DOMAIN t.rules
      PROVE  ApplyPolicy(PolicyValue(t.rules[k]), pool, pkt.port) = Says(t.rules[k], pkt.port)
    BY AppliedIs, SMT
<1>2. Quadruples(t.rules)
    BY KeysOfFour
<1>3. DOMAIN policies = DOMAIN t.rules
      /\ \A k \in DOMAIN t.rules : policies[k] = PolicyValue(t.rules[k])
    BY DEF PoliciesOf
<1> HIDE DEF policies
<1> DEFINE hits == {i \in 1 .. 8 : Key(pkt, i) \in DOMAIN t.rules}
<1>4. CASE hits = {}
  <2>1. \A i \in 1 .. 8 : Key(pkt, i) \notin DOMAIN t.rules
      BY <1>4
  <2>2. EvaluatePolicy(policies, pool, pkt) = Pass
      BY <1>3, <2>1, EvaluatedIs
  <2>3. Intended(t.rules, pkt) = Pass
      BY <1>2, <2>1, IntendedIs
  <2>4. QED BY <2>2, <2>3 DEF policies
<1>5. CASE hits # {}
  <2>1. hits \in SUBSET Nat /\ hits # {}
      BY <1>5
  <2> HIDE DEF hits
  <2>2. PICK i \in hits : \A j \in hits : i <= j
      BY <2>1, TableAssumptions, RT!LeastNat
  <2>3. i \in 1 .. 8 /\ Key(pkt, i) \in DOMAIN t.rules
      BY DEF hits
  <2>4. ASSUME NEW j \in 1 .. i - 1
        PROVE  Key(pkt, j) \notin DOMAIN t.rules
    <3>1. j \in 1 .. 8 /\ ~(i <= j)
        BY <2>3
    <3>2. QED BY <2>2, <3>1 DEF hits
  <2> DEFINE key == Key(pkt, i)
  <2>5. EvaluatePolicy(policies, pool, pkt) = ApplyPolicy(policies[key], pool, pkt.port)
      BY <1>3, <2>3, <2>4, EvaluatedIs
  <2>6. Intended(t.rules, pkt) = Says(t.rules[key], pkt.port)
      BY <1>2, <2>3, <2>4, IntendedIs
  <2>7. key \in DOMAIN t.rules
      BY <2>3
  <2> HIDE DEF key
  <2>8. ApplyPolicy(PolicyValue(t.rules[key]), pool, pkt.port) = Says(t.rules[key], pkt.port)
      BY <1>1, <2>7
  <2>9. QED BY <1>3, <2>5, <2>6, <2>7, <2>8 DEF policies
<1>6. QED BY <1>4, <1>5

(***************************************************************************)
(* The results.  OnlyDeny is a hypothesis on PortTexts: a text that passes *)
(* a port has a normal form delete_port_set does not parse, and leaves its *)
(* ports in the pool.                                                      *)
(***************************************************************************)
\* The invariant holds: what the maps have is the rules before or after the
\* handler at work, and every packet on its way is judged by one of them.
THEOREM DpInvariant ==
    ASSUME OnlyDeny
    PROVE  DpSpec => []DpInv
<1>1. DpInit => DpInv
    BY DpInitInv
<1>2. DpInv /\ [DpNext]_dpVars => DpInv'
    BY DpStep
<1>3. QED BY <1>1, <1>2, PTL DEF DpSpec

\* Once a handler has made its last call every packet gets the verdict of the
\* most specific listed rule (agent/src/control_plane.rs, ebpf/src/policy.rs).
THEOREM VerdictsSettle ==
    ASSUME OnlyDeny
    PROVE  DpSpec => []SettledVerdicts
<1>1. DpInv => SettledVerdicts
  <2> SUFFICES ASSUME DpInv, calls = << >>
               PROVE  VerdictsFollowRules
      BY DEF SettledVerdicts, Settled
  <2>1. HandlerInv(table, before, << >>, POLICY_TABLE, PORT_BITMAP_POOL)
      BY DEF DpInv
  <2>2. \A pkt : EvaluatePolicy(POLICY_TABLE, PORT_BITMAP_POOL, pkt) = Intended(table.rules, pkt)
    <3>1. /\ GoodTable(table) /\ POLICY_TABLE = PoliciesOf(table.rules)
          /\ \A key \in DOMAIN PORT_BITMAP_POOL : PORT_BITMAP_POOL[key] = 1
          /\ \A k \in DOMAIN table.rules : Filters(PORT_BITMAP_POOL, table.rules[k])
        BY <2>1, NoCalls DEF HandlerInv
    <3>2. QED BY <3>1, SettledPacket
  <2>3. QED BY <2>2 DEF VerdictsFollowRules
<1>2. QED BY <1>1, DpInvariant, PTL

\* And the pool has the ports of the live port sets and no others, whatever
\* sets were shared, released and given an index again.
THEOREM PortsSettle ==
    ASSUME OnlyDeny
    PROVE  DpSpec => []SettledPorts
<1>1. DpInv => SettledPorts
  <2> SUFFICES ASSUME DpInv, calls = << >>, NEW key \in DOMAIN PORT_BITMAP_POOL
               PROVE  \E n \in DOMAIN table.port_sets :
                          /\ table.port_sets[n].bitmap_idx = key[1]
                          /\ key[2] \in PortsOf(n)
      BY DEF SettledPorts, Settled, NoStalePortEntries
  <2>1. HandlerInv(table, before, << >>, POLICY_TABLE, PORT_BITMAP_POOL)
      BY DEF DpInv
  <2>2. key \in EntriesOf(table, DOMAIN table.port_sets)
      BY <2>1, NoCalls DEF SetEntries
  <2>3. PICK n \in DOMAIN table.port_sets :
            \E port \in PortsOf(n) : key = << table.port_sets[n].bitmap_idx, port >>
      BY <2>2, EntryOf
  <2>4. QED BY <2>3
<1>2. QED BY <1>1, DpInvariant, PTL

\* A packet that overlaps one handler gets the verdict of the rules before or
\* after it, unless the port set it has read of is deleted under it: not that
\* of half a fallback, nor of ports that are not all written.
THEOREM VerdictIsOldOrNew ==
    ASSUME OnlyDeny
    PROVE  DpSpec => OldOrNew
<1>1. DpInv /\ [DpNext]_dpVars =>
          [Decides /\ packet.crossed <= 1 =>
               verdict' \in packet.asked \/ (packet.stage = "port" /\ packet.torn)]_dpVars
    BY DpStep
<1>2. QED BY <1>1, DpInvariant, PTL DEF DpSpec, OldOrNew

(***************************************************************************)
(* What Parse finds in the frames of Datagrams.                            *)
(***************************************************************************)
\* A length in words is a length in octets divided by four.
LEMMA Quarter == ASSUME NEW e \in Nat PROVE (4 * e) \div 4 = e
OBVIOUS

\* A word behind others is the last.
LEMMA Pushed ==
    ASSUME NEW S, NEW a \in Seq(S), NEW x
    PROVE  /\ Len(a \o << x >>) = Len(a) + 1 /\ (a \o << x >>)[Len(a) + 1] = x
           /\ \A i \in 1 .. Len(a) : (a \o << x >>)[i] = a[i]
<1>1. a \in Seq(S \cup {x}) /\ << x >> \in Seq(S \cup {x}) /\ Len(<< x >>) = 1 /\ << x >>[1] = x
    OBVIOUS
<1>2. QED BY <1>1

\* The port of a transport header of which the frame has all but cut octets.
ReadPort(proto, port, cut) == IF proto \notin {TCP, UDP} \/ cut > 0 THEN 0 ELSE port

\* The words of an IPv4 frame: those of the options, and the ports.
LEMMA Ipv4Words ==
    ASSUME NEW d, IsPiece(d), d.ether = "ipv4"
    PROVE  /\ Len(d.headers) \in Nat
           /\ Len(Words(d)) = Len(d.headers) + 1
           /\ Words(d)[Len(d.headers) + 1] = << 0, 1, d.port >>
<1> DEFINE s == [i \in DOMAIN d.headers |-> Filler]
           n == Len(d.headers)
           last == << 0, 1, d.port >>
<1>1. n \in Nat /\ DOMAIN d.headers = 1 .. n
    BY DEF IsPiece
<1>2. s \in Seq({Filler}) /\ Len(s) = n
  <2> HIDE DEF n
  <2>1. s \in [1 .. n -> {Filler}]
      BY <1>1
  <2>2. QED BY <1>1, <2>1
<1>3. Words(d) = s \o << last >>
    BY DEF Words
<1> HIDE DEF s, n, last
<1>4. Len(s \o << last >>) = Len(s) + 1 /\ (s \o << last >>)[Len(s) + 1] = last
    BY <1>2, Pushed
<1>5. QED BY <1>1, <1>2, <1>3, <1>4 DEF n, last

\* parse_ipv4 finds the protocol behind any options, and the ports unless
\* the frame is cut in them.
LEMMA Ipv4Read ==
    ASSUME NEW d, IsPiece(d), d.ether = "ipv4"
    PROVE  Parse(Frame(d)) = Described(d)
<1> DEFINE f == Frame(d)
           n == Len(d.headers)
<1>1. /\ d.proto \in Nat /\ d.cut \in Nat /\ d.offset = 0
      /\ n \in Nat /\ Len(Words(d)) = n + 1 /\ Words(d)[n + 1] = << 0, 1, d.port >>
    BY Ipv4Words DEF IsPiece
<1>2. /\ f.ether = "ipv4" /\ f.ihl = 5 + n /\ f.next = d.proto /\ f.words = Words(d)
      /\ f.size = 20 + 4 * (n + 1) - d.cut
    BY <1>1 DEF Frame
<1> HIDE DEF f, n
<1>3. 4 * f.ihl = 20 + 4 * n
    BY <1>1, <1>2
<1> DEFINE size == f.size
           cut == d.cut
<1>4. cut \in Nat /\ size = 20 + 4 * (n + 1) - cut
    BY <1>1, <1>2
<1> HIDE DEF size, cut
<1>5. /\ cut > 4 => 20 + 4 * n > size
      /\ ~(cut > 4) => ~(20 + 4 * n > size) /\ ~(size < 20)
      /\ ~(20 + 4 * n < 20) /\ 20 + 4 * n - 20 = 4 * n
      /\ 20 + 4 * n + 4 <= size <=> ~(cut > 0)
    BY <1>1, <1>4
<1>6. CASE d.cut > 4
  <2>1. ParseIpv4(f) = Unparsed
      BY <1>3, <1>5, <1>6 DEF ParseIpv4, size, cut
  <2>2. ParseIpv6(f) = Unparsed
      BY <1>2 DEF ParseIpv6
  <2>3. QED BY <1>6, <2>1, <2>2 DEF Parse, Described, f
<1>7. CASE ~(d.cut > 4)
  <2>1. ParseIpv4(f) = [proto |-> d.proto, port |-> PortAt(f, 20, d.proto, 4 * n)]
    <3>1. 4 * f.ihl - 20 = 4 * n
      <4>1. \A x : x = 20 + 4 * n => x - 20 = 4 * n
          BY <1>1
      <4>2. QED BY <1>3, <4>1
    <3>2. ~(f.ether # "ipv4" \/ f.size < 20 \/ 4 * f.ihl < 20 \/ 4 * f.ihl > f.size)
        BY <1>2, <1>3, <1>5, <1>7, Zenon DEF size, cut
    <3>3. QED BY <1>2, <3>1, <3>2, Zenon DEF ParseIpv4
  <2>2. PortAt(f, 20, d.proto, 4 * n) = ReadPort(d.proto, d.port, d.cut)
    <3>1. WordAt(f, 4 * n)[3] = d.port
      <4>1. (4 * n) \div 4 = n
          BY <1>1, Quarter
      <4>2. WordAt(f, 4 * n) = << 0, 1, d.port >>
          BY <1>1, <1>2, <4>1 DEF WordAt
      <4>3. QED BY <4>2
    <3>2. 20 + 4 * n + 4 <= f.size <=> ~(d.cut > 0)
        BY <1>5, Zenon DEF size, cut
    <3>3. QED BY <3>1, <3>2, Zenon DEF PortAt, ReadPort
  <2>3. ParseIpv4(f) = Described(d)
      BY <1>1, <1>7, <2>1, <2>2 DEF Described, ReadPort
  <2>4. ParseIpv4(f) # Unparsed
      BY <1>1, <2>1 DEF Unparsed
  <2>5. QED BY <2>3, <2>4 DEF Parse, f
<1>8. QED BY <1>6, <1>7

\* Two sequences, one after the other.
LEMMA Joined ==
    ASSUME NEW S, NEW a \in Seq(S), NEW b \in Seq(S)
    PROVE  /\ a \o b \in Seq(S) /\ Len(a \o b) = Len(a) + Len(b)
           /\ \A i \in 1 .. Len(a) : (a \o b)[i] = a[i]
           /\ \A i \in 1 .. Len(b) : (a \o b)[Len(a) + i] = b[i]
OBVIOUS

\* The words of one extension header, and the first of them.
Triples == Nat \X Nat \X Nat

HeaderWord(d, i) ==
    << Chain(d)[i + 1], d.headers[i][2], IF d.headers[i][1] = Fragment THEN 8 * d.offset + 1 ELSE 9 >>

HeaderWords(d, i) == << HeaderWord(d, i) >> \o [j \in 1 .. 2 * d.headers[i][2] + 1 |-> Filler]

Ipv6Piece(d) == IsPiece(d) /\ d.ether = "ipv6"

\* The fields of a piece, and its types in their order.
LEMMA PieceFields ==
    ASSUME NEW d, Ipv6Piece(d)
    PROVE  LET n == Len(d.headers)
           IN  /\ n \in 0 .. 4 /\ DOMAIN d.headers = 1 .. n
               /\ d.proto \in Nat \ ExtensionHeaders /\ d.cut \in Nat /\ d.offset \in Nat /\ d.port \in Nat
               /\ \A i \in 1 .. n : /\ d.headers[i][1] \in ExtensionHeaders /\ d.headers[i][2] \in Nat
                                    /\ d.headers[i][1] = Fragment => d.headers[i][2] = 0
                                    /\ Chain(d)[i] = d.headers[i][1]
               /\ Chain(d)[n + 1] = d.proto
               /\ d.offset # 0 => \E i \in 1 .. n : d.headers[i][1] = Fragment
<1> DEFINE n == Len(d.headers)
           types == [i \in DOMAIN d.headers |-> d.headers[i][1]]
<1>1. d.headers \in Seq(ExtensionHeaders \X Nat) /\ n <= 4
    BY DEF IsPiece, Ipv6Piece
<1>2. n \in 0 .. 4 /\ DOMAIN d.headers = 1 .. n
  <2>1. \A S : d.headers \in Seq(S) => Len(d.headers) \in Nat /\ DOMAIN d.headers = 1 .. Len(d.headers)
      OBVIOUS
  <2>2. n \in Nat /\ DOMAIN d.headers = 1 .. n
      BY <1>1, <2>1, Zenon
  <2> HIDE DEF n
  <2>3. QED BY <1>1, <2>2
<1>3. \A i \in 1 .. n : d.headers[i][1] \in ExtensionHeaders /\ d.headers[i][2] \in Nat
  <2> HIDE DEF n
  <2>1. \A i \in 1 .. n : d.headers[i] \in ExtensionHeaders \X Nat
      BY <1>1 DEF n
  <2>2. QED BY <2>1
<1> HIDE DEF n
<1>4. types \in Seq(ExtensionHeaders) /\ Len(types) = n
  <2>1. types \in [1 .. n -> ExtensionHeaders]
      BY <1>2, <1>3
  <2>2. QED BY <1>2, <2>1
<1>5. Chain(d) = Append(types, d.proto)
    BY DEF Chain
<1>6. \A i \in 1 .. n : types[i] = d.headers[i][1]
    BY <1>2
<1>7. d.proto \in Nat \ ExtensionHeaders /\ d.cut \in Nat /\ d.offset \in Nat /\ d.port \in Nat
    BY DEF IsPiece, Ipv6Piece
<1>8. (\A i \in 1 .. n : Chain(d)[i] = types[i]) /\ Chain(d)[n + 1] = d.proto
  <2> HIDE DEF types
  <2>1. types \in Seq(Nat) /\ d.proto \in Nat
      BY <1>4, <1>7 DEF ExtensionHeaders, HopOpts, Routing, Fragment, DstOpts
  <2>2. QED BY <1>2, <1>4, <1>5, <2>1
<1>9. /\ \A i \in 1 .. n : d.headers[i][1] = Fragment => d.headers[i][2] = 0
      /\ d.offset # 0 => \E i \in 1 .. n : d.headers[i][1] = Fragment
  <2>1. d.offset # 0 => d.headers # << >> /\ d.headers[n][1] = Fragment
      BY DEF IsPiece, Ipv6Piece, Last, n
  <2>2. d.headers # << >> => n \in 1 .. n
      BY <1>1, <1>2 DEF n
  <2>3. QED BY <1>2, <2>1, <2>2 DEF IsPiece, Ipv6Piece
<1>10. QED BY <1>2, <1>3, <1>6, <1>7, <1>8, <1>9 DEF n

\* An extension header takes its first word and those its length says.
LEMMA HeaderIs ==
    ASSUME NEW d, Ipv6Piece(d), NEW i \in 1 .. Len(d.headers)
    PROVE  /\ HeaderWords(d, i) \in Seq(Triples)
           /\ Len(HeaderWords(d, i)) = 2 * d.headers[i][2] + 2
           /\ HeaderWords(d, i)[1] = HeaderWord(d, i)
<1> DEFINE w == HeaderWord(d, i)
           l == d.headers[i][2]
           rest == [j \in 1 .. 2 * l + 1 |-> Filler]
<1>1. l \in Nat /\ d.offset \in Nat
    BY PieceFields
<1>2. Chain(d)[i + 1] \in Nat
  <2>1. i + 1 \in 1 .. Len(d.headers) \/ i = Len(d.headers)
      BY PieceFields
  <2>2. QED BY <2>1, PieceFields DEF ExtensionHeaders, HopOpts, Routing, Fragment, DstOpts
<1>3. w \in Triples
  <2> DEFINE x == IF d.headers[i][1] = Fragment THEN 8 * d.offset + 1 ELSE 9
  <2>1. x \in Nat
      BY <1>1
  <2>2. w = << Chain(d)[i + 1], l, x >>
      BY DEF HeaderWord
  <2> HIDE DEF x, w, l
  <2>3. QED BY <1>1, <1>2, <2>1, <2>2 DEF Triples
<1>4. Filler \in Triples
    BY DEF Filler, Triples, HopOpts
<1>5. rest \in Seq(Triples) /\ Len(rest) = 2 * l + 1
  <2> HIDE DEF l
  <2>1. rest \in [1 .. 2 * l + 1 -> Triples] /\ 2 * l + 1 \in Nat
      BY <1>1, <1>4
  <2>2. QED BY <2>1
<1>6. HeaderWords(d, i) = << w >> \o rest
    BY DEF HeaderWords
<1> HIDE DEF w, rest, l
<1>7. << w >> \in Seq(Triples) /\ Len(<< w >>) = 1 /\ << w >>[1] = w
    BY <1>3
<1>8. /\ << w >> \o rest \in Seq(Triples) /\ Len(<< w >> \o rest) = Len(<< w >>) + Len(rest)
      /\ \A j \in 1 .. Len(<< w >>) : (<< w >> \o rest)[j] = << w >>[j]
    BY <1>5, <1>7, Joined
<1>9. 1 + (2 * l + 1) = 2 * l + 2
    BY <1>1
<1>10. QED BY <1>5, <1>6, <1>7, <1>8, <1>9 DEF w, l

\* FlattenSeq puts one sequence after the other.
LEMMA Flattened ==
    ASSUME NEW S, NEW n \in Nat \ {0}, NEW q \in Seq(Seq(S)), Len(q) = n,
           NEW g \in [0 .. n -> Seq(S)], g[0] = << >>, \A i \in 1 .. n : g[i] = g[i - 1] \o q[i]
    PROVE  FlattenSeq(q) = g[n]
<1> DEFINE Run(f) == f = [i \in 1 .. n |-> IF i = 1 THEN q[i] ELSE f[i - 1] \o q[i]]
           r == [i \in 1 .. n |-> g[i]]
<1>1. g[1] = q[1]
  <2>1. g[1] = << >> \o q[1]
    <3>1. 1 \in 1 .. n /\ 1 - 1 = 0
        OBVIOUS
    <3>2. g[1] = g[1 - 1] \o q[1]
        BY <3>1
    <3>3. QED BY <3>1, <3>2
  <2>2. q[1] \in Seq(S)
      OBVIOUS
  <2>3. QED BY <2>1, <2>2
<1>2. Run(r)
  <2>1. ASSUME NEW i \in 1 .. n, i # 1
        PROVE  g[i] = r[i - 1] \o q[i]
    <3>1. i - 1 \in 1 .. n
        BY <2>1
    <3>2. QED BY <3>1
  <2>2. QED BY <1>1, <2>1
<1>3. PICK f : Run(f) /\ FlattenSeq(q) = f[n]
  <2>1. \E f : Run(f)
    <3> HIDE DEF Run
    <3>1. QED BY <1>2
  <2>2. Len(q) # 0
      OBVIOUS
  <2>3. QED BY <2>1, <2>2 DEF FlattenSeq
<1>4. f[1] = q[1] /\ \A i \in 1 .. n : i # 1 => f[i] = f[i - 1] \o q[i]
  <2>1. \A i \in 1 .. n : f[i] = IF i = 1 THEN q[i] ELSE f[i - 1] \o q[i]
      BY <1>3
  <2>2. 1 \in 1 .. n
      OBVIOUS
  <2>3. QED BY <2>1, <2>2
<1> DEFINE T == {i \in 0 .. n : i = 0 \/ f[i] = g[i]}
<1>5. 0 \in T
    OBVIOUS
<1>6. ASSUME NEW i \in 1 .. n, i - 1 \in T
      PROVE  i \in T
  <2>1. CASE i = 1
      BY <1>1, <1>4, <2>1
  <2>2. CASE i # 1
    <3>1. i - 1 # 0 /\ i \in 0 .. n
        BY <2>2
    <3>2. f[i - 1] = g[i - 1]
        BY <1>6, <3>1
    <3>3. f[i] = f[i - 1] \o q[i] /\ g[i] = g[i - 1] \o q[i]
        BY <1>4, <2>2
    <3>4. QED BY <3>1, <3>2, <3>3
  <2>3. QED BY <2>1, <2>2
<1> HIDE DEF T, Run
<1>7. \A i \in 0 .. n : i \in T
    BY <1>5, <1>6, RT!Induction, TableAssumptions
<1>8. n \in T
    BY <1>7
<1>9. QED BY <1>3, <1>8 DEF T

\* How many words the headers up to each one have: the next begins behind
\* them, and the ports behind all.
LaidOut(d, e) ==
    LET n == Len(d.headers)
    IN  /\ e \in [0 .. n -> Nat] /\ e[0] = 0
        /\ \A i \in 1 .. n : /\ e[i] = e[i - 1] + 2 * d.headers[i][2] + 2
                             /\ Words(d)[e[i - 1] + 1] = HeaderWord(d, i)
        /\ Len(Words(d)) = e[n] + 1
        /\ Words(d)[e[n] + 1] = << 0, 1, d.port >>

\* There are such numbers.
LEMMA HeadersLaidOut ==
    ASSUME NEW d, Ipv6Piece(d)
    PROVE  \E e : LaidOut(d, e)
<1> DEFINE n == Len(d.headers)
           q == [i \in DOMAIN d.headers |-> HeaderWords(d, i)]
           S == Seq(Triples)
           G == [i \in 1 .. n |-> [s \in S |-> s \o q[i]]]
           none == << >>
           last == << 0, 1, d.port >>
<1>1. n \in Nat /\ DOMAIN d.headers = 1 .. n
    BY PieceFields
<1>2. \A i \in 1 .. n : /\ d.headers[i][2] \in Nat
                        /\ q[i] \in S /\ Len(q[i]) = 2 * d.headers[i][2] + 2
                        /\ q[i][1] = HeaderWord(d, i)
    BY <1>1, HeaderIs, PieceFields
<1>3. q \in Seq(S) /\ Len(q) = n
  <2>1. q \in [1 .. n -> S]
      BY <1>1, <1>2
  <2> HIDE DEF n, q, S
  <2>2. QED BY <1>1, <2>1
<1>4. Words(d) = (IF n = 0 THEN << >> ELSE FlattenSeq(q)) \o << last >>
  <2>1. d.ether # "ipv4"
      BY DEF Ipv6Piece
  <2>2. Words(d) = FlattenSeq(q) \o << last >>
      BY <2>1 DEF Words, HeaderWords, HeaderWord
  <2>3. ASSUME n = 0 PROVE FlattenSeq(q) = << >>
    <3>1. q = << >>
        BY <1>3, <2>3
    <3>2. FlattenSeq(q) = q
        BY <1>3, <2>3 DEF FlattenSeq
    <3>3. QED BY <3>1, <3>2
  <2>4. QED BY <2>2, <2>3
<1> HIDE DEF n, q
<1>5. PICK g \in [0 .. n -> S] : g[0] = none /\ \A i \in 1 .. n : g[i] = g[i - 1] \o q[i]
  <2>1. G \in [1 .. n -> [S -> S]] /\ none \in S
      BY <1>1, <1>2
  <2>2. PICK g : RT!Iterates(g, n, S, none, G)
    <3> HIDE DEF S, G, none
    <3>1. QED BY <1>1, <2>1, RT!Recursion, TableAssumptions
  <2>3. g \in [0 .. n -> S] /\ g[0] = none /\ \A i \in 1 .. n : g[i] = G[i][g[i - 1]]
    <3> HIDE DEF S, G, none
    <3>1. QED BY <2>2 DEF RT!Iterates
  <2>4. ASSUME NEW i \in 1 .. n
        PROVE  g[i] = g[i - 1] \o q[i]
    <3>1. i - 1 \in 0 .. n
        BY <1>1
    <3> HIDE DEF S
    <3>2. g[i - 1] \in S /\ g[i] = G[i][g[i - 1]]
        BY <2>3, <3>1
    <3>3. QED BY <3>2
  <2> HIDE DEF S, G, none
  <2>5. QED BY <2>3, <2>4
<1>6. Words(d) = g[n] \o << last >>
  <2>1. CASE n = 0
      BY <1>4, <1>5, <2>1
  <2>2. CASE n # 0
    <3>1. n \in Nat \ {0} /\ g \in [0 .. n -> Seq(Triples)] /\ q \in Seq(Seq(Triples)) /\ g[0] = << >>
        BY <1>1, <1>3, <1>5, <2>2
    <3>2. FlattenSeq(q) = g[n]
        BY <1>3, <1>5, <3>1, Flattened
    <3>3. QED BY <1>4, <2>2, <3>2
  <2>3. QED BY <2>1, <2>2
<1> DEFINE e == [i \in 0 .. n |-> Len(g[i])]
<1>7. e \in [0 .. n -> Nat] /\ e[0] = 0 /\ e[n] = Len(g[n])
    BY <1>1, <1>5
<1>8. \A i \in 1 .. n : /\ i - 1 \in 0 .. n
                        /\ g[i - 1] \in Seq(Triples) /\ q[i] \in Seq(Triples)
                        /\ g[i] = g[i - 1] \o q[i]
                        /\ e[i] = Len(g[i]) /\ e[i - 1] = Len(g[i - 1])
  <2>1. ASSUME NEW i \in 1 .. n
        PROVE  i \in 0 .. n /\ i - 1 \in 0 .. n
      BY <1>1
  <2>2. ASSUME NEW i \in 0 .. n
        PROVE  g[i] \in S /\ e[i] = Len(g[i])
    <3> HIDE DEF S
    <3>1. QED BY <1>5
  <2> HIDE DEF e
  <2>3. QED BY <1>2, <1>5, <2>1, <2>2
<1> HIDE DEF e, S
<1>9. ASSUME NEW i \in 1 .. n
      PROVE  /\ e[i] = e[i - 1] + 2 * d.headers[i][2] + 2
             /\ e[i - 1] + 1 \in 1 .. e[i]
             /\ g[i][e[i - 1] + 1] = HeaderWord(d, i)
             /\ \A j \in 1 .. e[i - 1] : g[i][j] = g[i - 1][j]
             /\ e[i - 1] <= e[i]
  <2>1. /\ Len(g[i - 1] \o q[i]) = Len(g[i - 1]) + Len(q[i])
        /\ \A j \in 1 .. Len(g[i - 1]) : (g[i - 1] \o q[i])[j] = g[i - 1][j]
        /\ \A j \in 1 .. Len(q[i]) : (g[i - 1] \o q[i])[Len(g[i - 1]) + j] = q[i][j]
    <3>1. g[i - 1] \in Seq(Triples) /\ q[i] \in Seq(Triples)
        BY <1>8
    <3> DEFINE front == g[i - 1]
               back == q[i]
    <3>2. front \in Seq(Triples) /\ back \in Seq(Triples)
        BY <3>1
    <3> HIDE DEF front, back
    <3>3. /\ Len(front \o back) = Len(front) + Len(back)
          /\ \A j \in 1 .. Len(front) : (front \o back)[j] = front[j]
          /\ \A j \in 1 .. Len(back) : (front \o back)[Len(front) + j] = back[j]
        BY <3>2, Joined
    <3>4. QED BY <3>3, Zenon DEF front, back
  <2> DEFINE l == d.headers[i][2]
             a == e[i - 1]
  <2>2. l \in Nat /\ Len(q[i]) = 2 * l + 2 /\ a \in Nat
      BY <1>2, <1>7, <1>8
  <2>3. e[i] = a + Len(q[i]) /\ g[i] = g[i - 1] \o q[i] /\ a = Len(g[i - 1])
      BY <1>8, <2>1
  <2> HIDE DEF l, a
  <2>4. 1 \in 1 .. Len(q[i]) /\ a + (2 * l + 2) = a + 2 * l + 2
      BY <2>2
  <2>5. g[i][a + 1] = q[i][1]
      BY <2>1, <2>3, <2>4
  <2>6. \A j \in 1 .. a : g[i][j] = g[i - 1][j]
      BY <2>1, <2>3
  <2>7. e[i] = a + 2 * l + 2
      BY <2>2, <2>3, <2>4
  <2>8. a + 1 \in 1 .. a + 2 * l + 2 /\ a <= a + 2 * l + 2
      BY <2>2
  <2>9. QED BY <1>2, <2>5, <2>6, <2>7, <2>8 DEF l, a
<1> DEFINE T == {k \in 0 .. n : \A i \in 1 .. k : /\ e[i - 1] + 1 \in 1 .. e[k]
                                                  /\ g[k][e[i - 1] + 1] = HeaderWord(d, i)}
<1>10. 0 \in T
    BY <1>1
<1>11. ASSUME NEW k \in 1 .. n, k - 1 \in T
       PROVE  k \in T
  <2>1. ASSUME NEW i \in 1 .. k
        PROVE  /\ e[i - 1] + 1 \in 1 .. e[k]
               /\ g[k][e[i - 1] + 1] = HeaderWord(d, i)
    <3>1. CASE i = k
        BY <1>9, <3>1
    <3>2. CASE i # k
      <4>1. i \in 1 .. k - 1
          BY <3>2
      <4>2. e[i - 1] + 1 \in 1 .. e[k - 1] /\ g[k - 1][e[i - 1] + 1] = HeaderWord(d, i)
          BY <1>11, <4>1
      <4>3. e[k - 1] <= e[k] /\ e[k - 1] \in Nat /\ e[k] \in Nat
          BY <1>1, <1>7, <1>8, <1>9
      <4>4. g[k][e[i - 1] + 1] = g[k - 1][e[i - 1] + 1]
          BY <1>9, <4>2
      <4>5. QED BY <4>2, <4>3, <4>4
    <3>3. QED BY <3>1, <3>2
  <2>2. k \in 0 .. n
      BY <1>1
  <2>3. QED BY <2>1, <2>2
<1> HIDE DEF T
<1>12. \A k \in 0 .. n : k \in T
    BY <1>1, <1>10, <1>11, RT!Induction, TableAssumptions
<1>13. n \in T
    BY <1>1, <1>12
<1>14. \A i \in 1 .. n : e[i - 1] + 1 \in 1 .. e[n] /\ g[n][e[i - 1] + 1] = HeaderWord(d, i)
    BY <1>13 DEF T
<1>15. /\ Len(Words(d)) = e[n] + 1 /\ Words(d)[e[n] + 1] = last
       /\ \A j \in 1 .. e[n] : Words(d)[j] = g[n][j]
  <2>1. g[n] \in Seq(Triples)
      BY <1>1, <1>5 DEF S
  <2> HIDE DEF last
  <2>2. /\ Len(g[n] \o << last >>) = Len(g[n]) + 1 /\ (g[n] \o << last >>)[Len(g[n]) + 1] = last
        /\ \A j \in 1 .. Len(g[n]) : (g[n] \o << last >>)[j] = g[n][j]
      BY <2>1, Pushed
  <2>3. QED BY <1>6, <1>7, <2>2
<1>16. \A i \in 1 .. n : Words(d)[e[i - 1] + 1] = HeaderWord(d, i)
    BY <1>14, <1>15
<1>17. LaidOut(d, e)
    BY <1>7, <1>9, <1>15, <1>16 DEF LaidOut, n, last
<1>18. QED BY <1>17

\* The walk over the headers, k of them skipped.
Seen(d, k) == d.offset # 0 /\ \E i \in 1 .. k : d.headers[i][1] = Fragment

Behind(d, e, k) ==
    [next |-> Chain(d)[k + 1], offset |-> 4 * e[k], is_fragment |-> Seen(d, k), stop |-> FALSE]

\* A fragment header keeps its offset in the upper bits.
LEMMA Eighth == ASSUME NEW x \in Nat PROVE (8 * x + 1) \div 8 = x
OBVIOUS

\* One that ends at word b, whether it ends in the frame.
LEMMA HeaderFits ==
    ASSUME NEW a \in Nat, NEW l \in Nat, NEW length, length = 8 * (l + 1), NEW b \in Nat,
           4 * a + length = 4 * b, NEW size \in Int
    PROVE  /\ 40 + 4 * b <= size => ~(40 + 4 * a + 2 > size \/ 40 + 4 * a + length > size)
           /\ 40 + 4 * b > size => 40 + 4 * a + length > size
OBVIOUS

\* One step of it: it skips a header that is all in the frame, and stops at
\* one that is not.
LEMMA HeaderSkipped ==
    ASSUME NEW d, Ipv6Piece(d), NEW e, LaidOut(d, e), NEW f, f.words = Words(d), f.size \in Int,
           NEW k \in 1 .. Len(d.headers)
    PROVE  /\ 40 + 4 * e[k] <= f.size => Skip(f, Behind(d, e, k - 1)) = Behind(d, e, k)
           /\ 40 + 4 * e[k] > f.size => Skip(f, Behind(d, e, k - 1)).stop
<1> DEFINE s == Behind(d, e, k - 1)
           type == d.headers[k][1]
           l == d.headers[k][2]
           a == e[k - 1]
           w == HeaderWord(d, k)
           length == IF type = Fragment THEN 8 ELSE 8 * (w[2] + 1)
           later == type = Fragment /\ w[3] \div 8 # 0
<1>1. /\ type \in ExtensionHeaders /\ l \in Nat /\ (type = Fragment => l = 0) /\ Chain(d)[k] = type
      /\ d.offset \in Nat
    BY PieceFields
<1>2. a \in Nat /\ e[k] = a + 2 * l + 2 /\ Words(d)[a + 1] = w
  <2>1. Len(d.headers) \in Nat /\ k - 1 \in 0 .. Len(d.headers)
      BY PieceFields
  <2>2. QED BY <2>1 DEF LaidOut
<1>3. /\ s.next = type /\ s.offset = 4 * a /\ s.is_fragment = Seen(d, k - 1) /\ s.stop = FALSE
      /\ s = [next |-> type, offset |-> 4 * a, is_fragment |-> Seen(d, k - 1), stop |-> FALSE]
  <2>1. k - 1 + 1 = k
      OBVIOUS
  <2>2. QED BY <1>1, <2>1 DEF Behind
<1>4. w = << Chain(d)[k + 1], l, IF type = Fragment THEN 8 * d.offset + 1 ELSE 9 >>
    BY DEF HeaderWord
<1>5. WordAt(f, s.offset) = w
  <2>1. (4 * a) \div 4 = a
      BY <1>2, Quarter
  <2>2. QED BY <1>2, <1>3, <2>1 DEF WordAt
<1>6. length = 8 * (l + 1) /\ 4 * a + length = 4 * e[k]
  <2>1. w[2] = l
      BY <1>4
  <2>2. length = 8 * (l + 1)
      BY <1>1, <2>1
  <2> HIDE DEF length, w, a, l, type
  <2>3. QED BY <1>1, <1>2, <2>2
<1>7. later = (type = Fragment /\ d.offset # 0)
  <2>1. CASE type = Fragment
    <3>1. w[3] = 8 * d.offset + 1
        BY <1>4, <2>1
    <3>2. (8 * d.offset + 1) \div 8 = d.offset
        BY <1>1, Eighth
    <3> HIDE DEF w
    <3>3. QED BY <2>1, <3>1, <3>2
  <2>2. CASE type # Fragment
      BY <2>2
  <2>3. QED BY <2>1, <2>2
<1>8. (Seen(d, k - 1) \/ later) = Seen(d, k)
  <2>1. 1 .. k = (1 .. k - 1) \cup {k}
      BY PieceFields
  <2>2. Seen(d, k) <=> Seen(d, k - 1) \/ (type = Fragment /\ d.offset # 0)
      BY <2>1 DEF Seen
  <2>3. Seen(d, k) \in BOOLEAN /\ Seen(d, k - 1) \in BOOLEAN
      BY DEF Seen
  <2> HIDE DEF later, type
  <2>4. QED BY <1>7, <2>2, <2>3
<1>9. Skip(f, s) = IF 40 + 4 * a + 2 > f.size \/ 40 + 4 * a + length > f.size
                   THEN [s EXCEPT !.stop = TRUE]
                   ELSE [s EXCEPT !.next = w[1], !.offset = @ + length, !.is_fragment = @ \/ later]
  <2>1. ~s.stop /\ s.next \in ExtensionHeaders
      BY <1>1, <1>3
  <2> HIDE DEF s, w, a, l
  <2>2. QED BY <1>3, <1>5, <2>1 DEF Skip
<1>10. w[1] = Chain(d)[k + 1]
    BY <1>4
<1> HIDE DEF w, length, later, a, l, type
<1> DEFINE b == e[k]
           size == f.size
<1>11. b \in Nat /\ 4 * a + length = 4 * b /\ size \in Int
    BY <1>1, <1>2, <1>6
<1> HIDE DEF b, size
<1>12. /\ 40 + 4 * b <= size => ~(40 + 4 * a + 2 > size \/ 40 + 4 * a + length > size)
       /\ 40 + 4 * b > size => 40 + 4 * a + length > size
    BY <1>1, <1>2, <1>6, <1>11, HeaderFits
<1>13. ASSUME 40 + 4 * e[k] <= f.size
       PROVE  Skip(f, s) = Behind(d, e, k)
  <2>1. ~(40 + 4 * a + 2 > f.size \/ 40 + 4 * a + length > f.size)
      BY <1>12, <1>13, Zenon DEF b, size
  <2>2. Skip(f, s) = [s EXCEPT !.next = w[1], !.offset = @ + length, !.is_fragment = @ \/ later]
      BY <1>9, <2>1
  <2>3. Skip(f, s) = [next |-> w[1], offset |-> 4 * a + length,
                      is_fragment |-> (Seen(d, k - 1) \/ later), stop |-> FALSE]
    <3> HIDE DEF s
    <3>1. QED BY <1>3, <2>2
  <2>4. QED BY <1>6, <1>8, <1>10, <2>3 DEF Behind
<1>14. ASSUME 40 + 4 * e[k] > f.size
       PROVE  Skip(f, s).stop
  <2>1. 40 + 4 * a + length > f.size
      BY <1>12, <1>14, Zenon DEF b, size
  <2> HIDE DEF s
  <2>2. Skip(f, s) = [s EXCEPT !.stop = TRUE]
      BY <1>9, <2>1
  <2>3. QED BY <1>3, <2>2
<1>15. QED BY <1>13, <1>14

\* The walk stays where it has stopped, and behind the last header.
LEMMA WalkStays ==
    ASSUME NEW f, NEW s, s.stop \/ s.next \notin ExtensionHeaders
    PROVE  Skip(f, s) = s
BY DEF Skip

\* The next header begins behind those before it.
LEMMA EndsGrow ==
    ASSUME NEW d, Ipv6Piece(d), NEW e, LaidOut(d, e)
    PROVE  \A k \in 0 .. Len(d.headers) : e[k] <= e[Len(d.headers)]
<1> DEFINE n == Len(d.headers)
           T == {k \in 0 .. n : \A i \in 0 .. k : e[i] <= e[k]}
<1>1. n \in Nat
    BY PieceFields
<1>2. e \in [0 .. n -> Nat] /\ \A i \in 1 .. n : e[i] = e[i - 1] + 2 * d.headers[i][2] + 2
    BY DEF LaidOut
<1>3. \A i \in 1 .. n : d.headers[i][2] \in Nat
    BY PieceFields
<1> HIDE DEF n
<1>4. 0 \in T
    BY <1>1, <1>2
<1>5. ASSUME NEW k \in 1 .. n, k - 1 \in T
      PROVE  k \in T
  <2>1. e[k - 1] <= e[k] /\ e[k - 1] \in Nat /\ e[k] \in Nat
    <3> DEFINE a == e[k - 1]
               l == d.headers[k][2]
    <3>1. k \in 0 .. n /\ k - 1 \in 0 .. n
        BY <1>1
    <3>2. a \in Nat /\ e[k] \in Nat /\ e[k] = a + 2 * l + 2 /\ l \in Nat
        BY <1>2, <1>3, <3>1
    <3> HIDE DEF a, l
    <3>3. a <= a + 2 * l + 2
        BY <3>2
    <3>4. QED BY <3>2, <3>3 DEF a
  <2>2. ASSUME NEW i \in 0 .. k
        PROVE  e[i] <= e[k]
    <3>1. i = k \/ i \in 0 .. k - 1
        BY <1>1
    <3>2. i \in 0 .. n /\ e[i] \in Nat
        BY <1>1, <1>2
    <3>3. i \in 0 .. k - 1 => e[i] <= e[k - 1]
        BY <1>5
    <3>4. QED BY <2>1, <3>1, <3>2, <3>3
  <2>3. QED BY <1>1, <2>2
<1> HIDE DEF T
<1>6. n \in T
  <2>1. \A k \in 0 .. n : k \in T
      BY <1>1, <1>4, <1>5, RT!Induction, TableAssumptions
  <2>2. QED BY <1>1, <2>1
<1>7. QED BY <1>6 DEF T, n

\* What is found behind the last header.
Ipv6Found(f, end) ==
    IF f.ether # "ipv6" \/ f.size < 40 \/ end.stop THEN Unparsed
    ELSE [proto |-> end.next,
          port  |-> IF end.is_fragment THEN 0 ELSE PortAt(f, 40, end.next, end.offset)]

Start(f) == [next |-> f.next, offset |-> 0, is_fragment |-> FALSE, stop |-> FALSE]

Walks(f, walk) == walk[0] = Start(f) /\ \A i \in 1 .. 4 : walk[i] = Skip(f, walk[i - 1])

\* parse_ipv6 takes four steps.
LEMMA Ipv6Walks ==
    ASSUME NEW f
    PROVE  \E walk : Walks(f, walk) /\ ParseIpv6(f) = Ipv6Found(f, walk[4])
<1> DEFINE s1 == Skip(f, Start(f))
           s2 == Skip(f, s1)
           s3 == Skip(f, s2)
           s4 == Skip(f, s3)
           r == [i \in 0 .. 4 |-> IF i = 0 THEN Start(f) ELSE IF i = 1 THEN s1 ELSE IF i = 2 THEN s2
                                  ELSE IF i = 3 THEN s3 ELSE s4]
           Run(walk) == walk = [i \in 0 .. 4 |->
                            IF i = 0 THEN [next |-> f.next, offset |-> 0, is_fragment |-> FALSE,
                                           stop |-> FALSE]
                            ELSE Skip(f, walk[i - 1])]
<1>1. Run(r)
  <2> HIDE DEF s1, s2, s3, s4
  <2>1. r[0] = Start(f) /\ r[1] = s1 /\ r[2] = s2 /\ r[3] = s3 /\ r[4] = s4
      OBVIOUS
  <2>2. \A i \in 1 .. 4 : r[i] = Skip(f, r[i - 1])
    <3> HIDE DEF r
    <3>1. r[1] = Skip(f, r[0]) /\ r[2] = Skip(f, r[1]) /\ r[3] = Skip(f, r[2]) /\ r[4] = Skip(f, r[3])
        BY <2>1 DEF s1, s2, s3, s4
    <3>2. ASSUME NEW i \in 1 .. 4
          PROVE  r[i] = Skip(f, r[i - 1])
      <4>1. i = 1 \/ i = 2 \/ i = 3 \/ i = 4
          OBVIOUS
      <4>2. QED BY <3>1, <4>1
    <3>3. QED BY <3>2
  <2>3. ASSUME NEW i \in 0 .. 4
        PROVE  r[i] = IF i = 0 THEN Start(f) ELSE Skip(f, r[i - 1])
      BY <2>1, <2>2
  <2>4. QED BY <2>3 DEF Start
<1>2. PICK walk : Run(walk) /\ ParseIpv6(f) = Ipv6Found(f, walk[4])
  <2>1. \E walk : Run(walk)
    <3> HIDE DEF Run
    <3>1. QED BY <1>1
  <2>2. QED BY <2>1 DEF ParseIpv6, Ipv6Found
<1>3. Walks(f, walk)
  <2>1. walk[0] = Start(f)
      BY <1>2 DEF Start
  <2>2. ASSUME NEW i \in 1 .. 4
        PROVE  walk[i] = Skip(f, walk[i - 1])
    <3>1. i \in 0 .. 4 /\ i # 0
        OBVIOUS
    <3>2. \A j \in 0 .. 4 : j # 0 => walk[j] = Skip(f, walk[j - 1])
        BY <1>2
    <3>3. QED BY <3>1, <3>2
  <2>3. QED BY <2>1, <2>2 DEF Walks
<1>4. QED BY <1>2, <1>3

\* The walk over a frame that is not cut before its ports ends behind the
\* last header.
LEMMA WalkEnds ==
    ASSUME NEW d, Ipv6Piece(d), NEW e, LaidOut(d, e), NEW f, f.words = Words(d), f.size \in Int,
           f.next = Chain(d)[1], 40 + 4 * e[Len(d.headers)] <= f.size, NEW walk, Walks(f, walk)
    PROVE  walk[4] = Behind(d, e, Len(d.headers))
<1> DEFINE n == Len(d.headers)
           At(k) == Behind(d, e, k)
           T == {k \in 0 .. 4 : (k <= n => walk[k] = At(k)) /\ (k >= n => walk[k] = At(n))}
<1>1. n \in 0 .. 4 /\ e \in [0 .. n -> Nat] /\ At(n).next \notin ExtensionHeaders
  <2>1. n \in 0 .. 4 /\ Chain(d)[n + 1] \notin ExtensionHeaders
      BY PieceFields
  <2>2. QED BY <2>1 DEF LaidOut, Behind
<1>2. walk[0] = At(0)
  <2>1. e[0] = 0
      BY DEF LaidOut
  <2>2. Seen(d, 0) = FALSE
      BY DEF Seen
  <2>3. walk[0] = [next |-> f.next, offset |-> 0, is_fragment |-> FALSE, stop |-> FALSE]
      BY DEF Walks, Start
  <2>4. At(0) = [next |-> Chain(d)[1], offset |-> 0, is_fragment |-> FALSE, stop |-> FALSE]
    <3>1. 4 * e[0] = 0 /\ 0 + 1 = 1
        BY <2>1
    <3>2. QED BY <2>2, <3>1 DEF Behind
  <2>5. QED BY <2>3, <2>4
<1>3. \A k \in 1 .. n : Skip(f, At(k - 1)) = At(k)
  <2>1. ASSUME NEW k \in 1 .. n
        PROVE  40 + 4 * e[k] <= f.size
    <3>1. k \in 0 .. n /\ e[k] \in Nat /\ e[n] \in Nat
        BY <1>1
    <3>2. e[k] <= e[n]
        BY <3>1, EndsGrow
    <3> DEFINE a == e[k]
               b == e[n]
               size == f.size
    <3>3. a \in Nat /\ b \in Nat /\ a <= b /\ size \in Int /\ 40 + 4 * b <= size
        BY <3>1, <3>2
    <3> HIDE DEF a, b, size
    <3>4. 40 + 4 * a <= size
        BY <3>3
    <3>5. QED BY <3>4 DEF a, size
  <2>2. QED BY <2>1, HeaderSkipped
<1>4. Skip(f, At(n)) = At(n)
    BY <1>1, WalkStays, Zenon
<1>5. \A k \in 1 .. 4 : walk[k] = Skip(f, walk[k - 1])
    BY DEF Walks
<1> HIDE DEF At, n
<1>6. 0 \in T
    BY <1>1, <1>2
<1>7. ASSUME NEW k \in 1 .. 4, k - 1 \in T
      PROVE  k \in T
  <2>1. CASE k <= n
    <3>1. k \in 1 .. n /\ k - 1 <= n
        BY <1>1, <2>1
    <3>2. walk[k] = At(k)
        BY <1>3, <1>5, <1>7, <3>1
    <3>3. k >= n => k = n
        BY <1>1, <2>1
    <3>4. QED BY <3>2, <3>3
  <2>2. CASE ~(k <= n)
    <3>1. k - 1 >= n
        BY <1>1, <2>2
    <3>2. walk[k] = At(n)
        BY <1>4, <1>5, <1>7, <3>1
    <3>3. QED BY <2>2, <3>2
  <2>3. QED BY <2>1, <2>2
<1> HIDE DEF T
<1>8. 4 \in T
  <2>1. \A k \in 0 .. 4 : k \in T
      BY <1>6, <1>7, RT!Induction, TableAssumptions
  <2>2. QED BY <2>1
<1>9. walk[4] = At(n)
    BY <1>1, <1>8 DEF T
<1>10. QED BY <1>9 DEF At, n

\* In a frame that ends in a header it stops.
LEMMA WalkStops ==
    ASSUME NEW d, Ipv6Piece(d), NEW e, LaidOut(d, e), NEW f, f.words = Words(d), f.size \in Int,
           f.next = Chain(d)[1], 40 + 4 * e[Len(d.headers)] > f.size, Len(d.headers) # 0,
           NEW walk, Walks(f, walk)
    PROVE  walk[4].stop
<1> DEFINE n == Len(d.headers)
           At(k) == Behind(d, e, k)
           T == {k \in 0 .. 4 : walk[k].stop \/ (k < n /\ walk[k] = At(k))}
<1>1. n \in 1 .. 4 /\ e \in [0 .. n -> Nat]
  <2>1. n \in 0 .. 4
      BY PieceFields
  <2>2. QED BY <2>1 DEF LaidOut
<1>2. walk[0] = At(0)
  <2>1. e[0] = 0
      BY DEF LaidOut
  <2>2. Seen(d, 0) = FALSE
      BY DEF Seen
  <2>3. walk[0] = [next |-> f.next, offset |-> 0, is_fragment |-> FALSE, stop |-> FALSE]
      BY DEF Walks, Start
  <2>4. At(0) = [next |-> Chain(d)[1], offset |-> 0, is_fragment |-> FALSE, stop |-> FALSE]
    <3>1. 4 * e[0] = 0 /\ 0 + 1 = 1
        BY <2>1
    <3>2. QED BY <2>2, <3>1 DEF Behind
  <2>5. QED BY <2>3, <2>4
<1>3. \A k \in 1 .. n : /\ Skip(f, At(k - 1)) = At(k) \/ Skip(f, At(k - 1)).stop
                        /\ k = n => Skip(f, At(k - 1)).stop
  <2>1. ASSUME NEW k \in 1 .. n
        PROVE  /\ Skip(f, At(k - 1)) = At(k) \/ Skip(f, At(k - 1)).stop
               /\ k = n => Skip(f, At(k - 1)).stop
    <3>1. e[k] \in Nat
        BY <1>1
    <3>2. /\ 40 + 4 * e[k] <= f.size => Skip(f, At(k - 1)) = At(k)
          /\ 40 + 4 * e[k] > f.size => Skip(f, At(k - 1)).stop
        BY HeaderSkipped
    <3> HIDE DEF At
    <3>3. QED BY <3>1, <3>2
  <2>2. QED BY <2>1
<1>4. \A s : s.stop => Skip(f, s) = s
    BY WalkStays
<1>5. \A k \in 1 .. 4 : walk[k] = Skip(f, walk[k - 1])
    BY DEF Walks
<1> HIDE DEF At, n
<1>6. 0 \in T
    BY <1>1, <1>2
<1>7. ASSUME NEW k \in 1 .. 4, k - 1 \in T
      PROVE  k \in T
  <2>1. CASE walk[k - 1].stop
    <3>1. walk[k] = walk[k - 1]
        BY <1>4, <1>5, <2>1
    <3>2. QED BY <2>1, <3>1
  <2>2. CASE k - 1 < n /\ walk[k - 1] = At(k - 1)
    <3>1. k \in 1 .. n /\ (k < n \/ k = n)
        BY <1>1, <2>2
    <3>2. walk[k] = Skip(f, At(k - 1))
        BY <1>5, <2>2
    <3>3. walk[k] = At(k) \/ walk[k].stop
        BY <1>3, <3>1, <3>2
    <3>4. k = n => walk[k].stop
        BY <1>3, <3>1, <3>2
    <3>5. QED BY <3>1, <3>3, <3>4
  <2>3. QED BY <1>7, <2>1, <2>2
<1> HIDE DEF T
<1>8. 4 \in T
  <2>1. \A k \in 0 .. 4 : k \in T
      BY <1>6, <1>7, RT!Induction, TableAssumptions
  <2>2. QED BY <2>1
<1>9. QED BY <1>1, <1>8 DEF T

\* parse_ipv6 finds the protocol behind up to four headers, and the ports
\* unless the frame is cut in them or a later fragment.
LEMMA Ipv6Read ==
    ASSUME NEW d, Ipv6Piece(d)
    PROVE  Parse(Frame(d)) = Described(d)
<1> DEFINE f == Frame(d)
           n == Len(d.headers)
<1>1. n \in 0 .. 4 /\ d.cut \in Nat /\ d.proto \in Nat
    BY PieceFields
<1>2. PICK e : LaidOut(d, e)
    BY HeadersLaidOut
<1>3. /\ e \in [0 .. n -> Nat] /\ e[0] = 0 /\ e[n] \in Nat
      /\ Len(Words(d)) = e[n] + 1 /\ Words(d)[e[n] + 1] = << 0, 1, d.port >>
    BY <1>1, <1>2 DEF LaidOut
<1>4. /\ f.ether = "ipv6" /\ f.next = Chain(d)[1] /\ f.words = Words(d)
      /\ f.size = 40 + 4 * (e[n] + 1) - d.cut
  <2>1. d.ether = "ipv6"
      BY DEF Ipv6Piece
  <2>2. QED BY <1>3, <2>1 DEF Frame
<1> DEFINE b == e[n]
           size == f.size
           cut == d.cut
<1> HIDE DEF f
<1>5. b \in Nat /\ cut \in Nat /\ size = 40 + 4 * (b + 1) - cut
    BY <1>1, <1>3, <1>4
<1> HIDE DEF b, size, cut
<1>6. /\ size \in Int
      /\ cut > 4 => 40 + 4 * b > size
      /\ cut > 4 /\ b = 0 => size < 40
      /\ ~(cut > 4) => 40 + 4 * b <= size /\ ~(size < 40)
      /\ 40 + 4 * b + 4 <= size <=> ~(cut > 0)
    BY <1>5
<1>7. /\ f.size \in Int
      /\ d.cut > 4 => 40 + 4 * e[n] > f.size
      /\ d.cut > 4 /\ n = 0 => f.size < 40
      /\ ~(d.cut > 4) => 40 + 4 * e[n] <= f.size /\ ~(f.size < 40)
    BY <1>3, <1>6, Zenon DEF b, size, cut
<1>8. PICK walk : Walks(f, walk) /\ ParseIpv6(f) = Ipv6Found(f, walk[4])
    BY Ipv6Walks
<1>9. Parse(f) = ParseIpv6(f)
  <2>1. ParseIpv4(f) = Unparsed
      BY <1>4 DEF ParseIpv4
  <2>2. QED BY <2>1 DEF Parse
<1>10. CASE d.cut > 4
  <2>1. 40 + 4 * e[n] > f.size
      BY <1>7, <1>10, Zenon
  <2>2. CASE n = 0
    <3>1. f.size < 40
        BY <1>7, <1>10, <2>2, Zenon
    <3>2. QED BY <1>8, <1>9, <1>10, <3>1 DEF Ipv6Found, Described, f
  <2>3. CASE n # 0
    <3>1. walk[4].stop
        BY <1>2, <1>4, <1>7, <1>8, <2>1, <2>3, WalkStops
    <3>2. QED BY <1>8, <1>9, <1>10, <3>1 DEF Ipv6Found, Described, f
  <2>4. QED BY <2>2, <2>3
<1>11. CASE ~(d.cut > 4)
  <2>1. 40 + 4 * e[n] <= f.size
      BY <1>7, <1>11, Zenon
  <2>2. walk[4] = Behind(d, e, n)
      BY <1>2, <1>4, <1>7, <1>8, <2>1, WalkEnds
  <2>3. /\ walk[4].next = d.proto /\ walk[4].offset = 4 * e[n] /\ walk[4].stop = FALSE
        /\ walk[4].is_fragment <=> d.offset # 0
    <3>1. Chain(d)[n + 1] = d.proto
        BY PieceFields
    <3>2. Seen(d, n) <=> d.offset # 0
        BY PieceFields DEF Seen
    <3>3. QED BY <2>2, <3>1, <3>2 DEF Behind
  <2>4. PortAt(f, 40, d.proto, 4 * e[n]) = ReadPort(d.proto, d.port, d.cut)
    <3>1. WordAt(f, 4 * b)[3] = d.port
      <4>1. (4 * b) \div 4 = b
          BY <1>5, Quarter
      <4>2. Words(d)[b + 1] = << 0, 1, d.port >>
          BY <1>3, Zenon DEF b
      <4>3. WordAt(f, 4 * b) = << 0, 1, d.port >>
          BY <1>4, <4>1, <4>2 DEF WordAt
      <4>4. QED BY <4>3
    <3>2. 40 + 4 * b + 4 <= f.size <=> ~(d.cut > 0)
        BY <1>6, Zenon DEF size, cut
    <3>3. PortAt(f, 40, d.proto, 4 * b) = ReadPort(d.proto, d.port, d.cut)
        BY <3>1, <3>2, Zenon DEF PortAt, ReadPort
    <3>4. QED BY <3>3, Zenon DEF b
  <2>5. ~(f.ether # "ipv6" \/ f.size < 40 \/ walk[4].stop)
      BY <1>4, <1>7, <1>11, <2>3, Zenon
  <2>6. ParseIpv6(f) = [proto |-> d.proto,
                        port  |-> IF d.offset # 0 THEN 0 ELSE PortAt(f, 40, d.proto, 4 * e[n])]
      BY <1>8, <2>3, <2>5 DEF Ipv6Found
  <2>7. ParseIpv6(f) = Described(d)
      BY <1>11, <2>4, <2>6 DEF Described, ReadPort
  <2>8. QED BY <1>9, <2>7 DEF f
<1>12. QED BY <1>10, <1>11

\* Every piece is read as what it is.
LEMMA PieceRead ==
    ASSUME NEW d, IsPiece(d)
    PROVE  Parse(Frame(d)) = Described(d)
<1>1. d.ether = "ipv4" \/ Ipv6Piece(d)
    BY DEF IsPiece, Ipv6Piece
<1>2. QED BY <1>1, Ipv4Read, Ipv6Read

\* A frame of either family, with options or up to four extension headers,
\* a fragment or cut anywhere, gets between two handlers the verdict the
\* listed rules ask for what it carries.
THEOREM FramesSettle ==
    ASSUME OnlyDeny
    PROVE  DpSpec => []FramesGetTheirVerdict
<1>1. DpInv => FramesGetTheirVerdict
  <2> SUFFICES ASSUME DpInv, calls = << >>, NEW d \in Datagrams
               PROVE  Judged(PacketOf(d, Parse(Frame(d)))) =
                          IF PacketOf(d, Described(d)).proto = Unparsed.proto THEN Pass
                          ELSE Intended(table.rules, PacketOf(d, Described(d)))
      BY DEF FramesGetTheirVerdict, Parsed, Settled
  <2>1. HandlerInv(table, before, << >>, POLICY_TABLE, PORT_BITMAP_POOL)
      BY DEF DpInv
  <2>2. \A pkt : EvaluatePolicy(POLICY_TABLE, PORT_BITMAP_POOL, pkt) = Intended(table.rules, pkt)
    <3>1. /\ GoodTable(table) /\ POLICY_TABLE = PoliciesOf(table.rules)
          /\ \A key \in DOMAIN PORT_BITMAP_POOL : PORT_BITMAP_POOL[key] = 1
          /\ \A k \in DOMAIN table.rules : Filters(PORT_BITMAP_POOL, table.rules[k])
        BY <2>1, NoCalls DEF HandlerInv
    <3>2. QED BY <3>1, SettledPacket
  <2>3. Parse(Frame(d)) = Described(d)
      BY DatagramsArePieces, PieceRead
  <2>4. QED BY <2>2, <2>3 DEF Judged
<1>2. QED BY <1>1, DpInvariant, PTL
=============================================================================
