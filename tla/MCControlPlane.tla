--------------------------- MODULE MCControlPlane ---------------------------
(***************************************************************************)
(* Small instances of ControlPlane, one per cfg.                           *)
(***************************************************************************)
EXTENDS ControlPlane

One == << <<1, 1, 1>> >>                   \* "1"
OneTwo == << <<1, 2, 1>> >>                \* "1-2"
OneTwoOpen == << <<2, 2, 0>>, <<1, 1, 1>> >>   \* "2:0,1"

\* The requests of the runs about failing kernel calls.
FaultGroups == { <<"web", "10.0.0.0/8">> }
FaultPolicies == { <<"any", "any", 6, 0>>, <<"web", "any", 6, 0>> }
OnlyAll == { AllPorts }
FaultTexts == { AllPorts, OneTwo, OneTwoOpen, One }

QosTargets == { <<"web", 1>>, <<"default", 1>> }

\* Two groups and two CIDRs, either of which may be given to either.
SharedCidrs == {"web", "db"} \X {"10.0.0.0/8", "192.168.1.0/24"}
GroupPolicies == { <<"web", "db", 6, 0>> }

Switch == { << {TRUE}, {} >>, << {FALSE}, {} >>, << {}, {TRUE} >>, << {}, {FALSE} >> }

-----------------------------------------------------------------------------
(***************************************************************************)
(* The pure operators, compared with their references over all inputs up   *)
(* to a size.                                                              *)
(***************************************************************************)
Parts == {<< start, end, digit >> \in (1 .. 2) \X (1 .. 2) \X {0, 1} : start <= end}
Texts == UNION {[1 .. n -> Parts] : n \in 0 .. 3}

\* Texts of up to three parts over two ports: they have the same normal form
\* exactly when they have the same parts, and if these are disjoint the texts
\* mean the same.
ASSUME NormalFormsTellTextsApart ==
    LET form    == [text \in Texts |-> Normalize(text)]
        meaning == [text \in Texts |-> Meaning(text)]
    IN  \A a, b \in Texts :
            /\ form[a] = form[b] <=> SameParts(a, b)
            /\ form[a] = form[b] /\ DisjointParts(a) => meaning[a] = meaning[b]

AnyPacket == [src |-> 1, dst |-> 2, proto |-> 6, dir |-> 0, port |-> 1]
MatchingKeys == {0, 1} \X {0, 2} \X {0, 6} \X {0}

\* Whichever of the eight keys that match a packet have a rule, the one that
\* evaluate_policy finds, denied here while the others permit, is the most
\* specific of them.
ASSUME FallbackFindsMostSpecific ==
    \A keys \in SUBSET MatchingKeys, denied \in MatchingKeys :
        LET rules == [k \in keys |-> [action     |-> IF k = denied THEN 1 ELSE 0,
                                     ports      |-> AllPorts,
                                     bitmap_idx |-> NoIdx]]
            policies == [k \in keys |-> [action          |-> rules[k].action,
                                        has_port_filter |-> FALSE,
                                        bitmap_idx      |-> 0]]
        IN  EvaluatePolicy(policies, << >>, AnyPacket) = Intended(rules, AnyPacket)

-----------------------------------------------------------------------------
\* The example of the README.
TwoGroups == { <<"web", "10.0.0.0/8">>, <<"db", "192.168.1.0/24">> }
Port3306 == << <<3306, 3306, 1>> >>        \* "3306": no digit means 1
ReadmePolicy == <<"web", "db", 6, 0>>
ReadmePolicies == {ReadmePolicy}
ReadmeTexts == {Port3306}

\* "allow TCP 3306 from web to db": once the policy of the example is
\* accepted, a packet it describes passes.
ReadmeExampleAccepted ==
    \A k \in DOMAIN table.rules :
        /\ Resolvable(ReadmePolicy)
        /\ k = PolicyKey(ReadmePolicy)
        /\ table.rules[k].action = 0
        => EvaluatePolicy(POLICY_TABLE, PORT_BITMAP_POOL,
               [src |-> k[1], dst |-> k[2], proto |-> 6, dir |-> 0, port |-> 3306]) = Pass
=============================================================================
