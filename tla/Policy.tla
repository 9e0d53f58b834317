------------------------------- MODULE Policy -------------------------------
(***************************************************************************)
(* How the datapath judges a packet from POLICY_TABLE and PORT_BITMAP_POOL *)
(* (ebpf/src/policy.rs), and how a reader of the rule list would judge it. *)
(* A packet is a record of the group ids of its addresses (0: in no        *)
(* group), its protocol, its direction and its destination port.           *)
(* CandidatesMutant is a mistake the properties must notice.               *)
(***************************************************************************)
EXTENDS FirewallState

Pass == "PASS"
Drop == "DROP"

ActionVerdict(a) == IF a = 0 THEN Pass ELSE Drop

\* The keys evaluate_policy tries, in its order.
CandidatesMutant(s, d, p) ==
    << <<s, d, p>>, <<s, d, 0>>, <<0, d, p>>, <<s, 0, p>>,
       <<0, 0, p>>, <<0, d, 0>>, <<s, 0, 0>>, <<0, 0, 0>> >>
Candidates(s, d, p) ==
    << <<s, d, p>>, <<0, d, p>>, <<s, 0, p>>, <<s, d, 0>>,
       <<0, 0, p>>, <<0, d, 0>>, <<s, 0, 0>>, <<0, 0, 0>> >>

\* value is the [action, has_port_filter, bitmap_idx] of a policy.
ApplyPolicy(value, pool, port) ==
    LET key == << value.bitmap_idx, port >>
    IN  IF value.has_port_filter /\ key \in DOMAIN pool
        THEN IF pool[key] = 2 THEN Pass ELSE Drop
        ELSE ActionVerdict(value.action)

EvaluatePolicy(policyTable, pool, pkt) ==
    LET cand == Candidates(pkt.src, pkt.dst, pkt.proto)
        key(i) == << cand[i][1], cand[i][2], cand[i][3], pkt.dir >>
        hits == {i \in 1 .. 8 : key(i) \in DOMAIN policyTable}
    IN  IF hits = {} THEN Pass
        ELSE ApplyPolicy(policyTable[key(Min(hits))], pool, pkt.port)

(***************************************************************************)
(* The reference: the rule with the fewest wildcards decides, by its port  *)
(* text if that names the packet's port and by its action otherwise; among *)
(* rules with as many wildcards, one that leaves the source open goes      *)
(* before one that leaves the destination open, and that before one that   *)
(* leaves the protocol open.                                               *)
(***************************************************************************)
Matches(k, pkt) == /\ k[1] \in {0, pkt.src}
                   /\ k[2] \in {0, pkt.dst}
                   /\ k[3] \in {0, pkt.proto}
                   /\ k[4] = pkt.dir

Wildcards(k, pkt) == {i \in 1 .. 3 : k[i] # << pkt.src, pkt.dst, pkt.proto >>[i]}

GoesBefore(k, l, pkt) ==
    LET wk == Wildcards(k, pkt)
        wl == Wildcards(l, pkt)
    IN  \/ Cardinality(wk) < Cardinality(wl)
        \/ /\ Cardinality(wk) = Cardinality(wl)
           /\ \E i \in wk \ wl : \A j \in wl \ wk : i < j

Deciding(rules, pkt) ==
    {k \in DOMAIN rules : /\ Matches(k, pkt)
                          /\ \A l \in DOMAIN rules \ {k} :
                                 Matches(l, pkt) => GoesBefore(k, l, pkt)}

Intended(rules, pkt) ==
    IF Deciding(rules, pkt) = {} THEN Pass
    ELSE LET r == rules[CHOOSE k \in Deciding(rules, pkt) : TRUE]
         IN  IF pkt.port \in PortsOf(r.ports)
             THEN IF Meaning(r.ports)[pkt.port] = 2 THEN Pass ELSE Drop
             ELSE ActionVerdict(r.action)
=============================================================================
