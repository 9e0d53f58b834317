------------------------------ MODULE Datapath ------------------------------
(***************************************************************************)
(* A packet between the kernel calls of the policy handlers.  The handlers *)
(* of ControlPlane hold the lock of the instance, but a packet only reads  *)
(* the maps: evaluate_policy looks up one key after the other in           *)
(* POLICY_TABLE, then the port in PORT_BITMAP_POOL, and a handler writes   *)
(* or deletes one entry after the other.  Here each lookup and each of     *)
(* those calls is a step.                                                  *)
(*                                                                         *)
(* Packets do not change what this module is about, so one at a time is    *)
(* enough.  Kernel calls succeed (ControlPlane has those that fail).       *)
(* evaluate_policy reads none of the maps of groups: their handlers are    *)
(* one step, as there.  Memory is behind the lock: when in its handler it  *)
(* changes cannot be seen.                                                 *)
(***************************************************************************)
EXTENDS ControlPlane, Parser

CONSTANTS Traffic,     \* the frames that arrive, described as in Parser, each with
                       \* the groups of its addresses and its direction
          Datagrams,   \* the frames FramesGetTheirVerdict is about
          NoVerdict

\* Without later IPv4 fragments, whose payload is read as ports, fifth
\* extension headers and headers behind that of a later fragment.
ASSUME DatagramsArePieces == \A d \in Datagrams : IsPiece(d)

VARIABLES
    calls,    \* the kernel calls the handler at work has still to make
    before,   \* the table before that handler; the table if there is none
    packet,   \* the packet in evaluate_policy and how far it is
    verdict   \* of the last packet

datapathVars == << packet, verdict >>
dpVars == << vars, calls, before, datapathVars >>

IdlePacket == [stage |-> "idle"]

DpInit ==
    /\ Init
    /\ calls = << >>
    /\ before = table
    /\ packet = IdlePacket
    /\ verdict = NoVerdict

-----------------------------------------------------------------------------
(***************************************************************************)
(* Handlers                                                                *)
(***************************************************************************)
SetPorts(idx, text) ==
    LET inserts == Inserts(text)
    IN  [i \in DOMAIN inserts |->
            [op |-> "setPort", key |-> << idx, inserts[i][1] >>, value |-> inserts[i][2]]]

\* A normal form that does not parse deletes nothing.
DropPorts(released) ==
    IF released = {} THEN << >>
    ELSE LET s == CHOOSE s \in released : TRUE
             inserts == Inserts(s[2])
         IN  IF ~ValidPorts(s[2]) THEN << >>
             ELSE [i \in DOMAIN inserts |-> [op |-> "dropPort", key |-> << s[1], inserts[i][1] >>]]

\* The packet has begun before, or sees, what the handler does.
Crossed ==
    packet' = IF packet.stage = "idle" THEN packet
              ELSE IF packet.crossed = 0
              THEN [packet EXCEPT !.crossed = 1,
                                  !.asked = @ \cup {Intended(table'.rules, packet.pkt)}]
              ELSE [packet EXCEPT !.crossed = 2, !.asked = {}]

Handle(changed, todo) ==
    /\ calls = << >>
    /\ table' = changed
    /\ calls' = todo
    /\ Crossed
    /\ UNCHANGED << POLICY_TABLE, PORT_BITMAP_POOL, groupVars, qosVars, configVars, faults,
                    before, verdict >>

AddCallsMutant(k, p, added) ==
    LET idx == added.rules[k].bitmap_idx
    IN  << [op |-> "setPolicy", key |-> k, value |-> PolicyValue(added.rules[k])] >>
        \o (IF IsNewPortSet(table, p) THEN SetPorts(idx, p) ELSE << >>)
        \o DropPorts(ReleasedPortSets(table, added))
AddCalls(k, p, added) ==
    LET idx == added.rules[k].bitmap_idx
    IN  (IF IsNewPortSet(table, p) THEN SetPorts(idx, p) ELSE << >>)
        \o << [op |-> "setPolicy", key |-> k, value |-> PolicyValue(added.rules[k])] >>
        \o DropPorts(ReleasedPortSets(table, added))

BeginAddPolicy(req, a, p) ==
    /\ Resolvable(req)
    /\ AddRuleAccepts(table, MaxPortPolicies, p)
    /\ LET k     == PolicyKey(req)
           added == ApplyAddRule(table, k, a, p)
       IN  Handle(added, AddCalls(k, p, added))

DeleteCalls(k, removed) ==
    << [op |-> "dropPolicy", key |-> k] >> \o DropPorts(ReleasedPortSets(table, removed))

BeginDeletePolicy(req) ==
    /\ Resolvable(req)
    /\ LET k       == PolicyKey(req)
           removed == ApplyRemoveRule(table, k)
       IN  /\ k \in DOMAIN table.rules
           /\ Handle(removed, DeleteCalls(k, removed))

\* The port set the packet has been sent to is being deleted.
Tear(key) ==
    packet' = IF packet.stage = "port" /\ packet.value.bitmap_idx = key[1]
              THEN [packet EXCEPT !.torn = TRUE] ELSE packet

KernelCall ==
    /\ calls # << >>
    /\ LET call == Head(calls)
       IN  CASE call.op = "setPort" ->
                  /\ PORT_BITMAP_POOL' = Insert(PORT_BITMAP_POOL, call.key, call.value)
                  /\ UNCHANGED << POLICY_TABLE, packet >>
             [] call.op = "setPolicy" ->
                  /\ POLICY_TABLE' = Insert(POLICY_TABLE, call.key, call.value)
                  /\ UNCHANGED << PORT_BITMAP_POOL, packet >>
             [] call.op = "dropPolicy" ->
                  /\ POLICY_TABLE' = Without(POLICY_TABLE, {call.key})
                  /\ UNCHANGED << PORT_BITMAP_POOL, packet >>
             [] call.op = "dropPort" ->
                  /\ PORT_BITMAP_POOL' = Without(PORT_BITMAP_POOL, {call.key})
                  /\ Tear(call.key)
                  /\ UNCHANGED POLICY_TABLE
    /\ calls' = Tail(calls)
    /\ before' = IF Tail(calls) = << >> THEN table ELSE before
    /\ UNCHANGED << table, groupVars, qosVars, configVars, faults, verdict >>

BeginAddGroup(name, cidr) ==
    /\ calls = << >>
    /\ AddGroup(name, cidr)
    /\ UNCHANGED << calls, before, datapathVars >>

BeginDeleteGroup(name) ==
    /\ calls = << >>
    /\ DeleteGroup(name)
    /\ UNCHANGED << calls, before, datapathVars >>

-----------------------------------------------------------------------------
(***************************************************************************)
(* A packet                                                                *)
(*   asked    the verdicts the listed rules ask for, before and after the  *)
(*            handler the packet overlaps; not kept for more than one      *)
(*   crossed  how many handlers that is, two standing for more             *)
(*   torn     whether the port set it has read of has begun to be deleted  *)
(***************************************************************************)
PacketOf(d, info) ==
    [src |-> d.src, dst |-> d.dst, dir |-> d.dir, proto |-> info.proto, port |-> info.port]

\* A frame that does not parse passes.
Receive(d) ==
    LET info == Parse(Frame(d))
        pkt  == PacketOf(d, info)
    IN  /\ packet.stage = "idle"
        /\ IF info = Unparsed
           THEN /\ verdict' = Pass
                /\ UNCHANGED packet
           ELSE /\ packet' = [stage   |-> "policy",
                              pkt     |-> pkt,
                              level   |-> 1,
                              asked   |-> {Intended(t.rules, pkt) : t \in {before, table}},
                              crossed |-> IF calls = << >> THEN 0 ELSE 1]
                /\ verdict' = NoVerdict
        /\ UNCHANGED << vars, calls, before >>

Key(pkt, level) ==
    LET c == Candidates(pkt.src, pkt.dst, pkt.proto)[level]
    IN  << c[1], c[2], c[3], pkt.dir >>

Decide(result) == /\ packet' = IdlePacket
                  /\ verdict' = result

\* One of the eight lookups of evaluate_policy.
LookupPolicy ==
    /\ packet.stage = "policy"
    /\ LET key == Key(packet.pkt, packet.level)
       IN  IF key \in DOMAIN POLICY_TABLE
           THEN IF POLICY_TABLE[key].has_port_filter
                THEN /\ packet' = [stage   |-> "port",
                                   pkt     |-> packet.pkt,
                                   value   |-> POLICY_TABLE[key],
                                   asked   |-> packet.asked,
                                   crossed |-> packet.crossed,
                                   torn    |-> FALSE]
                     /\ UNCHANGED verdict
                ELSE Decide(ActionVerdict(POLICY_TABLE[key].action))
           ELSE IF packet.level = 8 THEN Decide(Pass)
                ELSE packet' = [packet EXCEPT !.level = @ + 1] /\ UNCHANGED verdict
    /\ UNCHANGED << vars, calls, before >>

LookupPort ==
    /\ packet.stage = "port"
    /\ Decide(ApplyPolicy(packet.value, PORT_BITMAP_POOL, packet.pkt.port))
    /\ UNCHANGED << vars, calls, before >>

Evaluate == LookupPolicy \/ LookupPort

DpNext ==
    \/ \E r \in PolicyRequests, a \in {0, 1}, p \in PortTexts : BeginAddPolicy(r, a, p)
    \/ \E r \in PolicyRequests : BeginDeletePolicy(r)
    \/ KernelCall
    \/ \E r \in GroupRequests : BeginAddGroup(r[1], r[2])
    \/ \E r \in GroupRequests : BeginDeleteGroup(r[1])
    \/ \E d \in Traffic : Receive(d)
    \/ Evaluate

DpSpec == DpInit /\ [][DpNext]_dpVars
-----------------------------------------------------------------------------
(***************************************************************************)
(* Properties                                                              *)
(***************************************************************************)
Decides == packet.stage # "idle" /\ packet'.stage = "idle"

\* A packet that overlaps one handler at most gets the verdict of the rules
\* before or after it: not that of a policy whose ports are not all written
\* yet, nor of half a fallback.  Only if the port set it was sent to is
\* deleted under it may it get another.
OldOrNew ==
    [][Decides /\ packet.crossed <= 1 => verdict' \in packet.asked \/ (packet.stage = "port" /\ packet.torn)]_dpVars

\* The same without the exception.
AlwaysOldOrNew == [][Decides /\ packet.crossed <= 1 => verdict' \in packet.asked]_dpVars

\* Between two handlers, when no packet is on its way either.
Settled == calls = << >> /\ packet.stage = "idle"

\* Once a handler has made its last call every packet gets the verdict of
\* the most specific listed rule, with that rule's own port text, although
\* rules share port sets and indices are recycled.
SettledVerdicts == Settled => VerdictsFollowRules

\* The packets that evaluate_policy is given, and those it should be given.
Parsed == {<< PacketOf(d, Parse(Frame(d))), PacketOf(d, Described(d)) >> : d \in Datagrams}

Judged(pkt) == IF pkt.proto = Unparsed.proto THEN Pass
               ELSE EvaluatePolicy(POLICY_TABLE, PORT_BITMAP_POOL, pkt)

\* Whatever headers come before its protocol, and wherever it ends, a frame
\* gets the verdict the listed rules ask for the datagram it is a piece of:
\* that of its protocol, and of its port if it has the ports.
FramesGetTheirVerdict ==
    Settled => \A p \in Parsed :
                   Judged(p[1]) = IF p[2].proto = Unparsed.proto THEN Pass
                                  ELSE Intended(table.rules, p[2])

\* Then the pool has the ports of the live port sets and no others.
SettledPorts == Settled => NoStalePortEntries
=============================================================================
