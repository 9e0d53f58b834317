----------------------------- MODULE MCDatapath -----------------------------
(***************************************************************************)
(* A small instance of Datapath: three rules a packet from web to web may  *)
(* fall back between, and port texts that only deny, so that a port set    *)
(* can be shared, freed and its index recycled.                            *)
(***************************************************************************)
EXTENDS Datapath

One == << <<1, 1, 1>> >>                       \* "1"
TwoThree == << <<2, 2, 1>>, <<3, 3, 1>> >>     \* "2,3"

WebGroup == { <<"web", "10.0.0.0/8">> }

FallbackPolicies == { <<"any", "any", 0, 0>>, <<"web", "any", 6, 0>>, <<"web", "web", 0, 0>> }
DenyTexts == { AllPorts, One, TwoThree }

\* IPv6 chains of up to three extension headers, with a fragment header last
\* or not, IPv4 headers with and without options, TCP or not, cut or not.
Extensions == { << HopOpts, 0 >>, << DstOpts, 1 >> }
Chains == UNION {[1 .. n -> Extensions] : n \in 0 .. 3}

Piece(ether, headers, offset, proto, cut) ==
    [src |-> 1, dst |-> 1, dir |-> 0, ether |-> ether, headers |-> headers, offset |-> offset,
     proto |-> proto, port |-> 2, cut |-> cut]

MCDatagrams ==
    {Piece("ipv6", headers, 0, proto, cut) :
         headers \in Chains, proto \in {1, TCP}, cut \in {0, 2, 4, 6, 12}}
    \cup {Piece("ipv6", Append(headers, << Fragment, 0 >>), offset, proto, cut) :
             headers \in Chains, offset \in {0, 1}, proto \in {1, TCP}, cut \in {0, 2, 4, 6, 12}}
    \cup {Piece("ipv4", headers, 0, proto, cut) :
             headers \in {<< >>} \cup [1 .. 2 -> {"option"}], proto \in {1, TCP},
             cut \in {0, 2, 4, 6, 12}}

\* A segment and a frame that ends in its header.
MCTraffic == { Piece("ipv4", << >>, 0, TCP, 0),
               Piece("ipv6", << << HopOpts, 0 >> >>, 0, TCP, 6) }
=============================================================================
