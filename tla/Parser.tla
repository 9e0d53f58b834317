------------------------------- MODULE Parser -------------------------------
(***************************************************************************)
(* How the datapath finds the protocol and the destination port of a frame *)
(* (ebpf/src/parser.rs), and frames built from a description of what they  *)
(* carry, to compare with.                                                 *)
(*                                                                         *)
(* A frame is what follows the Ethernet header: its size in octets, the    *)
(* length of the IPv4 header in words of four octets (ihl), the protocol   *)
(* field of the fixed header (next), and the words that follow the fixed   *)
(* header.  A word is a triple of two octets and the 16 bits after them:   *)
(* of an extension header the type of the next one, its length, and for    *)
(* fragments the offset and flags; of a transport header the source port   *)
(* in two halves and the destination port.  Addresses are left out.        *)
(* SkipMutant is a mistake the properties must notice.                     *)
(***************************************************************************)
EXTENDS Integers, Sequences, SequencesExt

TCP == 6
UDP == 17

HopOpts == 0
Routing == 43
Fragment == 44
DstOpts == 60
ExtensionHeaders == {HopOpts, Routing, Fragment, DstOpts}

\* None: the frame is not looked at any further and passes.
Unparsed == [proto |-> -1, port |-> 0]

\* The word that begins so many octets after the fixed header.
WordAt(f, offset) == f.words[offset \div 4 + 1]

\* The destination port of a transport header that begins there.
PortAt(f, fixed, proto, offset) ==
    IF proto \in {TCP, UDP} /\ fixed + offset + 4 <= f.size THEN WordAt(f, offset)[3] ELSE 0

ParseIpv4(f) ==
    LET header == 4 * f.ihl
    IN  IF f.ether # "ipv4" \/ f.size < 20 \/ header < 20 \/ header > f.size
        THEN Unparsed
        ELSE [proto |-> f.next, port |-> PortAt(f, 20, f.next, header - 20)]

(***************************************************************************)
(* IPv6: at most four extension headers are skipped.                       *)
(***************************************************************************)
SkipMutant(f, s) ==
    LET word   == WordAt(f, s.offset)
        length == 8 * (word[2] + 1)
    IN  IF s.stop \/ s.next \notin ExtensionHeaders THEN s
        ELSE IF 40 + s.offset + length > f.size THEN [s EXCEPT !.stop = TRUE]
        ELSE [s EXCEPT !.next = word[1], !.offset = @ + length]
Skip(f, s) ==
    LET word   == WordAt(f, s.offset)
        length == IF s.next = Fragment THEN 8 ELSE 8 * (word[2] + 1)
        later  == s.next = Fragment /\ word[3] \div 8 # 0
    IN  IF s.stop \/ s.next \notin ExtensionHeaders THEN s
        ELSE IF 40 + s.offset + 2 > f.size \/ 40 + s.offset + length > f.size
        THEN [s EXCEPT !.stop = TRUE]
        ELSE [s EXCEPT !.next = word[1], !.offset = @ + length,
                       !.is_fragment = @ \/ later]

ParseIpv6(f) ==
    LET walk[i \in 0 .. 4] ==
            IF i = 0 THEN [next |-> f.next, offset |-> 0, is_fragment |-> FALSE, stop |-> FALSE]
                     ELSE Skip(f, walk[i - 1])
        end == walk[4]
    IN  IF f.ether # "ipv6" \/ f.size < 40 \/ end.stop THEN Unparsed
        ELSE [proto |-> end.next,
              port  |-> IF end.is_fragment THEN 0 ELSE PortAt(f, 40, end.next, end.offset)]

Parse(f) == IF ParseIpv4(f) = Unparsed THEN ParseIpv6(f) ELSE ParseIpv4(f)

-----------------------------------------------------------------------------
(***************************************************************************)
(* Frames by what they carry: a description has                            *)
(*   ether    "ipv4" or "ipv6"                                             *)
(*   headers  what precedes the transport header: for IPv6 the extension   *)
(*            headers, pairs of a type and a length in units of 8 octets   *)
(*            after the first; for IPv4 the words of options               *)
(*   offset   of this fragment, 0 also for a datagram in one piece         *)
(*   proto    of the datagram                                              *)
(*   port     in the third and fourth octet after the headers: of a later  *)
(*            fragment, payload that looks like one                        *)
(*   cut      how many octets the frame is short of, 0 if it has the first *)
(*            word of the transport header                                 *)
(***************************************************************************)
IsPiece(d) ==
    /\ d.offset \in Nat /\ d.proto \in Nat /\ d.port \in Nat /\ d.cut \in Nat
    /\ \/ d.ether = "ipv4" /\ d.headers \in Seq(STRING) /\ d.offset = 0
       \/ /\ d.ether = "ipv6" /\ d.headers \in Seq(ExtensionHeaders \X Nat) /\ Len(d.headers) <= 4
          /\ d.proto \notin ExtensionHeaders
          /\ \A i \in DOMAIN d.headers : d.headers[i][1] = Fragment => d.headers[i][2] = 0
          /\ d.offset # 0 => d.headers # << >> /\ Last(d.headers)[1] = Fragment

Filler == << HopOpts, 0, 9 >>

Chain(d) == Append([i \in DOMAIN d.headers |-> d.headers[i][1]], d.proto)

Words(d) ==
    LET header(i) == << << Chain(d)[i + 1], d.headers[i][2],
                           IF d.headers[i][1] = Fragment THEN 8 * d.offset + 1 ELSE 9 >> >>
                     \o [j \in 1 .. 2 * d.headers[i][2] + 1 |-> Filler]
    IN  (IF d.ether = "ipv4" THEN [i \in DOMAIN d.headers |-> Filler]
         ELSE FlattenSeq([i \in DOMAIN d.headers |-> header(i)]))
        \o << << 0, 1, d.port >> >>

Frame(d) ==
    LET words == Words(d)
    IN  [ether |-> d.ether,
         ihl   |-> 5 + Len(d.headers),
         next  |-> IF d.ether = "ipv4" THEN d.proto ELSE Chain(d)[1],
         size  |-> (IF d.ether = "ipv4" THEN 20 ELSE 40) + 4 * Len(words) - d.cut,
         words |-> words]

\* What a frame should be judged by.  One that ends within its headers has
\* no protocol; a later fragment, or one cut in the ports, has none.
Described(d) ==
    IF d.cut > 4 THEN Unparsed
    ELSE [proto |-> d.proto,
          port  |-> IF d.proto \notin {TCP, UDP} \/ d.cut > 0 \/ d.offset # 0 THEN 0 ELSE d.port]

\* "a later fragment: its ports cannot be had": IPv4 takes its payload for
\* them.
LaterFragmentsLackPorts(d) == d.offset # 0 => Parse(Frame(d)).port = 0
=============================================================================
