------------------------------- MODULE Ports -------------------------------
(***************************************************************************)
(* Port texts of the policy API ("80,100-200:0"): how they are parsed      *)
(* (core/src/ebpf_ops.rs parse_ports), put into a normal form              *)
(* (core/src/state.rs normalize_ports) and written to, or deleted from,    *)
(* the kernel map PORT_BITMAP_POOL.                                        *)
(*                                                                         *)
(* A text is the sequence of its comma separated parts, each a tuple       *)
(* <<start, end, digit>>: a single port has start = end, a part without    *)
(* ":digit" has the digit 1 (unwrap_or(1)).  The texts "all", "" and None  *)
(* are treated alike by every caller and are the empty sequence here.  A   *)
(* normal form is written in the same grammar ("80:1,100-200:2"), so it    *)
(* is a text too: that is how delete_port_set reads it back.               *)
(***************************************************************************)
EXTENDS Integers, Sequences, FiniteSets, SequencesExt

\* The map f after inserting v under x, or overwriting what was there.
Insert(f, x, v) == [y \in DOMAIN f \cup {x} |-> IF y = x THEN v ELSE f[y]]

AllPorts == << >>

\* The value stored for a port: 1 drops the packet, 2 passes it.
BpfAction(digit) == IF digit = 0 THEN 2 ELSE 1

\* parse_ports and normalize_ports return Err on a reversed range or a digit
\* above 1.  (A digit of 256 or more, which normalize_ports reads as an octet
\* and takes for 1, while parse_ports rejects it, is not modelled.)
ValidPorts(text) == \A i \in DOMAIN text : text[i][1] <= text[i][2] /\ text[i][3] <= 1

ParsePorts(text) ==
    [i \in DOMAIN text |-> << text[i][1], text[i][2], BpfAction(text[i][3]) >>]

\* The derived order of (u16, u16, u8).
EntryBefore(a, b) ==
    \/ a[1] < b[1]
    \/ a[1] = b[1] /\ a[2] < b[2]
    \/ a[1] = b[1] /\ a[2] = b[2] /\ a[3] < b[3]

\* Mistakes the properties of normal forms must notice.
NormalizeUnsortedMutant(text) == ParsePorts(text)
NormalizeDigitlessMutant(text) ==
    SortSeq([i \in DOMAIN text |-> << text[i][1], text[i][2], 1 >>], EntryBefore)

\* An entry goes behind those that do not come after it.
InsertSorted(sorted, entry) ==
    LET n == Cardinality({i \in DOMAIN sorted : ~EntryBefore(entry, sorted[i])})
    IN  SubSeq(sorted, 1, n) \o << entry >> \o SubSeq(sorted, n + 1, Len(sorted))

Normalize(text) ==
    LET entries == ParsePorts(text)
        sorted[n \in 0 .. Len(text)] ==
            IF n = 0 THEN << >> ELSE InsertSorted(sorted[n - 1], entries[n])
    IN  sorted[Len(text)]

(***************************************************************************)
(* PORT_BITMAP_POOL maps <<idx, port>> to a stored value.  Entries are     *)
(* inserted one port at a time, a later one overwriting an earlier one.    *)
(***************************************************************************)
PortsOf(text) == UNION {text[i][1] .. text[i][2] : i \in DOMAIN text}

\* The inserts of add_policy, in their order.
PartInserts(part) ==
    [j \in 1 .. part[2] - part[1] + 1 |-> << part[1] + j - 1, BpfAction(part[3]) >>]

Inserts(text) ==
    LET upTo[n \in 0 .. Len(text)] ==
            IF n = 0 THEN << >> ELSE upTo[n - 1] \o PartInserts(text[n])
    IN  upTo[Len(text)]

\* What the first n of them leave of the pool, for index idx.
Written(pool, idx, text, n) ==
    LET inserts == Inserts(text)
        after[m \in 0 .. n] ==
            IF m = 0 THEN pool
            ELSE Insert(after[m - 1], << idx, inserts[m][1] >>, inserts[m][2])
    IN  after[n]

WritePortSet(pool, idx, text) == Written(pool, idx, text, Len(Inserts(text)))

\* delete_port_set parses the normal form it is given and, if that fails,
\* returns before it has removed anything.
DeletePortSet(pool, idx, text) ==
    IF ValidPorts(text)
    THEN Restrict(pool, DOMAIN pool \ ({idx} \X PortsOf(text)))
    ELSE pool

\* The verdict a text asks for on one of its ports: its last entry decides.
Meaning(text) ==
    LET own == WritePortSet(<< >>, 0, text)
    IN  [port \in PortsOf(text) |-> own[<< 0, port >>]]

(***************************************************************************)
(* What a normal form should tell apart: other parts, or a part more often. *)
(***************************************************************************)
SameParts(a, b) ==
    /\ Len(a) = Len(b)
    /\ \E f \in Bijection(DOMAIN a, DOMAIN b) : \A i \in DOMAIN a : a[i] = b[f[i]]

\* No port is named twice.
DisjointParts(text) ==
    \A i, j \in DOMAIN text : i # j => text[i][2] < text[j][1] \/ text[j][2] < text[i][1]
=============================================================================
