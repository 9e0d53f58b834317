----------------------------- MODULE Admission -----------------------------
(***************************************************************************)
(* What the datapath promises about connections ("stateful firewall"): a   *)
(* packet passes only if its connection is open, and only a policy that    *)
(* permits one of its flows opens a connection.  A flow is a pair of       *)
(* endpoints; a connection is a flow and its reverse.                      *)
(***************************************************************************)
EXTENDS Naturals

CONSTANTS Flows, NoFlow

VARIABLES permitted,  \* the flows the policies in force pass
          open,       \* the flows of open connections
          passed      \* the flow of the packet decided last, if it passed

vars == << permitted, open, passed >>

Reverse(k) == << k[2], k[1] >>

Init == permitted \in SUBSET Flows /\ open = {} /\ passed = NoFlow

SetPolicy == permitted' \in SUBSET Flows /\ UNCHANGED << open, passed >>

Open(k) == /\ k \in permitted
           /\ open' = open \cup ({k, Reverse(k)} \cap Flows)
           /\ UNCHANGED << permitted, passed >>

Close == open' \in SUBSET open /\ UNCHANGED << permitted, passed >>

Pass(k) == /\ k \in open
           /\ passed' = k
           /\ open' \in SUBSET open
           /\ UNCHANGED permitted

Drop == passed' = NoFlow /\ open' \in SUBSET open /\ UNCHANGED permitted

Next == SetPolicy \/ Close \/ Drop \/ \E k \in Flows : Open(k) \/ Pass(k)

Spec == Init /\ [][Next]_vars
=============================================================================
