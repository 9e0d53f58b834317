---------------------------- MODULE MCConntrack ----------------------------
(***************************************************************************)
(* Small instances of Conntrack: one connection between a and b.           *)
(***************************************************************************)
EXTENDS Conntrack, TLC

CONSTANTS a, b

Outbound == { <<a, b>> }
Inbound == { <<b, a>> }

\* CPUs and elements are interchangeable.
Symmetry == Permutations(Cpus) \cup Permutations(Slots)
=============================================================================
