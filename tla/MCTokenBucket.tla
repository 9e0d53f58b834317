--------------------------- MODULE MCTokenBucket ---------------------------
(***************************************************************************)
(* A small instance of TokenBucket: two CPUs, a rule for the default group *)
(* that limits another group's egress too, and one for a group's ingress.  *)
(***************************************************************************)
EXTENDS TokenBucket, TLC

Symmetry == Permutations(Cpus)

MCPackets == { << 1, Egress, 1 >>, << 1, Egress, 2 >>, << 1, Ingress, 2 >> }

\* With two CPUs, and two ticks to the second: a token per tick and a burst
\* of two, policed or shaped; half a token per tick and a burst of one.
MCQosRules ==
    { << << 0, Egress >>, [rate_bps |-> 4, burst_bytes |-> 4, shaping |-> FALSE] >>,
      << << 0, Egress >>, [rate_bps |-> 4, burst_bytes |-> 4, shaping |-> TRUE] >>,
      << << 1, Ingress >>, [rate_bps |-> 2, burst_bytes |-> 2, shaping |-> FALSE] >> }
=============================================================================
