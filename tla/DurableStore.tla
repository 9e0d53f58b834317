---------------------------- MODULE DurableStore ----------------------------
(***************************************************************************)
(* What the write-ahead log promises (README.md: "crash-safe"): the state  *)
(* of an instance is the one its requests have led to, one after the       *)
(* other, and crashes and restarts do not show.                            *)
(***************************************************************************)
EXTENDS WalEntries

VARIABLE state

Init == state = DefaultState

Request(e) == state' = ApplyWalEntry(state, e)

Next == \E e \in Accepted(state) : Request(e)

Spec == Init /\ [][Next]_state
=============================================================================
