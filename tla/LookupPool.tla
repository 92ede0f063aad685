------------------------------ MODULE LookupPool ------------------------------
(***************************************************************************)
(* What findPeerSlots promises (tryAcquireFindPeerSlot and                 *)
(* releaseFindPeerSlot in cached_addr_book.go): a set of lookups, never    *)
(* more than Cap of them, that one lookup at a time enters and leaves, and *)
(* that a lookup enters at most once.                                      *)
(***************************************************************************)
EXTENDS Integers, FiniteSets

CONSTANTS Lookups, Cap

VARIABLES holders,   \* the lookups that occupy a slot
          over       \* those that have given theirs back

vars == <<holders, over>>

Init == holders = {} /\ over = {}

Acquire(l) ==
  /\ l \notin holders \cup over
  /\ Cardinality(holders) < Cap
  /\ holders' = holders \cup {l}
  /\ UNCHANGED over

Release(l) ==
  /\ l \in holders
  /\ holders' = holders \ {l}
  /\ over' = over \cup {l}

Next == \E l \in Lookups : Acquire(l) \/ Release(l)

Spec == Init /\ [][Next]_vars
=============================================================================
