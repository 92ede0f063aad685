---------------------------- MODULE MCCacheFallback ----------------------------
(* Instances of CacheFallback for TLC. *)
EXTENDS CacheFallback

\* The requests whose goroutines run on; the others may stop anywhere.
CONSTANT Live

MCSpec == Spec /\ Fairness(Live)

\* RequestEnds for the live requests, whatever the other requests do: no
\* request waits for the lookups of another.
RequestsEnd == \A r \in Live : RequestEnds(r)

\* LookupFinishes for the lookups of the live requests.
LookupsFinish == \A l \in Live \X Indices : LookupFinishes(l)
===============================================================================
