----------------------------- MODULE MergedStream -----------------------------
(***************************************************************************)
(* What parallelRouter promises about the answers of its routers merged    *)
(* into one: the results of each router are handed on in its order and     *)
(* none twice, and unless the request or the consumer stops it the merged  *)
(* stream does not end before every router has ended and every result has  *)
(* been handed on.                                                         *)
(***************************************************************************)
EXTENDS Integers

CONSTANT Routers

VARIABLES open,        \* routers that may still yield results
          yielded,     \* number of results that each has yielded
          delivered,   \* and of those handed on
          stopped,     \* the request is over or the stream closed
          ended

vars == <<open, yielded, delivered, stopped, ended>>

Init ==
  /\ open = Routers
  /\ yielded = [c \in Routers |-> 0]
  /\ delivered = [c \in Routers |-> 0]
  /\ stopped = FALSE
  /\ ended = FALSE

Yield(c) ==
  /\ c \in open
  /\ yielded' = [yielded EXCEPT ![c] = @ + 1]
  /\ UNCHANGED <<open, delivered, stopped, ended>>

Deliver(c) ==
  /\ ~ended /\ delivered[c] < yielded[c]
  /\ delivered' = [delivered EXCEPT ![c] = @ + 1]
  /\ UNCHANGED <<open, yielded, stopped, ended>>

\* Routers fail, or have yielded all their results.
Finish ==
  /\ open' \in SUBSET open
  /\ UNCHANGED <<yielded, delivered, stopped, ended>>

Stop ==
  /\ stopped' = TRUE
  /\ ended' \in {ended, TRUE}   \* Close ends the stream at once
  /\ UNCHANGED <<open, yielded, delivered>>

End ==
  /\ stopped \/ (open = {} /\ delivered = yielded)
  /\ ended' = TRUE
  /\ UNCHANGED <<open, yielded, delivered, stopped>>

Next == Stop \/ End \/ Finish \/ \E c \in Routers : Yield(c) \/ Deliver(c)

Spec == Init /\ [][Next]_vars
=============================================================================
