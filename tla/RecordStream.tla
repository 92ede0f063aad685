----------------------------- MODULE RecordStream -----------------------------
(***************************************************************************)
(* What a /providers or closest-peers answer promises its consumer.  The   *)
(* records of a request are looked at in order; each is returned at once,  *)
(* or is pending while its addresses are being looked up, and then is      *)
(* dropped or resolved.  Only a resolved record is returned later, and     *)
(* none twice.  Unless the request is cancelled the stream does not end    *)
(* while a record is pending.  A record resolved at the last moment may    *)
(* still be lost when the stream ends.                                     *)
(***************************************************************************)
EXTENDS Integers

CONSTANTS Requests, MaxRecords

VARIABLES status,     \* what has become of each record
          ended,      \* the stream has ended
          cancelled   \* the request has been cancelled

vars == <<status, ended, cancelled>>

Indices == 1 .. MaxRecords

Init ==
  /\ status = [r \in Requests |-> [i \in Indices |-> "unseen"]]
  /\ ended = [r \in Requests |-> FALSE]
  /\ cancelled = [r \in Requests |-> FALSE]

Becomes(r, i, from, to) ==
  /\ status[r][i] = from
  /\ status' = [status EXCEPT ![r][i] = to]
  /\ UNCHANGED <<ended, cancelled>>

Look(r, i) ==
  /\ ~ended[r]
  /\ \A j \in 1 .. i - 1 : status[r][j] # "unseen"
  /\ Becomes(r, i, "unseen", "returned") \/ Becomes(r, i, "unseen", "pending")

Drop(r, i) == Becomes(r, i, "pending", "dropped")

Resolve(r, i) == Becomes(r, i, "pending", "resolved")

Return(r, i) == ~ended[r] /\ Becomes(r, i, "resolved", "returned")

End(r) ==
  /\ ~ended[r]
  /\ cancelled[r] \/ \A i \in Indices : status[r][i] # "pending"
  /\ ended' = [ended EXCEPT ![r] = TRUE]
  /\ UNCHANGED <<status, cancelled>>

\* The consumer closes the stream, or the request context ends.
Cancel(r) ==
  /\ cancelled' = [cancelled EXCEPT ![r] = TRUE]
  /\ ended' \in {ended, [ended EXCEPT ![r] = TRUE]}
  /\ UNCHANGED status

Next ==
  \E r \in Requests :
    \/ \E i \in Indices :
         Look(r, i) \/ Drop(r, i) \/ Resolve(r, i) \/ Return(r, i)
    \/ End(r) \/ Cancel(r)

Spec == Init /\ [][Next]_vars
=============================================================================
