------------------------------- MODULE Service -------------------------------
(***************************************************************************)
(* What the process promises its requests and its backends, the DHT        *)
(* clients.  Requests run only while it serves.  It lets go of a backend   *)
(* only when no request is left, and comes to a regular stop only without  *)
(* any backend.  Anything else is an abort, which leaves them all behind.  *)
(***************************************************************************)
CONSTANTS Requests, Backends

VARIABLES phase,     \* "starting", "serving", "closing", "stopped", "aborted"
          backends,  \* the open ones
          active     \* requests being served

vars == <<phase, backends, active>>

Init == phase = "starting" /\ backends = {} /\ active = {}

Opens(B) ==
  /\ phase = "starting"
  /\ backends' = backends \cup B
  /\ UNCHANGED <<phase, active>>

Serves == phase = "starting" /\ phase' = "serving" /\ UNCHANGED <<backends, active>>

Begins(r) ==
  /\ phase = "serving"
  /\ active' = active \cup {r}
  /\ UNCHANGED <<phase, backends>>

Ends(r) ==
  /\ phase = "serving"
  /\ active' = active \ {r}
  /\ UNCHANGED <<phase, backends>>

Quiesces ==
  /\ phase = "serving" /\ active = {}
  /\ phase' = "closing"
  /\ UNCHANGED <<backends, active>>

Closes(b) ==
  /\ phase = "closing"
  /\ backends' = backends \ {b}
  /\ UNCHANGED <<phase, active>>

Stops ==
  /\ phase = "closing" /\ backends = {}
  /\ phase' = "stopped"
  /\ UNCHANGED <<backends, active>>

Aborts ==
  /\ phase \notin {"stopped", "aborted"}
  /\ phase' = "aborted"
  /\ UNCHANGED <<backends, active>>

Next ==
  \/ \E B \in SUBSET Backends : Opens(B)
  \/ \E r \in Requests : Begins(r) \/ Ends(r)
  \/ \E b \in Backends : Closes(b)
  \/ Serves \/ Quiesces \/ Stops \/ Aborts

Spec == Init /\ [][Next]_vars
=============================================================================
