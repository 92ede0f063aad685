----------------------------- MODULE ParallelIPNS -----------------------------
(***************************************************************************)
(* parallelRouter.GetIPNS and PutIPNS of server_routers.go: the same call  *)
(* to several routers at once.  A get is decided by the first usable       *)
(* record, a put waits for everybody.  An IPNS record expires while time   *)
(* passes, also between the router's own check and the answer to the user. *)
(* ErrNotSupported is counted as "notfound", as the code does.             *)
(***************************************************************************)
EXTENDS Integers, FiniteSets

CONSTANTS Routers

ASSUME ConstantsAssumption == IsFiniteSet(Routers) /\ Routers # {}

VARIABLES op,          \* "get" or "put"
          worker,      \* the call of each router
          answer,      \* what the router answered
          expired,     \* the routers whose record is past its EOL
          received,    \* answers the loop of GetIPNS has looked at
          errs,        \* the routers whose error was joined
          result,      \* "none" until the call returns
          served,      \* the routers (at most one) whose record it returned
          requestDone  \* the caller's context is done

callVars == <<received, errs, result, served>>
vars == <<op, worker, answer, expired, callVars, requestDone>>

TypeOK ==
  /\ op \in {"get", "put"}
  /\ worker \in [Routers -> {"calling", "send", "exit"}]
  /\ answer \in [Routers -> {"none", "record", "notfound", "error", "stored"}]
  /\ expired \in SUBSET Routers
  /\ received \in SUBSET Routers
  /\ errs \in SUBSET Routers
  /\ result \in {"none", "record", "notfound", "error", "cancelled", "stored"}
  /\ served \in SUBSET Routers /\ Cardinality(served) <= 1
  /\ requestDone \in BOOLEAN

Init ==
  /\ op \in {"get", "put"}
  /\ worker = [c \in Routers |-> "calling"]
  /\ answer = [c \in Routers |-> "none"]
  /\ expired = {}
  /\ received = {} /\ errs = {} /\ served = {}
  /\ result = "none"
  /\ requestDone = FALSE

Single == Cardinality(Routers) = 1

\* ctx of the workers: the call's own, cancelled when it returns.
CtxDone == requestDone \/ result # "none"

\* isExpiredIPNSRecord of the router's answer, now.
IsExpired(c) == c \in expired

-----------------------------------------------------------------------------
(* The routers, and time.                                                  *)

Answers(c) ==
  /\ worker[c] = "calling"
  /\ \E a \in IF op = "get" THEN {"record", "notfound", "error"} ELSE {"stored", "error"} :
       answer' = [answer EXCEPT ![c] = a]
  /\ worker' = [worker EXCEPT ![c] = IF op = "get" THEN "send" ELSE "exit"]
  /\ UNCHANGED <<op, expired, callVars, requestDone>>

\* Variant for WorkersExit: a worker only sends, whatever becomes of ctx.
GivesUpNever(c) == worker[c] = "send" /\ CtxDone /\ UNCHANGED vars

GivesUp(c) ==
  /\ worker[c] = "send" /\ CtxDone
  /\ worker' = [worker EXCEPT ![c] = "exit"]
  /\ UNCHANGED <<op, answer, expired, callVars, requestDone>>

Expires(c) ==
  /\ answer[c] = "record"
  /\ expired' = expired \cup {c}
  /\ UNCHANGED <<op, worker, answer, callVars, requestDone>>

RequestEnds ==
  /\ requestDone' = TRUE
  /\ UNCHANGED <<op, worker, answer, expired, callVars>>

-----------------------------------------------------------------------------
(* GetIPNS.                                                                *)

\* One iteration of the loop: the answer of c arrives.
Receives(c) ==
  /\ op = "get" /\ result = "none"
  /\ worker[c] = "send"
  /\ worker' = [worker EXCEPT ![c] = "exit"]
  /\ received' = received \cup {c}
  /\ UNCHANGED <<op, answer, expired, requestDone>>

\* Variant for TypeOK: a usable record does not end the loop.
ServesOn(c) ==
  /\ Receives(c)
  /\ answer[c] = "record" /\ ~IsExpired(c)
  /\ served' = served \cup {c}
  /\ UNCHANGED <<errs, result>>

Serves(c) ==
  /\ Receives(c)
  /\ answer[c] = "record" /\ ~IsExpired(c)
  /\ result' = "record" /\ served' = {c}
  /\ UNCHANGED errs

Ignores(c) ==
  /\ Receives(c)
  /\ \/ answer[c] = "record" /\ IsExpired(c)
     \/ answer[c] = "notfound"
  /\ UNCHANGED <<errs, result, served>>

\* Variant for VerdictJustified: an error is skipped like ErrNotFound.
IgnoresError(c) ==
  /\ Receives(c)
  /\ answer[c] = "error"
  /\ result' = IF requestDone /\ ~Single THEN "cancelled" ELSE result
  /\ UNCHANGED <<errs, served>>

\* With a single router its error is returned as it is.
JoinsError(c) ==
  /\ Receives(c)
  /\ answer[c] = "error"
  /\ IF requestDone /\ ~Single
     THEN result' = "cancelled" /\ UNCHANGED errs
     ELSE errs' = errs \cup {c} /\ UNCHANGED result
  /\ UNCHANGED served

GetCancelled ==
  /\ op = "get" /\ result = "none" /\ ~Single
  /\ received # Routers /\ requestDone
  /\ result' = "cancelled"
  /\ UNCHANGED <<op, worker, answer, expired, received, errs, served, requestDone>>

\* The loop is over.
GetFails ==
  /\ op = "get" /\ result = "none"
  /\ received = Routers
  /\ result' = IF errs = {} THEN "notfound" ELSE "error"
  /\ UNCHANGED <<op, worker, answer, expired, received, errs, served, requestDone>>

-----------------------------------------------------------------------------
(* PutIPNS: wg.Wait, then the joined errors.                               *)

\* Variant for PutCovers: the first error ends the put.
PutReturnsEarly ==
  /\ op = "put" /\ result = "none"
  /\ LET failed == {c \in Routers : answer[c] = "error"} IN
       /\ failed # {} \/ \A c \in Routers : worker[c] = "exit"
       /\ errs' = failed
       /\ result' = IF failed = {} THEN "stored" ELSE "error"
  /\ UNCHANGED <<op, worker, answer, expired, received, served, requestDone>>

PutReturns ==
  /\ op = "put" /\ result = "none"
  /\ \A c \in Routers : worker[c] = "exit"
  /\ errs' = {c \in Routers : answer[c] = "error"}
  /\ result' = IF errs' = {} THEN "stored" ELSE "error"
  /\ UNCHANGED <<op, worker, answer, expired, received, served, requestDone>>

Loop ==
  \/ GetCancelled \/ GetFails \/ PutReturns
  \/ \E c \in Routers : Serves(c) \/ Ignores(c) \/ JoinsError(c)

Next ==
  \/ Loop
  \/ \E c \in Routers : Answers(c) \/ GivesUp(c) \/ Expires(c)
  \/ RequestEnds

Spec == Init /\ [][Next]_vars

\* Goroutines run on, and a router answers once its context is done, which the
\* server's routing timeout brings about.
Fairness ==
  /\ WF_vars(Loop) /\ WF_vars(RequestEnds)
  /\ \A c \in Routers : WF_vars(GivesUp(c)) /\ WF_vars(CtxDone /\ Answers(c))

FairSpec == Spec /\ Fairness

-----------------------------------------------------------------------------
(* Properties.                                                             *)

\* "Not found" and errors are verdicts about all routers: each has answered,
\* none with a record that was valid when it was looked at, and errors are not
\* mistaken for absence nor absence for an error.
VerdictJustified ==
  op = "get" =>
    /\ result = "notfound" => /\ received = Routers
                              /\ \A c \in Routers : answer[c] = "notfound" \/ c \in expired
    /\ result = "error" => /\ received = Routers
                           /\ \E c \in Routers : answer[c] = "error"
                           /\ \A c \in Routers : answer[c] = "record" => c \in expired

\* A put reaches every router even if some fail or the request is cancelled
\* meanwhile, and is reported stored only if all of them stored it.
PutCovers ==
  op = "put" /\ result # "none" =>
    /\ \A c \in Routers : answer[c] # "none"
    /\ result = "stored" <=> \A c \in Routers : answer[c] = "stored"

\* No worker outlives its call for ever.
WorkersExit == \A c \in Routers : <>(worker[c] = "exit")
=============================================================================
