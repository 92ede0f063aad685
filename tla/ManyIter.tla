------------------------------- MODULE ManyIter -------------------------------
(***************************************************************************)
(* parallelRouter.find and the manyIter of server_routers.go: the answers  *)
(* of several routers merged into one iterator.  A worker goroutine per    *)
(* iterator sends its results into one unbuffered channel, another closes  *)
(* the channel when all workers are through, and the consumer (the HTTP    *)
(* handler) calls Next and Close.                                          *)
(*                                                                         *)
(* find passes the call on when there is one router and answers with an    *)
(* empty list when there is none; a manyIter exists for two or more.       *)
(***************************************************************************)
EXTENDS Integers, FiniteSets

CONSTANTS Routers,
          MaxItems     \* bound: results of one router

ASSUME ConstantsAssumption == MaxItems \in Nat

VARIABLES pc,            \* the consumer: "idle" between its calls
          its,           \* the routers whose call gave an iterator
          worker,        \* the goroutine of each iterator
          yielded,       \* results its Next has returned
          delivered,     \* results that manyIter.Next has handed on
          chClosed,      \* ch is closed
          done,
          cancelled,     \* Close has called cancel
          requestDone,   \* the context of the request is done
          closed         \* iterators on which Close was called

consumerVars == <<pc, done, cancelled, delivered, closed>>
workerVars == <<worker, yielded>>
vars == <<consumerVars, its, workerVars, chClosed, requestDone>>

TypeOK ==
  /\ pc \in {"find", "failed", "idle", "next", "drain", "closing", "closed"}
  /\ its \in SUBSET Routers
  /\ worker \in [Routers -> {"none", "next", "send", "exit"}]
  /\ yielded \in [Routers -> 0 .. MaxItems]
  /\ delivered \in [Routers -> 0 .. MaxItems]
  /\ chClosed \in BOOLEAN
  /\ done \in BOOLEAN
  /\ cancelled \in BOOLEAN
  /\ requestDone \in BOOLEAN
  /\ closed \in SUBSET its

Init ==
  /\ pc = "find"
  /\ its = {}
  /\ worker = [c \in Routers |-> "none"]
  /\ yielded = [c \in Routers |-> 0]
  /\ delivered = [c \in Routers |-> 0]
  /\ chClosed = FALSE
  /\ done = FALSE
  /\ cancelled = FALSE
  /\ requestDone = FALSE
  /\ closed = {}

\* mi.ctx, which is derived from the request's.
CtxDone == cancelled \/ requestDone

-----------------------------------------------------------------------------
\* find calls every router and merges the iterators of those that succeed.
Find ==
  /\ pc = "find"
  /\ its' \in SUBSET Routers
  /\ pc' = IF its' = {} THEN "failed" ELSE "idle"
  /\ worker' = [c \in Routers |-> IF c \in its' THEN "next" ELSE "none"]
  /\ UNCHANGED <<yielded, delivered, chClosed, done, cancelled, requestDone, closed>>

-----------------------------------------------------------------------------
(* The goroutines of newManyIter.  The iterators hold the context of the   *)
(* request, not mi.ctx: cancel does not reach a worker inside it.Next.     *)

Yields(c) ==
  /\ worker[c] = "next" /\ yielded[c] < MaxItems
  /\ worker' = [worker EXCEPT ![c] = "send"]
  /\ yielded' = [yielded EXCEPT ![c] = @ + 1]
  /\ UNCHANGED <<consumerVars, its, chClosed, requestDone>>

Exits(c) ==
  /\ worker' = [worker EXCEPT ![c] = "exit"]
  /\ UNCHANGED <<consumerVars, its, yielded, chClosed, requestDone>>

RunsOut(c) == worker[c] = "next" /\ Exits(c)

\* Variant for WorkersExit: a worker only sends, whatever becomes of ctx.
GivesUpNever(c) == worker[c] = "send" /\ CtxDone /\ UNCHANGED vars

GivesUp(c) == worker[c] = "send" /\ CtxDone /\ Exits(c)

\* The consumer takes the result of c from the channel.
Takes(c) ==
  /\ worker[c] = "send"
  /\ worker' = [worker EXCEPT ![c] = "next"]
  /\ UNCHANGED <<its, yielded, chClosed, requestDone>>

\* Variant for CloseReturns: the wait group counts every router, not only
\* those that gave an iterator.
CloseChannelCountingAll ==
  /\ ~chClosed /\ its # {}
  /\ \A c \in Routers : worker[c] = "exit"
  /\ chClosed' = TRUE
  /\ UNCHANGED <<consumerVars, its, workerVars, requestDone>>

\* Variant for MergedStreamSpec: the first worker to exit closes the channel.
CloseChannelEarly ==
  /\ ~chClosed /\ its # {}
  /\ \E c \in its : worker[c] = "exit"
  /\ chClosed' = TRUE
  /\ UNCHANGED <<consumerVars, its, workerVars, requestDone>>

CloseChannel ==
  /\ ~chClosed /\ its # {}
  /\ \A c \in its : worker[c] = "exit"
  /\ chClosed' = TRUE
  /\ UNCHANGED <<consumerVars, its, workerVars, requestDone>>

-----------------------------------------------------------------------------
(* The consumer.                                                           *)

\* Once done, Next returns false and changes nothing.
CallNext ==
  /\ pc = "idle" /\ ~done
  /\ pc' = "next"
  /\ UNCHANGED <<done, cancelled, delivered, closed, its, workerVars, chClosed, requestDone>>

\* The select of Next takes any branch that is ready.
NextReceives(c) ==
  /\ pc = "next" /\ Takes(c)
  /\ delivered' = [delivered EXCEPT ![c] = @ + 1]
  /\ pc' = "idle"
  /\ UNCHANGED <<done, cancelled, closed>>

NextEnds ==
  /\ pc = "next"
  /\ chClosed \/ CtxDone
  /\ done' = TRUE
  /\ pc' = "idle"
  /\ UNCHANGED <<cancelled, delivered, closed, its, workerVars, chClosed, requestDone>>

\* Close on an iterator that is done returns at once.
CloseDone ==
  /\ pc = "idle" /\ done
  /\ pc' = "closed"
  /\ UNCHANGED <<done, cancelled, delivered, closed, its, workerVars, chClosed, requestDone>>

CallClose ==
  /\ pc = "idle" /\ ~done
  /\ done' = TRUE /\ cancelled' = TRUE
  /\ pc' = "drain"
  /\ UNCHANGED <<delivered, closed, its, workerVars, chClosed, requestDone>>

Drains(c) ==
  /\ pc = "drain" /\ Takes(c)
  /\ UNCHANGED consumerVars

\* Variant for NoUseAfterClose: Close does not wait for the channel to close.
StopsDraining ==
  /\ pc = "drain"
  /\ pc' = "closing"
  /\ UNCHANGED <<done, cancelled, delivered, closed, its, workerVars, chClosed, requestDone>>

Drained ==
  /\ pc = "drain" /\ chClosed
  /\ pc' = "closing"
  /\ UNCHANGED <<done, cancelled, delivered, closed, its, workerVars, chClosed, requestDone>>

\* Variant for TypeOK: Close walks over all routers.
CloseIterOfAny(c) ==
  /\ pc = "closing" /\ c \in Routers \ closed
  /\ closed' = closed \cup {c}
  /\ pc' = IF closed' = Routers THEN "closed" ELSE "closing"
  /\ UNCHANGED <<done, cancelled, delivered, its, workerVars, chClosed, requestDone>>

CloseIter(c) ==
  /\ pc = "closing" /\ c \in its \ closed
  /\ closed' = closed \cup {c}
  /\ pc' = IF closed' = its THEN "closed" ELSE "closing"
  /\ UNCHANGED <<done, cancelled, delivered, its, workerVars, chClosed, requestDone>>

\* The client disconnects, or the routing timeout of the server passes.
RequestEnds ==
  /\ requestDone' = TRUE
  /\ UNCHANGED <<consumerVars, its, workerVars, chClosed>>

Worker(c) == Yields(c) \/ RunsOut(c) \/ GivesUp(c)

Call == NextEnds \/ Drained \/ \E c \in Routers : NextReceives(c) \/ Drains(c) \/ CloseIter(c)

Next ==
  \/ Find \/ CallNext \/ CallClose \/ CloseDone \/ Call
  \/ \E c \in Routers : Worker(c)
  \/ CloseChannel
  \/ RequestEnds

Spec == Init /\ [][Next]_vars

\* Goroutines run on; the server's routing timeout bounds every request; an
\* iterator may wait for its router for ever, but not once the request is over.
Fairness ==
  /\ WF_vars(Call) /\ WF_vars(CloseChannel) /\ WF_vars(RequestEnds)
  /\ \A c \in Routers : WF_vars(GivesUp(c))
  /\ \A c \in Routers : WF_vars(requestDone /\ (Yields(c) \/ RunsOut(c)))

FairSpec == Spec /\ Fairness

-----------------------------------------------------------------------------
(* Properties.                                                             *)

\* The consumer sees the merge of its routers' results, complete unless the
\* request ended or it closed the stream itself.
Stream ==
  INSTANCE MergedStream WITH
    open <- IF pc = "find" THEN Routers ELSE {c \in its : worker[c] # "exit"},
    stopped <- CtxDone, ended <- done
MergedStreamSpec == Stream!Spec

\* No iterator is closed while a worker may still call its Next or its Val.
NoUseAfterClose == \A c \in closed : worker[c] = "exit"

\* A call of Close returns: it cannot wait for ever for a worker.
CloseReturns == pc = "drain" ~> pc = "closed"

\* No worker outlives its request, even when Next gave up first.
WorkersExit == \A c \in Routers : c \in its ~> worker[c] = "exit"

\* "Already closed" (server_routers.go, on the early return of Close): an
\* iterator that is done has had its iterators closed.
CloseClosesAll == pc = "closed" => closed = its
=============================================================================
