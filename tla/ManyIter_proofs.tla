---------------------------- MODULE ManyIter_proofs ----------------------------
(***************************************************************************)
(* Proofs about ManyIter, for any set of routers and any number of         *)
(* results: its types, that no iterator is closed under a worker, and that *)
(* the consumer sees a MergedStream.                                       *)
(***************************************************************************)
EXTENDS ManyIter, TLAPS

\* Workers exist for the iterators that find got, and for no others.
Staffed ==
  /\ pc \in {"find", "failed"} => its = {} /\ ~chClosed
  /\ \A c \in Routers : worker[c] # "none" <=> c \in its

\* The channel is closed behind the last worker, and iterators behind it.
InOrder ==
  /\ chClosed => \A c \in its : worker[c] = "exit"
  /\ pc = "closing" \/ closed # {} => chClosed

\* A result is on its way, or was handed on unless the stream was stopped.
Handed ==
  \A c \in Routers :
    /\ delivered[c] <= yielded[c]
    /\ worker[c] = "send" => delivered[c] < yielded[c]
    /\ ~CtxDone => yielded[c] = IF worker[c] = "send" THEN delivered[c] + 1 ELSE delivered[c]

\* While Close runs, cancel has been called; while Next runs, done is not set.
Stopped ==
  /\ pc \in {"drain", "closing"} => cancelled
  /\ pc = "next" => ~done

IInv == TypeOK /\ Staffed /\ InOrder /\ Handed /\ Stopped

-----------------------------------------------------------------------------
LEMMA NextIInv == IInv /\ [Next]_vars => IInv'
<1> SUFFICES ASSUME IInv, [Next]_vars PROVE IInv'
  OBVIOUS
<1> USE ConstantsAssumption
<1> USE DEF IInv, TypeOK, Staffed, InOrder, Handed, Stopped, CtxDone, consumerVars, workerVars
<1>1. CASE Find
  <2>1. TypeOK'
    BY <1>1 DEF Find
  <2>2. Staffed' /\ InOrder' /\ Stopped'
    BY <1>1 DEF Find
  <2>3. Handed'
    BY <1>1 DEF Find
  <2> QED
    BY <2>1, <2>2, <2>3
<1>2. CASE CallNext
  BY <1>2 DEF CallNext
<1>3. CASE CallClose
  BY <1>3 DEF CallClose
<1>4. CASE CloseDone
  BY <1>4 DEF CloseDone
<1>5. CASE NextEnds
  BY <1>5 DEF NextEnds
<1>6. CASE Drained
  BY <1>6 DEF Drained
<1>7. ASSUME NEW c \in Routers, NextReceives(c) PROVE IInv'
  BY <1>7 DEF NextReceives, Takes
<1>8. ASSUME NEW c \in Routers, Drains(c) PROVE IInv'
  BY <1>8 DEF Drains, Takes
<1>9. ASSUME NEW c \in Routers, CloseIter(c) PROVE IInv'
  BY <1>9 DEF CloseIter
<1>10. ASSUME NEW c \in Routers, Yields(c) PROVE IInv'
  BY <1>10 DEF Yields
<1>11. ASSUME NEW c \in Routers, RunsOut(c) PROVE IInv'
  BY <1>11 DEF RunsOut, Exits
<1>12. ASSUME NEW c \in Routers, GivesUp(c) PROVE IInv'
  BY <1>12 DEF GivesUp, Exits
<1>13. CASE CloseChannel
  BY <1>13 DEF CloseChannel
<1>14. CASE RequestEnds
  BY <1>14 DEF RequestEnds
<1>15. CASE UNCHANGED vars
  BY <1>15 DEF vars
<1> QED
  BY <1>1, <1>2, <1>3, <1>4, <1>5, <1>6, <1>7, <1>8, <1>9, <1>10, <1>11, <1>12, <1>13,
     <1>14, <1>15 DEF Next, Call, Worker

LEMMA Inductive == Spec => []IInv
<1>1. Init => IInv
  <2> SUFFICES ASSUME Init PROVE IInv
    OBVIOUS
  <2>1. TypeOK
    <3>1. 0 \in 0 .. MaxItems
      BY ConstantsAssumption
    <3>2. /\ yielded \in [Routers -> 0 .. MaxItems]
          /\ delivered \in [Routers -> 0 .. MaxItems]
      BY <3>1 DEF Init
    <3> QED
      BY <3>2 DEF Init, TypeOK
  <2>2. Staffed /\ InOrder /\ Stopped
    BY DEF Init, Staffed, InOrder, Stopped
  <2>3. Handed
    BY DEF Init, Handed, CtxDone
  <2> QED
    BY <2>1, <2>2, <2>3 DEF IInv
<1>2. QED
  BY <1>1, NextIInv, PTL DEF Spec

-----------------------------------------------------------------------------
\* Every variable keeps its type, whatever the routers do.
THEOREM TypeCorrect == Spec => []TypeOK
<1>1. IInv => TypeOK
  BY DEF IInv
<1> QED
  BY <1>1, Inductive, PTL

\* Close reaches an iterator only when no goroutine is left that could call
\* its Next.
THEOREM ClosedAreUnused == Spec => []NoUseAfterClose
<1>1. IInv => NoUseAfterClose
  BY DEF IInv, InOrder, TypeOK, NoUseAfterClose
<1> QED
  BY <1>1, Inductive, PTL

\* The merge loses, repeats and reorders nothing: it is a MergedStream.
THEOREM MergeImplemented == Spec => MergedStreamSpec
<1> DEFINE open == IF pc = "find" THEN Routers ELSE {c \in its : worker[c] # "exit"}
<1>1. Init => Stream!Init
  BY DEF Init, Stream!Init, CtxDone
<1>2. IInv /\ [Next]_vars => [Stream!Next]_(Stream!vars)
  <2> SUFFICES ASSUME IInv, [Next]_vars PROVE [Stream!Next]_(Stream!vars)
    OBVIOUS
  <2> USE DEF IInv, TypeOK, Staffed, CtxDone, consumerVars, workerVars
  <2> DEFINE Stutters == UNCHANGED <<open, yielded, delivered, CtxDone, done>>
  <2>0. Stutters => UNCHANGED Stream!vars
    BY DEF Stream!vars, CtxDone
  <2>1. CASE Find
    <3>1. open' \in SUBSET open
      BY <2>1 DEF Find
    <3> QED
      BY <3>1, <2>1 DEF Find, Stream!Next, Stream!Finish
  <2>2. CASE CallNext \/ CloseDone \/ Drained
    <3>1. Stutters
      BY <2>2 DEF CallNext, CloseDone, Drained
    <3> QED
      BY <3>1, <2>0
  <2>3. CASE CallClose
    <3>1. open' = open
      BY <2>3 DEF CallClose
    <3> QED
      BY <3>1, <2>3 DEF CallClose, Stream!Next, Stream!Stop
  <2>4. CASE NextEnds
    <3>1. open' = open /\ CtxDone' = CtxDone
      BY <2>4 DEF NextEnds
    <3>2. CtxDone \/ (open = {} /\ delivered = yielded)
      BY <2>4 DEF NextEnds, InOrder, Handed
    <3> QED
      BY <3>1, <3>2, <2>4 DEF NextEnds, Stream!Next, Stream!End
  <2>5. ASSUME NEW c \in Routers, NextReceives(c) PROVE Stream!Deliver(c)
    <3>1. open' = open
      BY <2>5 DEF NextReceives, Takes
    <3> QED
      BY <3>1, <2>5 DEF NextReceives, Takes, Stream!Deliver, Handed, Stopped
  <2>6. ASSUME NEW c \in Routers, Drains(c) PROVE Stutters
    BY <2>6 DEF Drains, Takes
  <2>7. ASSUME NEW c \in Routers, CloseIter(c) PROVE Stutters
    BY <2>7 DEF CloseIter
  <2>8. ASSUME NEW c \in Routers, Yields(c) PROVE Stream!Yield(c)
    <3>1. open' = open /\ c \in open
      BY <2>8 DEF Yields
    <3> QED
      BY <3>1, <2>8 DEF Yields, Stream!Yield
  <2>9. ASSUME NEW c \in Routers, RunsOut(c) \/ GivesUp(c) PROVE Stream!Finish
    <3>1. open' \in SUBSET open
      BY <2>9 DEF RunsOut, GivesUp, Exits
    <3> QED
      BY <3>1, <2>9 DEF RunsOut, GivesUp, Exits, Stream!Finish
  <2>10. CASE CloseChannel
    <3>1. Stutters
      BY <2>10 DEF CloseChannel
    <3> QED
      BY <3>1, <2>0
  <2>11. CASE RequestEnds
    <3>1. open' = open
      BY <2>11 DEF RequestEnds
    <3> QED
      BY <3>1, <2>11 DEF RequestEnds, Stream!Next, Stream!Stop
  <2>12. CASE UNCHANGED vars
    <3>1. Stutters
      BY <2>12 DEF vars
    <3> QED
      BY <3>1, <2>0
  <2> QED
    BY <2>0, <2>1, <2>2, <2>3, <2>4, <2>5, <2>6, <2>7, <2>8, <2>9, <2>10, <2>11, <2>12
    DEF Next, Call, Worker, Stream!Next
<1> QED
  BY <1>1, <1>2, Inductive, PTL DEF Spec, MergedStreamSpec, Stream!Spec
=============================================================================
