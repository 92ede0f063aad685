-------------------------- MODULE ParallelIPNS_proofs --------------------------
(***************************************************************************)
(* Proofs about ParallelIPNS, for any number of routers: its types, and    *)
(* that the verdicts of a get and of a put are those of all routers.       *)
(***************************************************************************)
EXTENDS ParallelIPNS, FiniteSetTheorems, TLAPS

Types ==
  /\ op \in {"get", "put"}
  /\ worker \in [Routers -> {"calling", "send", "exit"}]
  /\ answer \in [Routers -> {"none", "record", "notfound", "error", "stored"}]
  /\ expired \in SUBSET Routers
  /\ received \in SUBSET Routers
  /\ errs \in SUBSET Routers
  /\ result \in {"none", "record", "notfound", "error", "cancelled", "stored"}
  /\ requestDone \in BOOLEAN

\* A get ends at the first record it serves.
OneServed ==
  \/ served = {}
  \/ result = "record" /\ \E c \in Routers : served = {c}

\* A router has answered exactly when its call is over.
Called ==
  \A c \in Routers : /\ worker[c] = "calling" <=> answer[c] = "none"
                     /\ op = "get" => answer[c] # "stored"
                     /\ op = "put" => answer[c] \notin {"record", "notfound"}

\* Unless the get is decided, each answer looked at was no usable record.
Looked ==
  op = "get" =>
    /\ \A c \in received : worker[c] = "exit"
    /\ \A c \in errs : c \in received /\ answer[c] = "error"
    /\ result \in {"none", "notfound", "error"} =>
         \A c \in received : \/ answer[c] = "notfound"
                             \/ answer[c] = "record" /\ c \in expired
                             \/ c \in errs

\* "Not found" and "error" are returned at the end of the loop only.
Decided ==
  /\ op = "get" /\ result \in {"notfound", "error"} =>
       received = Routers /\ (result = "notfound" <=> errs = {})
  /\ op = "put" /\ result # "none" => \A c \in Routers : worker[c] = "exit"
  /\ op = "put" =>
       /\ result \in {"none", "stored", "error"}
       /\ result = "stored" => \A c \in Routers : answer[c] # "error"
       /\ result = "error" => \E c \in Routers : answer[c] = "error"

IInv == Types /\ OneServed /\ Called /\ Looked /\ Decided

-----------------------------------------------------------------------------
LEMMA NextIInv == IInv /\ [Next]_vars => IInv'
<1> SUFFICES ASSUME IInv, [Next]_vars PROVE IInv'
  OBVIOUS
<1> USE DEF IInv, Types, OneServed, Called, Looked, Decided, callVars
<1>1. CASE GetCancelled
  BY <1>1 DEF GetCancelled
<1>2. CASE GetFails
  BY <1>2 DEF GetFails
<1>3. CASE PutReturns
  <2>1. Types' /\ OneServed' /\ Called' /\ Looked'
    BY <1>3 DEF PutReturns
  <2>2. Decided'
    BY <1>3 DEF PutReturns
  <2> QED
    BY <2>1, <2>2
<1>4. ASSUME NEW c \in Routers, Serves(c) PROVE IInv'
  BY <1>4 DEF Serves, Receives
<1>5. ASSUME NEW c \in Routers, Ignores(c) PROVE IInv'
  BY <1>5 DEF Ignores, Receives, IsExpired
<1>6. ASSUME NEW c \in Routers, JoinsError(c) PROVE IInv'
  BY <1>6 DEF JoinsError, Receives
<1>7. ASSUME NEW c \in Routers, Answers(c) PROVE IInv'
  <2>1. PICK a \in {"record", "notfound", "error", "stored"} :
          /\ answer' = [answer EXCEPT ![c] = a]
          /\ op = "get" => a # "stored"
          /\ op = "put" => a \in {"stored", "error"}
    BY <1>7 DEF Answers
  <2> QED
    BY <2>1, <1>7 DEF Answers
<1>8. ASSUME NEW c \in Routers, GivesUp(c) PROVE IInv'
  BY <1>8 DEF GivesUp
<1>9. ASSUME NEW c \in Routers, Expires(c) PROVE IInv'
  BY <1>9 DEF Expires
<1>10. CASE RequestEnds
  BY <1>10 DEF RequestEnds
<1>11. CASE UNCHANGED vars
  BY <1>11 DEF vars
<1> QED
  BY <1>1, <1>2, <1>3, <1>4, <1>5, <1>6, <1>7, <1>8, <1>9, <1>10, <1>11 DEF Next, Loop

LEMMA Inductive == Spec => []IInv
<1>1. Init => IInv
  <2> SUFFICES ASSUME Init PROVE IInv
    OBVIOUS
  <2>1. Types
    BY DEF Init, Types
  <2>2. OneServed /\ Called /\ Looked /\ Decided
    BY DEF Init, OneServed, Called, Looked, Decided
  <2> QED
    BY <2>1, <2>2 DEF IInv
<1>2. QED
  BY <1>1, NextIInv, PTL DEF Spec

-----------------------------------------------------------------------------
\* Every variable keeps its type; at most one record is served.
THEOREM TypeCorrect == Spec => []TypeOK
<1>1. IInv => TypeOK
  <2> SUFFICES ASSUME IInv PROVE Cardinality(served) <= 1 /\ served \in SUBSET Routers
    BY DEF IInv, Types, TypeOK
  <2>1. CASE served = {}
    BY <2>1, FS_EmptySet
  <2>2. CASE \E c \in Routers : served = {c}
    <3>1. PICK c \in Routers : served = {c}
      BY <2>2
    <3>2. Cardinality({c}) = 1
      BY FS_Singleton
    <3> QED
      BY <3>1, <3>2
  <2> QED
    BY <2>1, <2>2 DEF IInv, OneServed
<1> QED
  BY <1>1, Inductive, PTL

\* A get that finds nothing has asked everyone, and tells absence from errors.
THEOREM VerdictCorrect == Spec => []VerdictJustified
<1>1. IInv => VerdictJustified
  BY DEF IInv, Types, Called, Looked, Decided, VerdictJustified
<1> QED
  BY <1>1, Inductive, PTL

\* A put has reached every router when it returns.
THEOREM PutsCover == Spec => []PutCovers
<1>1. IInv => PutCovers
  BY DEF IInv, Types, Called, Decided, PutCovers
<1> QED
  BY <1>1, Inductive, PTL
=============================================================================
