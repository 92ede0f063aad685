------------------------- MODULE CacheFallback_proofs -------------------------
(***************************************************************************)
(* Proofs about CacheFallback: the type invariant, the accounting of slots *)
(* and of lookups, that no stream ends early, and that the slots implement *)
(* LookupPool, for every number of requests, records, slots and every      *)
(* channel capacity.                                                       *)
(***************************************************************************)
EXTENDS CacheFallback, FiniteSetTheorems, TLAPS

(* The inductive invariant.  The bounds of slots and ongoingLookups in     *)
(* TypeOK follow from the accounting, so induction starts from a weaker    *)
(* type.                                                                   *)

Types ==
  /\ pc \in [Requests -> {"idle", "source", "dispatch", "reserved", "count",
                          "wait", "ended", "closed"}]
  /\ pulled \in [Requests -> 0 .. MaxRecords]
  /\ drained \in [Requests -> BOOLEAN]
  /\ cancelled \in [Requests -> BOOLEAN]
  /\ ongoingLookups \in [Requests -> Int]
  /\ findPeersResult \in [Requests -> Seq(Record)]
  /\ \A r \in Requests : Len(findPeersResult[r]) <= BufCap
  /\ returned \in [Requests -> Seq(Record)]
  /\ lookup \in [Lookups -> LookupState]
  /\ target \in [Lookups -> Peers \cup {NoPeer}]
  /\ answer \in [Lookups -> {"addressed", "unread", "bare"}]
  /\ slots \in Int
  /\ slots <= Cap
  /\ addrBook \in SUBSET Peers
  /\ hostPeerstore \in SUBSET Peers
  /\ backoff \in SUBSET Peers

\* A lookup starts for the last record pulled and for no other.
Placed ==
  /\ \A r \in Requests, i \in Indices : i > pulled[r] => lookup[<<r, i>>] = "idle"
  /\ \A r \in Requests : pc[r] \in {"dispatch", "reserved"} =>
       /\ pulled[r] \in Indices
       /\ lookup[<<r, pulled[r]>>] = "idle"

\* A running lookup has a peer, and has read its answer before it sends it.
Answered ==
  \A l \in Lookups : /\ lookup[l] # "idle" => target[l] \in Peers
                     /\ lookup[l] = "send" => answer[l] # "unread"

\* The peer of the record being dispatched is known.
Targeted ==
  \A r \in Requests :
    pc[r] \in {"dispatch", "reserved"} => target[<<r, pulled[r]>>] \in Peers

Control == Types /\ Placed /\ Answered /\ Targeted

IInv == Control /\ Accounting /\ NoEarlyEnd

-----------------------------------------------------------------------------
\* The sets that are counted are finite.
LEMMA FiniteCounted ==
  /\ \A r : IsFiniteSet(Counting(r)) /\ Cardinality(Counting(r)) \in 0 .. MaxRecords
  /\ IsFiniteSet(Holders) /\ Cardinality(Holders) \in Nat
<1>1. IsFiniteSet(Indices) /\ Cardinality(Indices) = MaxRecords
  BY ConstantsAssumption, FS_Interval DEF Indices
<1>2. IsFiniteSet(Lookups)
  BY <1>1, ConstantsAssumption, FS_Product DEF Lookups
<1>3. ASSUME NEW r
      PROVE  IsFiniteSet(Counting(r)) /\ Cardinality(Counting(r)) \in 0 .. MaxRecords
  <2>1. Counting(r) \in SUBSET Indices
    BY DEF Counting
  <2>2. QED
    BY <1>1, <2>1, FS_Subset, FS_CardinalityType, ConstantsAssumption
<1>4. Holders \in SUBSET Lookups
  BY DEF Holders
<1>5. QED
  BY <1>2, <1>3, <1>4, FS_Subset, FS_CardinalityType

-----------------------------------------------------------------------------
(* Control is inductive, actor by actor.                                   *)

LEMMA ControlIter ==
  ASSUME Control, NEW r \in Requests, IterStep(r) \/ CtxDone(r)
  PROVE  Control'
<1> USE DEF Control, Types, Placed, Answered, Targeted, lookupVars, cacheVars,
            Lookups, Indices, LookupState
<1>1. CASE CallNext(r)
  BY <1>1 DEF CallNext
<1>2. CASE YieldOther(r)
  <2>1. /\ pulled[r] + 1 \in Indices
        /\ [ix |-> pulled[r] + 1, kind |-> "other"] \in Record
    BY <1>2, ConstantsAssumption DEF YieldOther, Pull, Record
  <2>2. Types'
    BY <1>2, <2>1 DEF YieldOther, Pull, Return
  <2>3. Placed' /\ Answered' /\ Targeted'
    BY <1>2, <2>1 DEF YieldOther, Pull, Return
  <2>4. QED
    BY <2>2, <2>3
<1>3. CASE YieldAddressed(r)
  <2>1. /\ pulled[r] + 1 \in Indices
        /\ [ix |-> pulled[r] + 1, kind |-> "addressed"] \in Record
    BY <1>3, ConstantsAssumption DEF YieldAddressed, Pull, Record
  <2>2. Types'
    BY <1>3, <2>1 DEF YieldAddressed, Pull, Return, CacheAddrs
  <2>3. Placed' /\ Answered' /\ Targeted'
    BY <1>3, <2>1 DEF YieldAddressed, Pull, Return
  <2>4. QED
    BY <2>2, <2>3
<1>4. CASE YieldCached(r)
  <2>1. /\ pulled[r] + 1 \in Indices
        /\ [ix |-> pulled[r] + 1, kind |-> "addressed"] \in Record
    BY <1>4, ConstantsAssumption DEF YieldCached, Pull, Record
  <2>2. Types'
    BY <1>4, <2>1 DEF YieldCached, Pull, Return
  <2>3. Placed' /\ Answered' /\ Targeted'
    BY <1>4, <2>1 DEF YieldCached, Pull, Return
  <2>4. QED
    BY <2>2, <2>3
<1>5. CASE YieldMissed(r)
  <2>1. pulled[r] + 1 \in Indices /\ <<r, pulled[r] + 1>> \in Lookups
    BY <1>5, ConstantsAssumption DEF YieldMissed, Pull
  <2>2. Types'
    BY <1>5, <2>1 DEF YieldMissed, Pull
  <2>3. Placed'
    <3>1. /\ pulled' = [pulled EXCEPT ![r] = @ + 1]
          /\ pc' = [pc EXCEPT ![r] = "dispatch"]
          /\ lookup' = lookup
      BY <1>5 DEF YieldMissed, Pull
    <3>2. lookup[<<r, pulled[r] + 1>>] = "idle"
      BY <2>1, pulled[r] + 1 > pulled[r]
    <3>3. QED
      BY <3>1, <3>2, <2>1
  <2>4. Answered'
    BY <1>5, <2>1 DEF YieldMissed, Pull
  <2>5. Targeted'
    BY <1>5, <2>1 DEF YieldMissed, Pull
  <2>6. QED
    BY <2>2, <2>3, <2>4, <2>5
<1>6. CASE SourceEnds(r)
  BY <1>6 DEF SourceEnds
<1>7. CASE Decline(r)
  BY <1>7 DEF Decline
<1>8. CASE Reserve(r)
  BY <1>8, ConstantsAssumption DEF Reserve
<1>9. CASE Dispatch(r)
  BY <1>9 DEF Dispatch
<1>10. CASE CountOngoing(r)
  BY <1>10 DEF CountOngoing
<1>11. CASE ReceiveResult(r)
  <2>1. /\ Head(findPeersResult[r]) \in Record
        /\ Tail(findPeersResult[r]) \in Seq(Record)
        /\ Len(Tail(findPeersResult[r])) <= BufCap
    BY <1>11, ConstantsAssumption DEF ReceiveResult
  <2>2. returned' \in [Requests -> Seq(Record)]
    <3>1. CASE returned' = [returned EXCEPT ![r] = Append(@, Head(findPeersResult[r]))]
      BY <2>1, <3>1
    <3>2. CASE UNCHANGED returned
      BY <3>2
    <3>3. QED
      BY <1>11, <3>1, <3>2 DEF ReceiveResult, Return
  <2>3. findPeersResult' \in [Requests -> Seq(Record)]
    BY <1>11, <2>1 DEF ReceiveResult
  <2>4. Types'
    BY <1>11, <2>1, <2>2, <2>3 DEF ReceiveResult, Return
  <2>5. /\ UNCHANGED <<pulled, lookup, answer, target>>
        /\ \A q \in Requests : pc'[q] \in {"dispatch", "reserved"} => pc'[q] = pc[q]
    BY <1>11 DEF ReceiveResult, Return, lookupVars
  <2>6. Placed'
    BY <2>5
  <2>7. Answered'
    BY <2>5
  <2>8. Targeted'
    BY <2>5
  <2>9. QED
    BY <2>4, <2>6, <2>7, <2>8
<1>12. CASE WaitCancelled(r)
  BY <1>12 DEF WaitCancelled
<1>13. CASE WaitTimer(r)
  BY <1>13 DEF WaitTimer
<1>14. CASE Close(r)
  BY <1>14 DEF Close
<1>15. CASE CtxDone(r)
  BY <1>15 DEF CtxDone
<1>16. QED
  BY <1>1, <1>2, <1>3, <1>4, <1>5, <1>6, <1>7, <1>8, <1>9, <1>10, <1>11,
     <1>12, <1>13, <1>14, <1>15 DEF IterStep

\* What every step of a lookup does to its own state.
LEMMA LookupMoves ==
  ASSUME Control, NEW l \in Lookups, NEW from \in LookupState \ {"idle"},
         NEW to \in LookupState \ {"idle"}, LookupGoes(l, from, to)
  PROVE  /\ lookup' \in [Lookups -> LookupState]
         /\ lookup'[l] = to
         /\ \A k \in Lookups \ {l} : lookup'[k] = lookup[k]
         /\ target[l] \in Peers
         /\ Placed' /\ Targeted'
<1> USE DEF Control, LookupGoes, iterVars
<1>1. /\ lookup' \in [Lookups -> LookupState]
      /\ lookup'[l] = to
      /\ \A k \in Lookups \ {l} : lookup'[k] = lookup[k]
  BY DEF Types
<1>2. \A k \in Lookups : lookup'[k] = "idle" <=> lookup[k] = "idle"
  BY <1>1
<1>3. target[l] \in Peers
  BY DEF Answered
<1>4. Placed'
  <2>1. \A r \in Requests, i \in Indices : i > pulled'[r] => lookup'[<<r, i>>] = "idle"
    BY <1>2 DEF Placed, Lookups
  <2>2. \A r \in Requests : pc'[r] \in {"dispatch", "reserved"} =>
          /\ pulled'[r] \in Indices
          /\ lookup'[<<r, pulled'[r]>>] = "idle"
    BY <1>2 DEF Placed, Lookups
  <2>3. QED
    BY <2>1, <2>2 DEF Placed
<1>5. Targeted'
  BY DEF Targeted
<1>6. QED
  BY <1>1, <1>3, <1>4, <1>5

LEMMA ControlLookup ==
  ASSUME Control, NEW l \in Lookups, LookupStep(l)
  PROVE  Control'
<1> USE DEF Control
<1>1. CASE LookupCacheHit(l)
  <2>1. LookupGoes(l, "run", "check")
    BY <1>1 DEF LookupCacheHit
  <2>2. /\ lookup' \in [Lookups -> LookupState]
        /\ Placed' /\ Targeted'
    BY <2>1, LookupMoves DEF LookupState
  <2>3. Types'
    BY <1>1, <2>1, <2>2 DEF LookupCacheHit, LookupGoes, Types, iterVars, cacheVars
  <2>4. Answered'
    BY <1>1, <2>1, LookupMoves DEF LookupCacheHit, LookupGoes, LookupState, Answered, Types
  <2>5. QED
    BY <2>2, <2>3, <2>4
<1>2. CASE LookupCacheMiss(l)
  <2>1. LookupGoes(l, "run", "routing")
    BY <1>2 DEF LookupCacheMiss
  <2>2. /\ lookup' \in [Lookups -> LookupState]
        /\ Placed' /\ Targeted'
    BY <2>1, LookupMoves DEF LookupState
  <2>3. Types'
    BY <1>2, <2>1, <2>2 DEF LookupCacheMiss, LookupGoes, Types, iterVars, cacheVars
  <2>4. Answered'
    BY <1>2, <2>1, LookupMoves DEF LookupCacheMiss, LookupGoes, LookupState, Answered, Types
  <2>5. QED
    BY <2>2, <2>3, <2>4
<1>3. CASE LookupNotFound(l)
  <2>1. LookupGoes(l, "routing", "check")
    BY <1>3 DEF LookupNotFound
  <2>2. /\ lookup' \in [Lookups -> LookupState]
        /\ Placed' /\ Targeted'
    BY <2>1, LookupMoves DEF LookupState
  <2>3. Types'
    <3>1. target[l] \in Peers
      BY <2>1, LookupMoves DEF LookupState
    <3>2. addrBook' \in SUBSET Peers /\ backoff' \in SUBSET Peers
      BY <1>3, <3>1 DEF LookupNotFound, RecordFailedConnection, Types
    <3>3. QED
      BY <1>3, <2>1, <2>2, <3>2 DEF LookupNotFound, LookupGoes, Types, iterVars
  <2>4. Answered'
    BY <1>3, <2>1, LookupMoves DEF LookupNotFound, LookupGoes, LookupState, Answered, Types
  <2>5. QED
    BY <2>2, <2>3, <2>4
<1>4. CASE LookupFails(l)
  <2>1. LookupGoes(l, "routing", "check")
    BY <1>4 DEF LookupFails
  <2>2. /\ lookup' \in [Lookups -> LookupState]
        /\ Placed' /\ Targeted'
    BY <2>1, LookupMoves DEF LookupState
  <2>3. Types'
    BY <1>4, <2>1, <2>2 DEF LookupFails, LookupGoes, Types, iterVars, cacheVars
  <2>4. Answered'
    BY <1>4, <2>1, LookupMoves DEF LookupFails, LookupGoes, LookupState, Answered, Types
  <2>5. QED
    BY <2>2, <2>3, <2>4
<1>5. CASE LookupFinds(l)
  <2>1. LookupGoes(l, "routing", "check")
    BY <1>5 DEF LookupFinds
  <2>2. /\ lookup' \in [Lookups -> LookupState]
        /\ Placed' /\ Targeted'
    BY <2>1, LookupMoves DEF LookupState
  <2>3. Types'
    <3>1. target[l] \in Peers
      BY <2>1, LookupMoves DEF LookupState
    <3>2. hostPeerstore' \in SUBSET Peers
      BY <1>5, <3>1 DEF LookupFinds, Types
    <3>3. answer' \in [Lookups -> {"addressed", "unread", "bare"}]
      BY <1>5 DEF LookupFinds, Types
    <3>4. QED
      BY <1>5, <2>1, <2>2, <3>2, <3>3 DEF LookupFinds, LookupGoes, Types, iterVars
  <2>4. Answered'
    BY <1>5, <2>1, LookupMoves DEF LookupFinds, LookupGoes, LookupState, Answered, Types
  <2>5. QED
    BY <2>2, <2>3, <2>4
<1>6. CASE LookupChecksParent(l)
  <2>1. PICK to \in {"release", "send"} : LookupGoes(l, "check", to)
    BY <1>6 DEF LookupChecksParent
  <2>2. /\ lookup' \in [Lookups -> LookupState]
        /\ Placed' /\ Targeted'
    BY <2>1, LookupMoves DEF LookupState
  <2>3. /\ answer' \in [Lookups -> {"addressed", "unread", "bare"}]
        /\ lookup'[l] = "send" => answer'[l] # "unread"
    <3>1. CASE cancelled[l[1]]
      <4>1. answer' = answer /\ LookupGoes(l, "check", "release")
        BY <1>6, <3>1 DEF LookupChecksParent
      <4>2. lookup'[l] = "release"
        BY <4>1, LookupMoves DEF LookupState
      <4>3. QED
        BY <4>1, <4>2 DEF Types
    <3>2. CASE ~cancelled[l[1]]
      <4>1. PICK a \in {"addressed", "bare"} :
              answer' = [answer EXCEPT ![l] = IF @ # "unread" THEN @ ELSE a]
        BY <1>6, <3>2 DEF LookupChecksParent
      <4>2. QED
        BY <4>1 DEF Types
    <3>3. QED
      BY <3>1, <3>2
  <2>4. Types'
    BY <1>6, <2>1, <2>2, <2>3 DEF LookupChecksParent, LookupGoes, Types, iterVars, cacheVars
  <2>5. Answered'
    <3>1. \A k \in Lookups \ {l} : lookup'[k] = lookup[k] /\ answer'[k] = answer[k]
      BY <1>6, <2>1, LookupMoves DEF LookupChecksParent, LookupState, Types
    <3>2. target' = target /\ target[l] \in Peers
      BY <2>1, LookupMoves DEF LookupGoes, LookupState
    <3>3. QED
      BY <2>3, <3>1, <3>2 DEF Answered
  <2>6. QED
    BY <2>2, <2>4, <2>5
<1>7. CASE LookupSends(l)
  <2> DEFINE rec == [ix |-> l[2], kind |-> answer[l]]
             sent == Append(findPeersResult[l[1]], rec)
  <2>1. LookupGoes(l, "send", "release")
    BY <1>7 DEF LookupSends
  <2>2. /\ lookup' \in [Lookups -> LookupState]
        /\ Placed' /\ Targeted'
    BY <2>1, LookupMoves DEF LookupState
  <2>3. rec \in Record /\ l[1] \in Requests
    BY <2>1 DEF LookupGoes, Record, Types, Answered, Lookups
  <2>4. ASSUME Len(findPeersResult[l[1]]) < BufCap
        PROVE  sent \in Seq(Record) /\ Len(sent) <= BufCap
    BY <2>3, <2>4, ConstantsAssumption DEF Types
  <2> HIDE DEF rec
  <2>5. /\ findPeersResult' \in [Requests -> Seq(Record)]
        /\ \A r \in Requests : Len(findPeersResult'[r]) <= BufCap
    <3>1. CASE UNCHANGED findPeersResult
      BY <3>1 DEF Types
    <3>2. CASE /\ Len(findPeersResult[l[1]]) < BufCap
               /\ findPeersResult' = [findPeersResult EXCEPT ![l[1]] = sent]
      BY <2>3, <2>4, <3>2 DEF Types
    <3>3. QED
      BY <1>7, <3>1, <3>2 DEF LookupSends, rec
  <2>6. Types'
    BY <1>7, <2>1, <2>2, <2>5 DEF LookupSends, LookupGoes, Types, iterVars, cacheVars
  <2>7. Answered'
    BY <1>7, <2>1, LookupMoves DEF LookupSends, LookupGoes, LookupState, Answered
  <2>8. QED
    BY <2>2, <2>6, <2>7
<1>8. CASE LookupReleases(l)
  <2>1. LookupGoes(l, "release", "decrement")
    BY <1>8 DEF LookupReleases
  <2>2. /\ lookup' \in [Lookups -> LookupState]
        /\ Placed' /\ Targeted'
    BY <2>1, LookupMoves DEF LookupState
  <2>3. slots' \in Int /\ slots' <= Cap
    BY <1>8, ConstantsAssumption DEF LookupReleases, Types
  <2>4. Types'
    BY <1>8, <2>1, <2>2, <2>3 DEF LookupReleases, LookupGoes, Types, iterVars, cacheVars
  <2>5. Answered'
    BY <1>8, <2>1, LookupMoves DEF LookupReleases, LookupGoes, LookupState, Answered
  <2>6. QED
    BY <2>2, <2>4, <2>5
<1>9. CASE LookupDecrements(l)
  <2>1. LookupGoes(l, "decrement", "done")
    BY <1>9 DEF LookupDecrements
  <2>2. /\ lookup' \in [Lookups -> LookupState]
        /\ Placed' /\ Targeted'
    BY <2>1, LookupMoves DEF LookupState
  <2>3. Types'
    BY <1>9, <2>1, <2>2 DEF LookupDecrements, LookupGoes, Types, iterVars, cacheVars, Lookups
  <2>4. Answered'
    BY <1>9, <2>1, LookupMoves DEF LookupDecrements, LookupGoes, LookupState, Answered
  <2>5. QED
    BY <2>2, <2>3, <2>4
<1>10. QED
  BY <1>1, <1>2, <1>3, <1>4, <1>5, <1>6, <1>7, <1>8, <1>9 DEF LookupStep

LEMMA ControlCache ==
  ASSUME Control, NEW p \in Peers, CacheStep(p)
  PROVE  Control'
BY DEF Control, Types, Placed, Answered, Targeted, CacheStep, OutsideStep,
       iterVars, lookupVars, Identified, AddrsExpire, BackoffElapses,
       DirectFindPeers, RecordFailedConnection

LEMMA ControlStep == Control /\ [Next]_vars => Control'
<1>1. SUFFICES ASSUME Control, [Next]_vars PROVE Control'
  OBVIOUS
<1>2. CASE UNCHANGED vars
  BY <1>1, <1>2 DEF Control, Types, Placed, Answered, Targeted, vars, iterVars,
                    lookupVars, cacheVars
<1>3. QED
  BY <1>1, <1>2, ControlIter, ControlLookup, ControlCache DEF Next

-----------------------------------------------------------------------------
(* What a step does to the holders of slots: nothing, or one lookup enters *)
(* (Reserve) or leaves for good (LookupReleases).                          *)

Quiet == Holders' = Holders /\ Finished' = Finished /\ slots' = slots

Enters(l) ==
  /\ l \notin Holders \cup Finished
  /\ slots < Cap
  /\ Holders' = Holders \cup {l} /\ Finished' = Finished /\ slots' = slots + 1

Leaves(l) ==
  /\ l \in Holders
  /\ Holders' = Holders \ {l} /\ Finished' = Finished \cup {l} /\ slots' = slots - 1

\* A step that starts no goroutine and leaves the reservations alone is quiet.
LEMMA NoReservation ==
  ASSUME lookup' = lookup, slots' = slots,
         \A q \in Requests : /\ pc'[q] = "reserved" <=> pc[q] = "reserved"
                             /\ pc[q] = "reserved" => pulled'[q] = pulled[q]
  PROVE  Quiet
BY DEF Quiet, Holders, Finished, Lookups

LEMMA HoldersIter ==
  ASSUME Control, NEW r \in Requests, IterStep(r) \/ CtxDone(r)
  PROVE  Quiet \/ \E l \in Lookups : Enters(l)
<1> USE DEF Control, Types, lookupVars, cacheVars
<1>1. CASE Reserve(r)
  <2> DEFINE l == <<r, pulled[r]>>
  <2>1. l \in Lookups /\ lookup[l] = "idle" /\ pc[r] = "dispatch"
    BY <1>1 DEF Reserve, Placed, Lookups
  <2>2. l \notin Holders \cup Finished
    BY <2>1 DEF Holders, Finished, HoldsSlot, MayAnswer
  <2>3. Holders' = Holders \cup {l}
    BY <1>1, <2>1 DEF Reserve, Holders, Lookups
  <2>4. QED
    BY <1>1, <2>1, <2>2, <2>3 DEF Reserve, Enters, Finished
<1>2. CASE Dispatch(r)
  <2> DEFINE l == <<r, pulled[r]>>
  <2>1. l \in Lookups /\ lookup[l] = "idle" /\ pc[r] = "reserved"
    BY <1>2 DEF Dispatch, Placed, Lookups
  <2>2. Holders' = Holders
    BY <1>2, <2>1 DEF Dispatch, Holders, Lookups, HoldsSlot, MayAnswer
  <2>3. Finished' = Finished
    BY <1>2, <2>1 DEF Dispatch, Finished
  <2>4. QED
    BY <1>2, <2>2, <2>3 DEF Dispatch, Quiet
<1>3. CASE \/ CallNext(r) \/ SourceEnds(r) \/ Decline(r) \/ CountOngoing(r)
           \/ WaitCancelled(r) \/ WaitTimer(r) \/ Close(r) \/ CtxDone(r)
  BY <1>3, NoReservation
     DEF CallNext, SourceEnds, Decline, CountOngoing, WaitCancelled, WaitTimer,
         Close, CtxDone
<1>4. CASE YieldOther(r) \/ YieldAddressed(r) \/ YieldCached(r) \/ YieldMissed(r)
  BY <1>4, NoReservation
     DEF YieldOther, YieldAddressed, YieldCached, YieldMissed, Pull, Return
<1>5. CASE ReceiveResult(r)
  BY <1>5, NoReservation DEF ReceiveResult, Return
<1>6. QED
  BY <1>1, <1>2, <1>3, <1>4, <1>5 DEF IterStep

LEMMA HoldersLookup ==
  ASSUME Control, NEW l \in Lookups, LookupStep(l)
  PROVE  Quiet \/ Leaves(l)
<1> USE DEF Control, Types, iterVars, LookupGoes
<1>1. CASE LookupReleases(l)
  <2>1. /\ pc[l[1]] = "reserved" => l[2] # pulled[l[1]]
        /\ l[1] \in Requests
    BY <1>1 DEF LookupReleases, Placed, Lookups
  <2>2. QED
    BY <1>1, <2>1 DEF LookupReleases, Leaves, Holders, Finished, HoldsSlot, MayAnswer
<1>2. CASE LookupDecrements(l)
  BY <1>2 DEF LookupDecrements, Quiet, Holders, Finished, HoldsSlot, MayAnswer
<1>3. CASE \/ LookupCacheHit(l) \/ LookupCacheMiss(l) \/ LookupNotFound(l)
           \/ LookupFails(l) \/ LookupFinds(l) \/ LookupChecksParent(l)
           \/ LookupSends(l)
  <2>1. PICK from \in MayAnswer, to \in HoldsSlot :
          LookupGoes(l, from, to) /\ slots' = slots
    BY <1>3 DEF LookupCacheHit, LookupCacheMiss, LookupNotFound, LookupFails,
                LookupFinds, LookupChecksParent, LookupSends, HoldsSlot, MayAnswer
  <2>2. QED
    BY <2>1 DEF Quiet, Holders, Finished, HoldsSlot, MayAnswer
<1>4. QED
  BY <1>1, <1>2, <1>3 DEF LookupStep

LEMMA HoldersStep ==
  ASSUME Control, [Next]_vars
  PROVE  Quiet \/ \E l \in Lookups : Enters(l) \/ Leaves(l)
<1>1. CASE UNCHANGED vars
  BY <1>1, NoReservation DEF vars, iterVars, lookupVars
<1>2. ASSUME NEW p \in Peers, CacheStep(p) PROVE Quiet
  BY <1>2, NoReservation
     DEF CacheStep, Identified, AddrsExpire, BackoffElapses, DirectFindPeers,
         OutsideStep, iterVars, lookupVars
<1>3. QED
  BY <1>1, <1>2, HoldersIter, HoldersLookup DEF Next

-----------------------------------------------------------------------------
(* What a step does to the lookups that a request counts: nothing, or one  *)
(* starts (Dispatch) or ends (LookupDecrements).                           *)

CountKept(q) ==
  Counting(q)' = Counting(q) /\ ongoingLookups'[q] = ongoingLookups[q]

CountUp(q, i) ==
  /\ pc[q] = "reserved"
  /\ pc'[q] = "source"
  /\ i \notin Counting(q)
  /\ Counting(q)' = Counting(q) \cup {i}
  /\ ongoingLookups'[q] = ongoingLookups[q] + 1

CountDown(q, i) ==
  /\ i \in Counting(q)
  /\ Counting(q)' = Counting(q) \ {i}
  /\ ongoingLookups'[q] = ongoingLookups[q] - 1
  /\ UNCHANGED <<pc, cancelled>>

CountMoves(q) ==
  CountKept(q) \/ \E i \in Indices : CountUp(q, i) \/ CountDown(q, i)

LEMMA NoStart ==
  ASSUME lookup' = lookup, ongoingLookups' = ongoingLookups, NEW q
  PROVE  CountKept(q)
BY DEF CountKept, Counting

LEMMA CountingIter ==
  ASSUME Control, NEW r \in Requests, IterStep(r) \/ CtxDone(r), NEW q \in Requests
  PROVE  CountMoves(q)
<1>1. CASE Dispatch(r)
  <2> DEFINE i == pulled[r]
  <2>1. i \in Indices /\ <<r, i>> \in Lookups /\ lookup[<<r, i>>] = "idle"
    BY <1>1 DEF Dispatch, Control, Placed, Lookups
  <2>2. CASE q = r
    <3>1. CountUp(r, i)
      BY <1>1, <2>1
         DEF Dispatch, CountUp, Counting, Counted, HoldsSlot, MayAnswer, Control,
             Types, Lookups
    <3>2. QED
      BY <2>1, <2>2, <3>1 DEF CountMoves
  <2>3. CASE q # r
    BY <1>1, <2>3 DEF Dispatch, CountMoves, CountKept, Counting, Control, Types
  <2>4. QED
    BY <2>2, <2>3
<1>2. CASE (IterStep(r) /\ ~Dispatch(r)) \/ CtxDone(r)
  BY <1>2, NoStart
     DEF IterStep, CallNext, YieldOther, YieldAddressed, YieldCached, YieldMissed,
         Pull, SourceEnds, Decline, Reserve, CountOngoing, ReceiveResult,
         WaitCancelled, WaitTimer, Close, CtxDone, lookupVars, CountMoves
<1>3. QED
  BY <1>1, <1>2

LEMMA CountingLookup ==
  ASSUME Control, NEW l \in Lookups, LookupStep(l), NEW q \in Requests
  PROVE  CountMoves(q)
<1>1. l = <<l[1], l[2]>> /\ l[1] \in Requests /\ l[2] \in Indices
  BY DEF Lookups
<1>2. CASE LookupDecrements(l)
  <2>1. CASE q = l[1]
    <3>1. /\ lookup[l] = "decrement"
          /\ lookup' = [lookup EXCEPT ![l] = "done"]
          /\ ongoingLookups'[q] = ongoingLookups[q] - 1
          /\ UNCHANGED <<pc, cancelled>>
      BY <1>2, <2>1 DEF LookupDecrements, LookupGoes, iterVars, Control, Types
    <3>2. /\ l[2] \in Counting(q)
          /\ Counting(q)' = Counting(q) \ {l[2]}
      <4>1. l = <<q, l[2]>>
        BY <1>1, <2>1
      <4>2. \A j \in Indices :
              lookup'[<<q, j>>] = IF j = l[2] THEN "done" ELSE lookup[<<q, j>>]
        BY <1>1, <3>1, <4>1 DEF Control, Types, Lookups
      <4>3. QED
        BY <1>1, <3>1, <4>1, <4>2 DEF Counting, Counted, HoldsSlot, MayAnswer
    <3>3. CountDown(q, l[2])
      BY <3>1, <3>2 DEF CountDown
    <3>4. QED
      BY <1>1, <3>3 DEF CountMoves
  <2>2. CASE q # l[1]
    BY <1>1, <1>2, <2>2 DEF LookupDecrements, LookupGoes, CountMoves, CountKept,
                            Counting, Control, Types
  <2>3. QED
    BY <2>1, <2>2
<1>3. CASE LookupStep(l) /\ ~LookupDecrements(l)
  <2>1. PICK from \in Counted, to \in Counted :
          LookupGoes(l, from, to) /\ ongoingLookups' = ongoingLookups
    BY <1>3 DEF LookupStep, LookupCacheHit, LookupCacheMiss, LookupNotFound,
                LookupFails, LookupFinds, LookupChecksParent, LookupSends,
                LookupReleases, HoldsSlot, MayAnswer, Counted
  <2>2. Counting(q)' = Counting(q)
    BY <2>1, <1>1 DEF LookupGoes, Counting, Control, Types, Lookups
  <2>3. QED
    BY <2>1, <2>2 DEF CountMoves, CountKept
<1>4. QED
  BY <1>2, <1>3

LEMMA CountingStep ==
  ASSUME Control, [Next]_vars, NEW q \in Requests
  PROVE  CountMoves(q)
<1>1. CASE UNCHANGED vars
  BY <1>1, NoStart DEF vars, iterVars, lookupVars, CountMoves
<1>2. ASSUME NEW p \in Peers, CacheStep(p) PROVE CountMoves(q)
  BY <1>2, NoStart
     DEF CacheStep, Identified, AddrsExpire, BackoffElapses, DirectFindPeers,
         OutsideStep, lookupVars, CountMoves
<1>3. QED
  BY <1>1, <1>2, CountingIter, CountingLookup DEF Next

-----------------------------------------------------------------------------
(* The accounting and NoEarlyEnd are inductive.                            *)

LEMMA AccountingStep == IInv /\ [Next]_vars => Accounting'
<1>1. SUFFICES ASSUME IInv, [Next]_vars PROVE Accounting'
  OBVIOUS
<1> USE <1>1 DEF IInv, Accounting
<1>2. SlotAccounting'
  <2>1. CASE Quiet
    BY <2>1 DEF Quiet, SlotAccounting
  <2>2. ASSUME NEW l \in Lookups, Enters(l) PROVE SlotAccounting'
    BY <2>2, FiniteCounted, FS_AddElement DEF Enters, SlotAccounting
  <2>3. ASSUME NEW l \in Lookups, Leaves(l) PROVE SlotAccounting'
    BY <2>3, FiniteCounted, FS_RemoveElement DEF Leaves, SlotAccounting
  <2>4. QED
    BY <2>1, <2>2, <2>3, HoldersStep
<1>3. ASSUME NEW q \in Requests
      PROVE  ongoingLookups'[q] = Cardinality(Counting(q)')
  <2>1. ongoingLookups[q] = Cardinality(Counting(q))
    BY DEF CountAccounting
  <2>2. CASE CountKept(q)
    BY <2>1, <2>2 DEF CountKept
  <2>3. ASSUME NEW i \in Indices, CountUp(q, i)
        PROVE  ongoingLookups'[q] = Cardinality(Counting(q)')
    BY <2>1, <2>3, FiniteCounted, FS_AddElement DEF CountUp
  <2>4. ASSUME NEW i \in Indices, CountDown(q, i)
        PROVE  ongoingLookups'[q] = Cardinality(Counting(q)')
    BY <2>1, <2>4, FiniteCounted, FS_RemoveElement DEF CountDown
  <2>5. QED
    BY <2>2, <2>3, <2>4, CountingStep DEF CountMoves
<1>4. QED
  BY <1>2, <1>3 DEF CountAccounting

\* A stream that has ended uncancelled was so before, or ends now because it
\* counts no lookup.
LEMMA EndingStep ==
  ASSUME Control, [Next]_vars, NEW q \in Requests,
         pc'[q] = "ended", ~cancelled'[q]
  PROVE  /\ ~cancelled[q]
         /\ pc[q] = "ended" \/ (pc[q] = "count" /\ ongoingLookups[q] = 0)
<1> USE DEF Control, Types
<1>1. CASE pc' = pc /\ cancelled' = cancelled
  BY <1>1
<1>2. ASSUME NEW r \in Requests, IterStep(r) \/ CtxDone(r)
      PROVE  /\ ~cancelled[q]
             /\ pc[q] = "ended" \/ (pc[q] = "count" /\ ongoingLookups[q] = 0)
  <2>1. CASE Close(r) \/ CtxDone(r)
    BY <2>1 DEF Close, CtxDone
  <2>2. CASE CountOngoing(r) \/ WaitCancelled(r)
    BY <2>2 DEF CountOngoing, WaitCancelled
  <2>3. CASE IterStep(r) /\ ~(Close(r) \/ CountOngoing(r) \/ WaitCancelled(r))
    <3>1. cancelled' = cancelled /\ \E to : to # "ended" /\ pc' = [pc EXCEPT ![r] = to]
      BY <2>3 DEF IterStep, CallNext, YieldOther, YieldAddressed, YieldCached,
                  YieldMissed, Pull, Return, SourceEnds, Decline, Reserve,
                  Dispatch, ReceiveResult, WaitTimer
    <3>2. QED
      BY <3>1
  <2>4. QED
    BY <1>2, <2>1, <2>2, <2>3
<1>3. ASSUME NEW l \in Lookups, LookupStep(l) PROVE pc' = pc /\ cancelled' = cancelled
  BY <1>3 DEF LookupStep, LookupCacheHit, LookupCacheMiss, LookupNotFound,
              LookupFails, LookupFinds, LookupChecksParent, LookupSends,
              LookupReleases, LookupDecrements, LookupGoes, iterVars
<1>4. ASSUME NEW p \in Peers, CacheStep(p) PROVE pc' = pc /\ cancelled' = cancelled
  BY <1>4 DEF CacheStep, Identified, AddrsExpire, BackoffElapses,
              DirectFindPeers, OutsideStep, iterVars
<1>5. CASE UNCHANGED vars
  BY <1>1, <1>5 DEF vars, iterVars
<1>6. QED
  BY <1>1, <1>2, <1>3, <1>4, <1>5 DEF Next

LEMMA NoEarlyEndStep == IInv /\ [Next]_vars => NoEarlyEnd'
<1>1. SUFFICES ASSUME IInv, [Next]_vars, NEW q \in Requests,
                      pc'[q] = "ended", ~cancelled'[q]
               PROVE  Counting(q)' = {}
  BY DEF NoEarlyEnd
<1>2. Control
  BY <1>1 DEF IInv
<1>3. /\ ~cancelled[q]
      /\ pc[q] = "ended" \/ (pc[q] = "count" /\ ongoingLookups[q] = 0)
  BY <1>1, <1>2, EndingStep
<1>4. Counting(q) = {}
  <2>1. CASE pc[q] = "ended"
    BY <1>1, <1>3, <2>1 DEF IInv, NoEarlyEnd
  <2>2. CASE ongoingLookups[q] = 0
    BY <1>1, <2>2, FiniteCounted, FS_EmptySet DEF IInv, Accounting, CountAccounting
  <2>3. QED
    BY <1>3, <2>1, <2>2
<1>5. pc[q] # "reserved"
  BY <1>3
<1>6. QED
  BY <1>1, <1>2, <1>4, <1>5, CountingStep DEF CountMoves, CountKept, CountUp, CountDown

-----------------------------------------------------------------------------
LEMMA Inductive == Spec => []IInv
<1>1. IInv /\ [Next]_vars => IInv'
  BY ControlStep, AccountingStep, NoEarlyEndStep DEF IInv
<1>2. Init => IInv
  <2>1. SUFFICES ASSUME Init PROVE IInv
    OBVIOUS
  <2>2. Control
    BY <2>1, ConstantsAssumption
       DEF Init, Control, Types, Placed, Answered, Targeted, Record, LookupState,
           Lookups, Indices
  <2>3. Holders = {} /\ \A r \in Requests : Counting(r) = {}
    BY <2>1 DEF Init, Holders, Counting, HoldsSlot, MayAnswer, Counted, Lookups
  <2>4. Accounting /\ NoEarlyEnd
    BY <2>1, <2>3, FS_EmptySet
       DEF Init, Accounting, SlotAccounting, CountAccounting, NoEarlyEnd
  <2>5. QED
    BY <2>2, <2>4 DEF IInv
<1>3. QED
  BY <1>1, <1>2, PTL DEF Spec

\* Every variable keeps its type.  In particular the slots in use never exceed
\* the cap or go below zero, and no counter of ongoing lookups goes negative.
THEOREM TypeCorrect == Spec => []TypeOK
<1>1. IInv => TypeOK
  <2>1. SUFFICES ASSUME IInv PROVE slots \in 0 .. Cap
                                /\ ongoingLookups \in [Requests -> 0 .. MaxRecords]
    BY DEF IInv, Control, Types, TypeOK
  <2>2. slots \in 0 .. Cap
    BY <2>1, FiniteCounted, ConstantsAssumption
       DEF IInv, Control, Types, Accounting, SlotAccounting
  <2>3. QED
    BY <2>1, <2>2, FiniteCounted
       DEF IInv, Control, Types, Accounting, CountAccounting
<1>2. QED
  BY Inductive, <1>1, PTL

\* The slots in use are the lookups that hold one, and each iterator counts
\* exactly its unfinished lookups.
THEOREM AccountingCorrect == Spec => []Accounting
<1>1. IInv => Accounting
  BY DEF IInv
<1>2. QED
  BY Inductive, <1>1, PTL

\* Next never reports the end of an uncancelled stream while a lookup of the
\* request is still to finish.
THEOREM StreamsEndLate == Spec => []NoEarlyEnd
<1>1. IInv => NoEarlyEnd
  BY DEF IInv
<1>2. QED
  BY Inductive, <1>1, PTL

\* The slots implement LookupPool: at most Cap lookups at a time, each of
\* which enters once and leaves once.
THEOREM PoolImplemented == Spec => LookupPoolSpec
<1>1. Init => Pool!Init
  BY DEF Init, Pool!Init, Holders, Finished, HoldsSlot, MayAnswer, Lookups
<1>2. IInv /\ [Next]_vars => [Pool!Next]_(Pool!vars)
  <2>1. SUFFICES ASSUME IInv, [Next]_vars PROVE [Pool!Next]_(Pool!vars)
    OBVIOUS
  <2>2. Control /\ slots = Cardinality(Holders)
    BY <2>1 DEF IInv, Accounting, SlotAccounting
  <2>3. CASE Quiet
    BY <2>3 DEF Quiet, Pool!vars
  <2>4. ASSUME NEW l \in Lookups, Enters(l) PROVE Pool!Next
    <3>1. Pool!Cardinality(Holders) = Cardinality(Holders)
      BY DEF Pool!Cardinality, Cardinality
    <3>2. QED
      BY <2>2, <2>4, <3>1 DEF Enters, Pool!Next, Pool!Acquire
  <2>5. ASSUME NEW l \in Lookups, Leaves(l) PROVE Pool!Next
    BY <2>5 DEF Leaves, Pool!Next, Pool!Release
  <2>6. QED
    BY <2>1, <2>2, <2>3, <2>4, <2>5, HoldersStep
<1>3. QED
  BY Inductive, <1>1, <1>2, PTL DEF Spec, LookupPoolSpec, Pool!Spec
=============================================================================
