---------------------- MODULE CacheFallbackStream_proofs ----------------------
(***************************************************************************)
(* Proofs about what the iterator of CacheFallback makes of the records of *)
(* its source: none is returned bare or twice, and the iterator implements *)
(* RecordStream.  Both rest on one classification of the steps (Moves) and *)
(* on the inductive invariant of CacheFallback_proofs.                     *)
(***************************************************************************)
EXTENDS CacheFallback_proofs

(* Where the records of a request are.                                     *)

Ixs(s) == {s[j].ix : j \in DOMAIN s}

Once(s) == \A j, k \in DOMAIN s : s[j].ix = s[k].ix => j = k

\* The records being dispatched or looked up, whose answer is to come.
Unanswered(r) ==
  {i \in Indices : \/ lookup[<<r, i>>] \in MayAnswer
                   \/ i = pulled[r] /\ pc[r] \in {"dispatch", "reserved"}}

\* The records in a channel that have addresses.
Resolved(chan) ==
  {i \in Indices : \E j \in DOMAIN chan : chan[j] = [ix |-> i, kind |-> "addressed"]}

HasEnded(r) == pc[r] \in {"ended", "closed"}

\* A record that has been pulled is in one place at most: returned, in the
\* channel, or on its way to an answer.
OnePlace(back, chan, n, open) ==
  /\ Once(back) /\ Once(chan)
  /\ \A j \in DOMAIN back : back[j].kind # "bare"
  /\ Ixs(back) \cup Ixs(chan) \subseteq 1 .. n
  /\ Ixs(back) \cap Ixs(chan) = {}
  /\ (Ixs(back) \cup Ixs(chan)) \cap open = {}

Placement(r) ==
  OnePlace(returned[r], findPeersResult[r], pulled[r], Unanswered(r))

Placements == \A r \in Requests : Placement(r)

-----------------------------------------------------------------------------
(* Facts about sequences of records.                                       *)

LEMMA AppendIxs ==
  ASSUME NEW s \in Seq(Record), NEW rec \in Record
  PROVE  /\ Ixs(Append(s, rec)) = Ixs(s) \cup {rec.ix}
         /\ Once(s) /\ rec.ix \notin Ixs(s) => Once(Append(s, rec))
         /\ \A j \in DOMAIN Append(s, rec) :
              Append(s, rec)[j] = rec \/ \E k \in DOMAIN s : Append(s, rec)[j] = s[k]
<1> DEFINE t == Append(s, rec)
<1>1. /\ DOMAIN s = 1 .. Len(s) /\ Len(s) \in Nat
      /\ DOMAIN t = 1 .. Len(s) + 1
      /\ t[Len(s) + 1] = rec
      /\ \A j \in DOMAIN s : t[j] = s[j]
  OBVIOUS
<1>2. \A j \in DOMAIN t : j = Len(s) + 1 \/ j \in DOMAIN s
  BY <1>1
<1>3. DOMAIN s \subseteq DOMAIN t /\ Len(s) + 1 \in DOMAIN t
  BY <1>1
<1>4. Ixs(t) = Ixs(s) \cup {rec.ix}
  BY <1>1, <1>2, <1>3 DEF Ixs
<1>5. ASSUME Once(s), rec.ix \notin Ixs(s) PROVE Once(t)
  <2>1. \A j \in DOMAIN s : s[j].ix # rec.ix
    BY <1>5 DEF Ixs
  <2>2. QED
    BY <1>1, <1>2, <1>5, <2>1 DEF Once
<1>6. QED
  BY <1>1, <1>2, <1>4, <1>5

LEMMA TailIxs ==
  ASSUME NEW s \in Seq(Record), s # << >>, Once(s)
  PROVE  /\ Ixs(Tail(s)) = Ixs(s) \ {Head(s).ix}
         /\ Head(s).ix \in Ixs(s)
         /\ Once(Tail(s))
         /\ \A j \in DOMAIN Tail(s) : \E k \in DOMAIN s : Tail(s)[j] = s[k]
         /\ \A k \in DOMAIN s : s[k] = Head(s) \/ \E j \in DOMAIN Tail(s) : Tail(s)[j] = s[k]
<1> DEFINE t == Tail(s)
<1>1. /\ Len(s) \in Nat \ {0} /\ DOMAIN s = 1 .. Len(s)
      /\ DOMAIN t = 1 .. Len(s) - 1
      /\ \A j \in DOMAIN t : t[j] = s[j + 1]
      /\ Head(s) = s[1]
  OBVIOUS
<1>2. \A j \in DOMAIN t : j + 1 \in DOMAIN s /\ j + 1 # 1
  BY <1>1
<1>3. \A k \in DOMAIN s : k = 1 \/ (k - 1 \in DOMAIN t /\ t[k - 1] = s[k])
  BY <1>1
<1>4. 1 \in DOMAIN s
  BY <1>1
<1>5. \A j, k \in DOMAIN s : s[j].ix = s[k].ix => j = k
  BY DEF Once
<1>6. Ixs(t) = Ixs(s) \ {Head(s).ix}
  <2>1. ASSUME NEW i \in Ixs(t) PROVE i \in Ixs(s) \ {Head(s).ix}
    <3>1. PICK j \in DOMAIN t : i = t[j].ix
      BY DEF Ixs
    <3>2. i = s[j + 1].ix /\ j + 1 \in DOMAIN s /\ j + 1 # 1
      BY <1>1, <1>2, <3>1
    <3>3. QED
      BY <1>1, <1>4, <1>5, <3>2 DEF Ixs
  <2>2. ASSUME NEW i \in Ixs(s) \ {Head(s).ix} PROVE i \in Ixs(t)
    <3>1. PICK k \in DOMAIN s : i = s[k].ix
      BY DEF Ixs
    <3>2. k # 1
      BY <1>1, <3>1
    <3>3. QED
      BY <1>3, <3>1, <3>2 DEF Ixs
  <2>3. QED
    BY <2>1, <2>2
<1>7. Once(t)
  <2>1. SUFFICES ASSUME NEW j \in DOMAIN t, NEW k \in DOMAIN t, t[j].ix = t[k].ix
                 PROVE  j = k
    BY DEF Once
  <2>2. j + 1 = k + 1
    BY <1>1, <1>2, <1>5, <2>1
  <2>3. QED
    BY <1>1, <2>2
<1>8. QED
  BY <1>1, <1>2, <1>3, <1>4, <1>6, <1>7 DEF Ixs

-----------------------------------------------------------------------------
(* What a step does to the records of a request: nothing, or one of the    *)
(* moves below, each of which is a step of RecordStream or a stutter.      *)

Untouched(q) ==
  /\ pulled'[q] = pulled[q]
  /\ returned'[q] = returned[q]
  /\ findPeersResult'[q] = findPeersResult[q]
  /\ Unanswered(q)' = Unanswered(q)
  /\ HasEnded(q)' <=> HasEnded(q)
  /\ cancelled'[q] = cancelled[q]

GoesOn(r) ==
  /\ ~HasEnded(r) /\ ~HasEnded(r)'
  /\ cancelled'[r] = cancelled[r]

\* Next pulls a record and returns it, ...
Yields(r) ==
  /\ GoesOn(r)
  /\ pulled[r] < MaxRecords /\ pulled'[r] = pulled[r] + 1
  /\ \E kind \in {"addressed", "other"} :
       returned'[r] = Append(returned[r], [ix |-> pulled[r] + 1, kind |-> kind])
  /\ findPeersResult'[r] = findPeersResult[r]
  /\ Unanswered(r)' = Unanswered(r)

\* ... or sets out to dispatch a lookup for it.
Misses(r) ==
  /\ GoesOn(r)
  /\ pulled[r] < MaxRecords /\ pulled'[r] = pulled[r] + 1
  /\ returned'[r] = returned[r]
  /\ findPeersResult'[r] = findPeersResult[r]
  /\ Unanswered(r)' = Unanswered(r) \cup {pulled[r] + 1}

\* Record i will not be answered.
Drops(r, i) ==
  /\ pulled'[r] = pulled[r]
  /\ returned'[r] = returned[r]
  /\ findPeersResult'[r] = findPeersResult[r]
  /\ Unanswered(r)' = Unanswered(r) \ {i}
  /\ HasEnded(r)' <=> HasEnded(r)
  /\ cancelled'[r] = cancelled[r]

Sends(r, i) ==
  /\ pulled'[r] = pulled[r]
  /\ returned'[r] = returned[r]
  /\ \E kind \in {"addressed", "bare"} :
       findPeersResult'[r] = Append(findPeersResult[r], [ix |-> i, kind |-> kind])
  /\ Unanswered(r)' = Unanswered(r) \ {i}
  /\ HasEnded(r)' <=> HasEnded(r)
  /\ cancelled'[r] = cancelled[r]

Receives(r) ==
  /\ GoesOn(r)
  /\ pulled'[r] = pulled[r]
  /\ findPeersResult[r] # << >>
  /\ findPeersResult'[r] = Tail(findPeersResult[r])
  /\ IF Head(findPeersResult[r]).kind = "addressed"
     THEN returned'[r] = Append(returned[r], Head(findPeersResult[r]))
     ELSE returned'[r] = returned[r]
  /\ Unanswered(r)' = Unanswered(r)

\* The stream ends, or its context is done.
Stops(r) ==
  /\ pulled'[r] = pulled[r]
  /\ returned'[r] = returned[r]
  /\ findPeersResult'[r] = findPeersResult[r]
  /\ Unanswered(r)' = Unanswered(r)
  /\ \/ /\ ~HasEnded(r) /\ HasEnded(r)'
        /\ cancelled[r] \/ Unanswered(r) = {}
        /\ cancelled'[r] = cancelled[r]
     \/ /\ cancelled'[r]
        /\ HasEnded(r) => HasEnded(r)'

Moves(r) ==
  \/ Untouched(r) \/ Yields(r) \/ Misses(r) \/ Receives(r) \/ Stops(r)
  \/ \E i \in Unanswered(r) : Drops(r, i) \/ Sends(r, i)

\* At most the request r moves.
MovesOnly(r) == Moves(r) /\ \A q \in Requests \ {r} : Untouched(q)

\* A step that leaves the lookups of a request and its iterator alone.
LEMMA StepElsewhere ==
  ASSUME NEW q \in Requests,
         pc'[q] = pc[q], pulled'[q] = pulled[q], returned'[q] = returned[q],
         findPeersResult'[q] = findPeersResult[q], cancelled'[q] = cancelled[q],
         \A i \in Indices : lookup'[<<q, i>>] = lookup[<<q, i>>]
  PROVE  Untouched(q)
BY DEF Untouched, Unanswered, HasEnded

LEMMA IterElsewhere ==
  ASSUME Control, NEW r \in Requests, IterStep(r) \/ CtxDone(r),
         NEW q \in Requests \ {r}
  PROVE  Untouched(q)
<1>1. /\ pc'[q] = pc[q] /\ pulled'[q] = pulled[q] /\ returned'[q] = returned[q]
      /\ findPeersResult'[q] = findPeersResult[q] /\ cancelled'[q] = cancelled[q]
  BY DEF IterStep, CallNext, YieldOther, YieldAddressed, YieldCached, YieldMissed,
         Pull, Return, SourceEnds, Decline, Reserve, Dispatch, CountOngoing,
         ReceiveResult, WaitCancelled, WaitTimer, Close, CtxDone, Control, Types
<1>2. \A i \in Indices : lookup'[<<q, i>>] = lookup[<<q, i>>]
  <2>1. CASE Dispatch(r)
    BY <2>1 DEF Dispatch, Control, Types, Lookups
  <2>2. CASE ~Dispatch(r)
    BY <2>2 DEF IterStep, CallNext, YieldOther, YieldAddressed, YieldCached,
                YieldMissed, Pull, SourceEnds, Decline, Reserve, CountOngoing,
                ReceiveResult, WaitCancelled, WaitTimer, Close, CtxDone, lookupVars
  <2>3. QED
    BY <2>1, <2>2
<1>3. QED
  BY <1>1, <1>2, StepElsewhere

LEMMA IterMoves ==
  ASSUME IInv, NEW r \in Requests, IterStep(r) \/ CtxDone(r)
  PROVE  MovesOnly(r)
<1> USE DEF IInv, Control, Types
<1>1. \A q \in Requests \ {r} : Untouched(q)
  BY IterElsewhere
<1>2. SUFFICES Moves(r)
  BY <1>1 DEF MovesOnly
<1>3. CASE CallNext(r)
  BY <1>3 DEF CallNext, lookupVars, Untouched, Moves, Unanswered, HasEnded
<1>4. CASE YieldOther(r) \/ YieldAddressed(r) \/ YieldCached(r)
  <2>1. /\ pc[r] = "source" /\ pc'[r] = "idle" /\ lookup' = lookup
        /\ pulled[r] < MaxRecords /\ pulled'[r] = pulled[r] + 1
        /\ findPeersResult' = findPeersResult /\ cancelled' = cancelled
        /\ \E kind \in {"addressed", "other"} :
             returned'[r] = Append(returned[r], [ix |-> pulled[r] + 1, kind |-> kind])
    BY <1>4 DEF YieldOther, YieldAddressed, YieldCached, Pull, Return
  <2>2. Unanswered(r)' = Unanswered(r)
    BY <2>1 DEF Unanswered
  <2>3. Yields(r)
    BY <2>1, <2>2 DEF Yields, GoesOn, HasEnded
  <2>4. QED
    BY <2>3 DEF Moves
<1>5. CASE YieldMissed(r)
  <2>1. /\ pc[r] = "source" /\ pc'[r] = "dispatch" /\ lookup' = lookup
        /\ pulled[r] < MaxRecords /\ pulled'[r] = pulled[r] + 1
        /\ findPeersResult' = findPeersResult /\ cancelled' = cancelled
        /\ returned' = returned
    BY <1>5 DEF YieldMissed, Pull
  <2>2. pulled[r] + 1 \in Indices
    BY <2>1, ConstantsAssumption DEF Indices
  <2>3. Unanswered(r)' = Unanswered(r) \cup {pulled[r] + 1}
    BY <2>1, <2>2 DEF Unanswered
  <2>4. Misses(r)
    BY <2>1, <2>3 DEF Misses, GoesOn, HasEnded
  <2>5. QED
    BY <2>4 DEF Moves
<1>6. CASE SourceEnds(r) \/ WaitTimer(r)
  BY <1>6 DEF SourceEnds, WaitTimer, lookupVars, Untouched, Moves, Unanswered, HasEnded
<1>7. CASE Decline(r)
  <2>1. /\ pc[r] = "dispatch" /\ pc'[r] = "source"
        /\ UNCHANGED <<lookup, pulled, returned, findPeersResult, cancelled>>
    BY <1>7 DEF Decline, lookupVars
  <2>2. pulled[r] \in Indices /\ lookup[<<r, pulled[r]>>] = "idle"
    BY <2>1 DEF Placed
  <2>3. /\ pulled[r] \in Unanswered(r)
        /\ Unanswered(r)' = Unanswered(r) \ {pulled[r]}
    BY <2>1, <2>2 DEF Unanswered, MayAnswer
  <2>4. Drops(r, pulled[r])
    BY <2>1, <2>3 DEF Drops, HasEnded
  <2>5. QED
    BY <2>3, <2>4 DEF Moves
<1>8. CASE Reserve(r)
  <2>1. /\ pc[r] = "dispatch" /\ pc'[r] = "reserved"
        /\ UNCHANGED <<lookup, pulled, returned, findPeersResult, cancelled>>
    BY <1>8 DEF Reserve, lookupVars
  <2>2. QED
    BY <2>1 DEF Untouched, Moves, Unanswered, HasEnded
<1>9. CASE Dispatch(r)
  <2>1. /\ pc[r] = "reserved" /\ pc'[r] = "source"
        /\ UNCHANGED <<pulled, returned, findPeersResult, cancelled>>
    BY <1>9 DEF Dispatch
  <2>2. pulled[r] \in Indices /\ <<r, pulled[r]>> \in Lookups
    BY <2>1 DEF Placed, Lookups
  <2>3. \A i \in Indices :
          lookup'[<<r, i>>] = IF i = pulled[r] THEN "run" ELSE lookup[<<r, i>>]
    BY <1>9, <2>2 DEF Dispatch, Lookups
  <2>4. Unanswered(r)' = Unanswered(r)
    BY <2>1, <2>2, <2>3 DEF Unanswered, MayAnswer
  <2>5. QED
    BY <2>1, <2>4 DEF Untouched, Moves, HasEnded
<1>10. CASE CountOngoing(r)
  <2>1. /\ pc[r] = "count"
        /\ UNCHANGED <<lookup, pulled, returned, findPeersResult, cancelled>>
        /\ pc'[r] = IF ongoingLookups[r] = 0 THEN "ended" ELSE "wait"
    BY <1>10 DEF CountOngoing, lookupVars
  <2>2. Unanswered(r)' = Unanswered(r)
    BY <2>1 DEF Unanswered
  <2>3. CASE ongoingLookups[r] # 0
    BY <2>1, <2>2, <2>3 DEF Untouched, Moves, HasEnded
  <2>4. CASE ongoingLookups[r] = 0
    <3>1. Counting(r) = {}
      BY <2>4, FiniteCounted, FS_EmptySet DEF Accounting, CountAccounting
    <3>2. Unanswered(r) = {}
      BY <2>1, <3>1 DEF Unanswered, Counting, Counted, HoldsSlot
    <3>3. Stops(r)
      BY <2>1, <2>2, <2>4, <3>2 DEF Stops, HasEnded
    <3>4. QED
      BY <3>3 DEF Moves
  <2>5. QED
    BY <2>3, <2>4
<1>11. CASE ReceiveResult(r)
  <2>1. /\ pc[r] = "wait" /\ findPeersResult[r] # << >>
        /\ findPeersResult'[r] = Tail(findPeersResult[r])
        /\ pc'[r] \in {"idle", "source"}
        /\ UNCHANGED <<lookup, pulled, cancelled>>
    BY <1>11 DEF ReceiveResult, Return, lookupVars
  <2>2. IF Head(findPeersResult[r]).kind = "addressed"
        THEN returned'[r] = Append(returned[r], Head(findPeersResult[r]))
        ELSE returned'[r] = returned[r]
    BY <1>11 DEF ReceiveResult, Return
  <2>3. Unanswered(r)' = Unanswered(r)
    BY <2>1 DEF Unanswered
  <2>4. Receives(r)
    BY <2>1, <2>2, <2>3 DEF Receives, GoesOn, HasEnded
  <2>5. QED
    BY <2>4 DEF Moves
<1>12. CASE WaitCancelled(r) \/ Close(r) \/ CtxDone(r)
  <2>1. /\ UNCHANGED <<lookup, pulled, returned, findPeersResult>>
        /\ pc[r] \notin {"dispatch", "reserved"} \/ pc'[r] = pc[r]
        /\ pc'[r] \notin {"dispatch", "reserved"} \/ pc'[r] = pc[r]
        /\ cancelled'[r]
        /\ HasEnded(r) => HasEnded(r)'
    BY <1>12 DEF WaitCancelled, Close, CtxDone, lookupVars, HasEnded
  <2>2. Unanswered(r)' = Unanswered(r)
    BY <2>1 DEF Unanswered
  <2>3. Stops(r)
    BY <2>1, <2>2 DEF Stops
  <2>4. QED
    BY <2>3 DEF Moves
<1>13. QED
  BY <1>3, <1>4, <1>5, <1>6, <1>7, <1>8, <1>9, <1>10, <1>11, <1>12 DEF IterStep

LEMMA LookupStepMoves ==
  ASSUME IInv, NEW l \in Lookups, LookupStep(l)
  PROVE  MovesOnly(l[1])
<1> DEFINE r == l[1]
           i == l[2]
<1> USE DEF IInv, Control, Types
<1>1. l = <<r, i>> /\ r \in Requests /\ i \in Indices
  BY DEF Lookups
<1>2. /\ UNCHANGED iterVars
      /\ \A q \in Requests : HasEnded(q)' <=> HasEnded(q)
      /\ \A k \in Lookups \ {l} : lookup'[k] = lookup[k]
      /\ \A q \in Requests \ {r} : findPeersResult'[q] = findPeersResult[q]
  BY <1>1 DEF LookupStep, LookupCacheHit, LookupCacheMiss, LookupNotFound, LookupFails,
              LookupFinds, LookupChecksParent, LookupSends, LookupReleases,
              LookupDecrements, LookupGoes, iterVars, HasEnded
<1>3. ASSUME NEW q \in Requests \ {r} PROVE Untouched(q)
  <2>1. \A j \in Indices : <<q, j>> \in Lookups \ {l}
    BY <1>1 DEF Lookups
  <2>2. QED
    BY <1>2, <2>1, StepElsewhere DEF iterVars
<1>4. SUFFICES Moves(r)
  BY <1>1, <1>3 DEF MovesOnly
<1>5. \A j \in Indices \ {i} : lookup'[<<r, j>>] = lookup[<<r, j>>]
  BY <1>1, <1>2 DEF Lookups
<1>6. pc[r] \in {"dispatch", "reserved"} /\ lookup[l] # "idle" => i # pulled[r]
  BY <1>1 DEF Placed
\* A lookup that stays on either side of its answer changes nothing here.
<1>7. CASE /\ lookup[l] # "idle"
           /\ lookup'[l] \in MayAnswer <=> lookup[l] \in MayAnswer
           /\ findPeersResult' = findPeersResult
  <2>1. Unanswered(r)' = Unanswered(r)
    BY <1>1, <1>2, <1>5, <1>6, <1>7 DEF Unanswered, iterVars
  <2>2. QED
    BY <1>1, <1>2, <1>7, <2>1 DEF Untouched, Moves, iterVars
<1>8. CASE \/ LookupCacheHit(l) \/ LookupCacheMiss(l) \/ LookupNotFound(l)
           \/ LookupFails(l) \/ LookupFinds(l) \/ LookupReleases(l)
           \/ LookupDecrements(l)
  BY <1>7, <1>8 DEF LookupCacheHit, LookupCacheMiss, LookupNotFound, LookupFails,
                    LookupFinds, LookupReleases, LookupDecrements, LookupGoes, MayAnswer
<1>9. ASSUME lookup[l] \in MayAnswer, lookup'[l] = "release"
      PROVE  i \in Unanswered(r) /\ Unanswered(r)' = Unanswered(r) \ {i}
  <2>1. /\ lookup[<<r, i>>] \in MayAnswer
        /\ lookup'[<<r, i>>] \notin MayAnswer
        /\ pc[r] \in {"dispatch", "reserved"} => i # pulled[r]
    BY <1>1, <1>6, <1>9 DEF MayAnswer
  <2>2. pc'[r] = pc[r] /\ pulled'[r] = pulled[r]
    BY <1>2 DEF iterVars
  <2>3. QED
    BY <1>1, <1>5, <2>1, <2>2 DEF Unanswered
<1>10. CASE LookupChecksParent(l)
  <2>1. /\ lookup[l] = "check" /\ lookup'[l] \in {"release", "send"}
        /\ findPeersResult' = findPeersResult
    BY <1>10 DEF LookupChecksParent, LookupGoes
  <2>2. CASE lookup'[l] = "send"
    BY <1>7, <2>1, <2>2 DEF MayAnswer
  <2>3. CASE lookup'[l] = "release"
    <3>1. i \in Unanswered(r) /\ Unanswered(r)' = Unanswered(r) \ {i}
      BY <1>9, <2>1, <2>3 DEF MayAnswer
    <3>2. Drops(r, i)
      BY <1>1, <1>2, <2>1, <3>1 DEF Drops, iterVars
    <3>3. QED
      BY <3>1, <3>2 DEF Moves
  <2>4. QED
    BY <2>1, <2>2, <2>3
<1>11. CASE LookupSends(l)
  <2>1. lookup[l] = "send" /\ lookup'[l] = "release"
    BY <1>11 DEF LookupSends, LookupGoes
  <2>2. i \in Unanswered(r) /\ Unanswered(r)' = Unanswered(r) \ {i}
    BY <1>9, <2>1 DEF MayAnswer
  <2>3. CASE findPeersResult' = findPeersResult
    <3>1. Drops(r, i)
      BY <1>1, <1>2, <2>2, <2>3 DEF Drops, iterVars
    <3>2. QED
      BY <2>2, <3>1 DEF Moves
  <2>4. CASE findPeersResult' = [findPeersResult EXCEPT ![r] =
                                   Append(@, [ix |-> i, kind |-> answer[l]])]
    <3>1. answer[l] \in {"addressed", "bare"}
      BY <2>1 DEF Answered
    <3>2. Sends(r, i)
      BY <1>1, <1>2, <2>2, <2>4, <3>1 DEF Sends, iterVars
    <3>3. QED
      BY <2>2, <3>2 DEF Moves
  <2>5. QED
    BY <1>11, <2>3, <2>4 DEF LookupSends
<1>12. QED
  BY <1>8, <1>10, <1>11 DEF LookupStep

LEMMA StepMoves ==
  ASSUME IInv, [Next]_vars
  PROVE  (\A q \in Requests : Untouched(q)) \/ \E r \in Requests : MovesOnly(r)
<1>1. CASE UNCHANGED vars
  BY <1>1, StepElsewhere DEF vars, iterVars, lookupVars
<1>2. ASSUME NEW p \in Peers, CacheStep(p)
      PROVE  \A q \in Requests : Untouched(q)
  BY <1>2, StepElsewhere
     DEF CacheStep, Identified, AddrsExpire, BackoffElapses, DirectFindPeers,
         OutsideStep, iterVars, lookupVars
<1>3. ASSUME NEW l \in Lookups, LookupStep(l)
      PROVE  \E r \in Requests : MovesOnly(r)
  BY <1>3, LookupStepMoves DEF Lookups
<1>4. QED
  BY <1>1, <1>2, <1>3, IterMoves DEF Next

-----------------------------------------------------------------------------
(* The placement of records is inductive.                                  *)

\* Records are dispatched and looked up only once they have been pulled.
LEMMA UnansweredPulled ==
  ASSUME Control, NEW r \in Requests
  PROVE  /\ pulled[r] \in 0 .. MaxRecords /\ MaxRecords \in Nat
         /\ Unanswered(r) \subseteq 1 .. pulled[r]
         /\ 1 .. pulled[r] \subseteq Indices
<1>1. pulled[r] \in 0 .. MaxRecords /\ MaxRecords \in Nat
  BY ConstantsAssumption DEF Control, Types
<1>2. ASSUME NEW i \in Unanswered(r) PROVE i \in 1 .. pulled[r]
  <2>1. i \in Indices
    BY DEF Unanswered
  <2>2. i > pulled[r] => lookup[<<r, i>>] = "idle"
    BY <2>1 DEF Control, Placed
  <2>3. i <= pulled[r]
    BY <1>1, <2>1, <2>2 DEF Unanswered, MayAnswer, Indices
  <2>4. QED
    BY <1>1, <2>1, <2>3 DEF Indices
<1>3. QED
  BY <1>1, <1>2 DEF Indices

LEMMA PlacementMoves ==
  ASSUME Control, NEW r \in Requests, Placement(r), Moves(r)
  PROVE  Placement(r)'
<1> DEFINE n == pulled[r]
           back == returned[r]
           chan == findPeersResult[r]
           open == Unanswered(r)
<1>1. /\ n \in 0 .. MaxRecords /\ MaxRecords \in Nat
      /\ open \subseteq 1 .. n /\ 1 .. n \subseteq Indices
      /\ n + 1 \notin 1 .. n /\ 1 .. n \subseteq 1 .. n + 1 /\ n + 1 \in 1 .. n + 1
      /\ n < MaxRecords => n + 1 \in Indices
  BY UnansweredPulled DEF Indices
<1>2. back \in Seq(Record) /\ chan \in Seq(Record)
  BY DEF Control, Types
<1>3. OnePlace(back, chan, n, open)
  BY DEF Placement
<1> HIDE DEF n, back, chan, open
<1>4. SUFFICES OnePlace(returned'[r], findPeersResult'[r], pulled'[r], Unanswered(r)')
  BY DEF Placement
<1> USE DEF OnePlace
<1>5. CASE Untouched(r) \/ Stops(r)
  BY <1>3, <1>5 DEF Untouched, Stops, n, back, chan, open
<1>6. CASE Yields(r)
  <2>1. PICK kind \in {"addressed", "other"} :
          returned'[r] = Append(back, [ix |-> n + 1, kind |-> kind])
    BY <1>6 DEF Yields, n, back
  <2> DEFINE rec == [ix |-> n + 1, kind |-> kind]
  <2>2. rec \in Record /\ rec.ix = n + 1 /\ rec.kind # "bare"
    BY <1>1, <1>6 DEF Yields, Record, n
  <2>3. rec.ix \notin Ixs(back)
    BY <1>1, <1>3, <2>2
  <2> HIDE DEF rec
  <2>4. /\ Ixs(returned'[r]) = Ixs(back) \cup {n + 1}
        /\ Once(returned'[r])
        /\ \A j \in DOMAIN returned'[r] : returned'[r][j].kind # "bare"
    <3>1. returned'[r] = Append(back, rec)
      BY <2>1 DEF rec
    <3>2. QED
      BY <1>2, <1>3, <2>2, <2>3, <3>1, AppendIxs
  <2>5. pulled'[r] = n + 1 /\ findPeersResult'[r] = chan /\ Unanswered(r)' = open
    BY <1>6 DEF Yields, n, chan, open
  <2>6. QED
    BY <1>1, <1>3, <2>4, <2>5
<1>7. CASE Misses(r)
  <2>1. /\ pulled'[r] = n + 1 /\ returned'[r] = back /\ findPeersResult'[r] = chan
        /\ Unanswered(r)' = open \cup {n + 1}
    BY <1>7 DEF Misses, n, back, chan, open
  <2>2. QED
    BY <1>1, <1>3, <2>1
<1>8. ASSUME NEW i \in open, Drops(r, i)
      PROVE  OnePlace(returned'[r], findPeersResult'[r], pulled'[r], Unanswered(r)')
  <2>1. /\ pulled'[r] = n /\ returned'[r] = back /\ findPeersResult'[r] = chan
        /\ Unanswered(r)' = open \ {i}
    BY <1>8 DEF Drops, n, back, chan, open
  <2>2. QED
    BY <1>3, <2>1
<1>9. ASSUME NEW i \in open, Sends(r, i)
      PROVE  OnePlace(returned'[r], findPeersResult'[r], pulled'[r], Unanswered(r)')
  <2>1. PICK kind \in {"addressed", "bare"} :
          findPeersResult'[r] = Append(chan, [ix |-> i, kind |-> kind])
    BY <1>9 DEF Sends, chan
  <2> DEFINE rec == [ix |-> i, kind |-> kind]
  <2>2. rec \in Record /\ rec.ix = i
    BY <1>1, <1>9 DEF Record
  <2>3. i \notin Ixs(back) /\ i \notin Ixs(chan) /\ i \in 1 .. n
    BY <1>1, <1>3, <1>9
  <2> HIDE DEF rec
  <2>4. /\ Ixs(findPeersResult'[r]) = Ixs(chan) \cup {i}
        /\ Once(findPeersResult'[r])
    <3>1. findPeersResult'[r] = Append(chan, rec)
      BY <2>1 DEF rec
    <3>2. QED
      BY <1>2, <1>3, <2>2, <2>3, <3>1, AppendIxs
  <2>5. pulled'[r] = n /\ returned'[r] = back /\ Unanswered(r)' = open \ {i}
    BY <1>9 DEF Sends, n, back, open
  <2>6. QED
    BY <1>3, <2>3, <2>4, <2>5
<1>10. CASE Receives(r)
  <2>1. /\ pulled'[r] = n /\ chan # << >> /\ findPeersResult'[r] = Tail(chan)
        /\ Unanswered(r)' = open
        /\ IF Head(chan).kind = "addressed"
           THEN returned'[r] = Append(back, Head(chan)) ELSE returned'[r] = back
    BY <1>10 DEF Receives, n, back, chan, open
  <2>2. /\ Ixs(Tail(chan)) = Ixs(chan) \ {Head(chan).ix}
        /\ Head(chan).ix \in Ixs(chan)
        /\ Once(Tail(chan))
    BY <1>2, <1>3, <2>1, TailIxs
  <2>3. Head(chan) \in Record
    BY <1>2, <2>1
  <2>4. CASE Head(chan).kind = "addressed"
    <3>1. /\ Ixs(returned'[r]) = Ixs(back) \cup {Head(chan).ix}
          /\ Once(returned'[r])
          /\ \A j \in DOMAIN returned'[r] : returned'[r][j].kind # "bare"
      <4>1. returned'[r] = Append(back, Head(chan))
        BY <2>1, <2>4
      <4>2. Head(chan).ix \notin Ixs(back) /\ Head(chan).kind # "bare"
        BY <1>3, <2>2, <2>4
      <4>3. QED
        BY <1>2, <1>3, <2>3, <4>1, <4>2, AppendIxs
    <3>2. QED
      BY <1>3, <2>1, <2>2, <3>1
  <2>5. CASE Head(chan).kind # "addressed"
    BY <1>3, <2>1, <2>2, <2>5
  <2>6. QED
    BY <2>4, <2>5
<1>11. QED
  BY <1>5, <1>6, <1>7, <1>8, <1>9, <1>10 DEF Moves, open

LEMMA PlacementsInductive == Spec => []Placements
<1>1. Init => Placements
  BY DEF Init, Placements, Placement, OnePlace, Once, Ixs, Unanswered, MayAnswer, Lookups
<1>2. IInv /\ Placements /\ [Next]_vars => Placements'
  <2>1. SUFFICES ASSUME IInv, Placements, [Next]_vars, NEW q \in Requests
                 PROVE  Placement(q)'
    BY DEF Placements
  <2>2. Moves(q)
    BY <2>1, StepMoves DEF Moves, MovesOnly
  <2>3. QED
    BY <2>1, <2>2, PlacementMoves DEF Placements, IInv
<1>3. QED
  BY Inductive, <1>1, <1>2, PTL DEF Spec

\* Next returns no peer record without addresses, and no record twice, by
\* whichever of its three ways.
THEOREM StreamsAreSound == Spec => []StreamSound
<1>1. Placements => StreamSound
  BY DEF Placements, Placement, OnePlace, Once, StreamSound
<1>2. QED
  BY PlacementsInductive, <1>1, PTL

-----------------------------------------------------------------------------
(* The iterator implements RecordStream: every move is one of its steps.   *)

StatusAs(back, chan, n, open, i) ==
  IF i > n THEN "unseen"
  ELSE IF i \in Ixs(back) THEN "returned"
  ELSE IF i \in Resolved(chan) THEN "resolved"
  ELSE IF i \in open THEN "pending"
  ELSE "dropped"

LEMMA ResolvedQueued ==
  ASSUME NEW s
  PROVE  Resolved(s) \subseteq Ixs(s)
<1>1. SUFFICES ASSUME NEW k \in Indices, NEW j \in DOMAIN s,
                      s[j] = [ix |-> k, kind |-> "addressed"]
               PROVE  k \in Ixs(s)
  BY DEF Resolved
<1>2. s[j].ix = k
  BY <1>1
<1>3. QED
  BY <1>2 DEF Ixs

\* The cases of Status exclude each other.
StatusByPlace ==
  \A r \in Requests, i \in Indices :
    Control /\ Placement(r) =>
      Status(r, i) =
        StatusAs(returned[r], findPeersResult[r], pulled[r], Unanswered(r), i)

LEMMA StatusIs == StatusByPlace
<1> SUFFICES ASSUME NEW r \in Requests, NEW i \in Indices, Control, Placement(r)
             PROVE  Status(r, i) =
                      StatusAs(returned[r], findPeersResult[r], pulled[r], Unanswered(r), i)
  BY DEF StatusByPlace
<1> DEFINE a == i > pulled[r]
           b == \E j \in DOMAIN returned[r] : returned[r][j].ix = i
           c == \E j \in DOMAIN findPeersResult[r] :
                  findPeersResult[r][j] = [ix |-> i, kind |-> "addressed"]
           d == \/ lookup[<<r, i>>] \in MayAnswer
                \/ i = pulled[r] /\ pc[r] \in {"dispatch", "reserved"}
<1>1. /\ b <=> i \in Ixs(returned[r])
      /\ c <=> i \in Resolved(findPeersResult[r])
      /\ d <=> i \in Unanswered(r)
  BY DEF Ixs, Resolved, Unanswered
<1>2. c => i \in Ixs(findPeersResult[r])
  BY <1>1, ResolvedQueued
<1>3. a => i \notin 1 .. pulled[r]
  BY UnansweredPulled
<1>4. /\ ~(a /\ b) /\ ~(a /\ c) /\ ~(a /\ d)
      /\ ~(b /\ c) /\ ~(b /\ d) /\ ~(c /\ d)
  BY <1>1, <1>2, <1>3, UnansweredPulled DEF Placement, OnePlace
<1>5. Status(r, i) = CASE a -> "unseen" [] b -> "returned" [] c -> "resolved"
                       [] d -> "pending" [] OTHER -> "dropped"
  BY DEF Status
<1> HIDE DEF a, b, c, d
<1>6. Status(r, i) = IF a THEN "unseen" ELSE IF b THEN "returned"
                     ELSE IF c THEN "resolved" ELSE IF d THEN "pending" ELSE "dropped"
  BY <1>4, <1>5
<1>7. QED
  BY <1>1, <1>6 DEF StatusAs, a

StatusKept(r) == \A k \in Indices : Status(r, k)' = Status(r, k)

StatusGoes(r, i, from, to) ==
  /\ i \in Indices /\ Status(r, i) = from /\ Status(r, i)' = to
  /\ \A k \in Indices \ {i} : Status(r, k)' = Status(r, k)

SameEnd(r) == (HasEnded(r)' <=> HasEnded(r)) /\ cancelled'[r] = cancelled[r]

\* The steps of RecordStream, seen from one request.
StreamMoves(r) ==
  \/ StatusKept(r) /\ SameEnd(r)
  \/ \E i \in Indices : /\ ~HasEnded(r) /\ SameEnd(r)
                        /\ \A j \in 1 .. i - 1 : Status(r, j) # "unseen"
                        /\ \/ StatusGoes(r, i, "unseen", "returned")
                           \/ StatusGoes(r, i, "unseen", "pending")
  \/ \E i \in Indices : /\ SameEnd(r)
                        /\ \/ StatusGoes(r, i, "pending", "dropped")
                           \/ StatusGoes(r, i, "pending", "resolved")
  \/ \E i \in Indices : /\ ~HasEnded(r) /\ SameEnd(r)
                        /\ StatusGoes(r, i, "resolved", "returned")
  \/ /\ StatusKept(r)
     /\ ~HasEnded(r) /\ HasEnded(r)' /\ cancelled'[r] = cancelled[r]
     /\ cancelled[r] \/ \A i \in Indices : Status(r, i) # "pending"
  \/ StatusKept(r) /\ cancelled'[r] /\ (HasEnded(r) => HasEnded(r)')

\* What an append and a receive do to the records resolved.
LEMMA ResolvedAppend ==
  ASSUME NEW s \in Seq(Record), NEW i \in Indices, NEW kind \in {"addressed", "bare"}
  PROVE  Resolved(Append(s, [ix |-> i, kind |-> kind])) =
           IF kind = "addressed" THEN Resolved(s) \cup {i} ELSE Resolved(s)
<1> DEFINE rec == [ix |-> i, kind |-> kind]
           t == Append(s, rec)
<1>1. /\ DOMAIN s = 1 .. Len(s) /\ Len(s) \in Nat
      /\ DOMAIN t = 1 .. Len(s) + 1
      /\ t[Len(s) + 1] = rec
      /\ \A j \in DOMAIN s : t[j] = s[j]
  BY DEF Record
<1>2. /\ \A j \in DOMAIN t : j = Len(s) + 1 \/ j \in DOMAIN s
      /\ DOMAIN s \subseteq DOMAIN t /\ Len(s) + 1 \in DOMAIN t
  BY <1>1
<1>3. \A k \in Indices : rec = [ix |-> k, kind |-> "addressed"] <=> k = i /\ kind = "addressed"
  <2>1. ASSUME NEW k, rec = [ix |-> k, kind |-> "addressed"]
        PROVE  k = i /\ kind = "addressed"
    <3>1. rec.ix = k /\ rec.kind = "addressed"
      BY <2>1
    <3>2. QED
      BY <3>1
  <2>2. QED
    BY <2>1
<1> HIDE DEF rec, t
<1>4. Resolved(t) = IF kind = "addressed" THEN Resolved(s) \cup {i} ELSE Resolved(s)
  <2>1. \A k \in Indices : k \in Resolved(t) <=> k \in Resolved(s) \/ (k = i /\ kind = "addressed")
    BY <1>1, <1>2, <1>3 DEF Resolved
  <2>2. Resolved(t) \subseteq Indices /\ Resolved(s) \subseteq Indices
    BY DEF Resolved
  <2>3. QED
    BY <2>1, <2>2
<1>5. QED
  BY <1>4 DEF t, rec

LEMMA ResolvedTail ==
  ASSUME NEW s \in Seq(Record), s # << >>, Once(s)
  PROVE  /\ Resolved(Tail(s)) = Resolved(s) \ {Head(s).ix}
         /\ Head(s).ix \in Indices
         /\ Head(s).ix \in Resolved(s) <=> Head(s).kind = "addressed"
<1>1. /\ Head(s) \in Record
      /\ 1 \in DOMAIN s /\ s[1] = Head(s)
  OBVIOUS
<1>2. Head(s).ix \in Indices /\ Head(s) = [ix |-> Head(s).ix, kind |-> Head(s).kind]
  BY <1>1 DEF Record
<1>3. \A j \in DOMAIN s : s[j].ix = Head(s).ix => j = 1
  BY <1>1 DEF Once
<1>4. Head(s).ix \in Resolved(s) <=> Head(s).kind = "addressed"
  <2>1. ASSUME Head(s).ix \in Resolved(s) PROVE Head(s).kind = "addressed"
    <3>1. PICK j \in DOMAIN s : s[j] = [ix |-> Head(s).ix, kind |-> "addressed"]
      BY <2>1 DEF Resolved
    <3>2. s[j].ix = Head(s).ix /\ s[j].kind = "addressed"
      BY <3>1
    <3>3. QED
      BY <1>1, <1>3, <3>2
  <2>2. ASSUME Head(s).kind = "addressed" PROVE Head(s).ix \in Resolved(s)
    BY <1>1, <1>2, <2>2 DEF Resolved
  <2>3. QED
    BY <2>1, <2>2
<1>6. ASSUME NEW k \in Resolved(Tail(s)) PROVE k \in Resolved(s) \ {Head(s).ix}
  <2>1. PICK j \in DOMAIN Tail(s) : Tail(s)[j] = [ix |-> k, kind |-> "addressed"]
    BY DEF Resolved
  <2>2. k \in Ixs(Tail(s))
    <3>1. Tail(s)[j].ix = k
      BY <2>1
    <3>2. QED
      BY <3>1 DEF Ixs
  <2>3. \E m \in DOMAIN s : Tail(s)[j] = s[m]
    BY TailIxs
  <2>4. QED
    BY <2>1, <2>2, <2>3, TailIxs DEF Resolved
<1>7. ASSUME NEW k \in Resolved(s) \ {Head(s).ix} PROVE k \in Resolved(Tail(s))
  <2>1. PICK m \in DOMAIN s : s[m] = [ix |-> k, kind |-> "addressed"]
    BY DEF Resolved
  <2>2. s[m].ix = k
    BY <2>1
  <2>3. s[m] # Head(s)
    BY <2>2
  <2>4. QED
    BY <2>1, <2>3, TailIxs DEF Resolved
<1>8. QED
  BY <1>2, <1>4, <1>6, <1>7

LEMMA MovesAreStreamMoves ==
  ASSUME Control, NEW r \in Requests, Placement(r), Control', Placement(r)', Moves(r)
  PROVE  StreamMoves(r)
<1> DEFINE n == pulled[r]
           back == returned[r]
           chan == findPeersResult[r]
           open == Unanswered(r)
           After(k) == StatusAs(returned'[r], findPeersResult'[r], pulled'[r],
                                Unanswered(r)', k)
<1>1. /\ n \in 0 .. MaxRecords /\ MaxRecords \in Nat
      /\ open \subseteq 1 .. n /\ 1 .. n \subseteq Indices
      /\ back \in Seq(Record) /\ chan \in Seq(Record)
  BY UnansweredPulled DEF Control, Types
<1>2. OnePlace(back, chan, n, open)
  BY DEF Placement
<1>3. \A k \in Indices : Status(r, k) = StatusAs(back, chan, n, open, k)
  BY StatusIs DEF StatusByPlace
<1>4. \A k \in Indices : Status(r, k)' = After(k)
  <2>1. StatusByPlace'
    BY StatusIs, PTL
  <2>2. QED
    BY <2>1 DEF StatusByPlace, StatusAs, Ixs, Resolved
<1>5. \A k \in Indices : (k > n <=> k \notin 1 .. n) /\ (k > n + 1 <=> k \notin 1 .. n + 1)
  BY <1>1 DEF Indices
<1> HIDE DEF n, back, chan, open
<1> USE DEF StreamMoves, StatusKept, StatusGoes, SameEnd
<1>6. CASE Untouched(r) \/ Stops(r)
  <2>1. StatusKept(r)
    BY <1>3, <1>4, <1>6 DEF Untouched, Stops, n, back, chan, open
  <2>2. CASE Untouched(r)
    BY <2>1, <2>2 DEF Untouched
  <2>3. ASSUME Unanswered(r) = {}, NEW k \in Indices PROVE Status(r, k) # "pending"
    BY <1>3, <2>3 DEF StatusAs, open
  <2>4. CASE Stops(r)
    BY <2>1, <2>3, <2>4 DEF Stops
  <2>5. QED
    BY <1>6, <2>2, <2>4
<1>7. CASE Yields(r)
  <2>1. PICK kind \in {"addressed", "other"} :
          returned'[r] = Append(back, [ix |-> n + 1, kind |-> kind])
    BY <1>7 DEF Yields, n, back
  <2>2. n + 1 \in Indices /\ [ix |-> n + 1, kind |-> kind] \in Record
    BY <1>1, <1>7 DEF Yields, Indices, Record, n
  <2>3. Ixs(returned'[r]) = Ixs(back) \cup {n + 1}
    BY <1>1, <2>1, <2>2, AppendIxs
  <2>4. /\ pulled'[r] = n + 1 /\ findPeersResult'[r] = chan /\ Unanswered(r)' = open
        /\ ~HasEnded(r) /\ SameEnd(r)
    BY <1>7 DEF Yields, GoesOn, n, chan, open
  <2>5. PICK i \in Indices : i = n + 1
    BY <2>2
  <2>6. \A k \in Indices \ {i} : Status(r, k)' = Status(r, k)
    BY <1>1, <1>3, <1>4, <2>3, <2>4, <2>5 DEF StatusAs, Indices
  <2>7. Status(r, i) = "unseen" /\ Status(r, i)' = "returned"
    BY <1>1, <1>3, <1>4, <2>3, <2>4, <2>5 DEF StatusAs
  <2>8. \A j \in 1 .. i - 1 : Status(r, j) # "unseen"
    BY <1>1, <1>3, <2>5 DEF StatusAs
  <2>9. QED
    BY <2>4, <2>6, <2>7, <2>8
<1>8. CASE Misses(r)
  <2>1. /\ pulled'[r] = n + 1 /\ returned'[r] = back /\ findPeersResult'[r] = chan
        /\ Unanswered(r)' = open \cup {n + 1}
        /\ ~HasEnded(r) /\ SameEnd(r)
        /\ n < MaxRecords
    BY <1>8 DEF Misses, GoesOn, n, back, chan, open
  <2>2. n + 1 \in Indices
    BY <1>1, <2>1 DEF Indices
  <2>3. n + 1 \notin Ixs(back) /\ n + 1 \notin Resolved(chan)
    <3>1. n + 1 \notin Ixs(back) /\ n + 1 \notin Ixs(chan)
      BY <1>1, <1>2 DEF OnePlace
    <3>2. QED
      BY <3>1, ResolvedQueued
  <2>4. PICK i \in Indices : i = n + 1
    BY <2>2
  <2>5. \A k \in Indices \ {i} : Status(r, k)' = Status(r, k)
    BY <1>1, <1>3, <1>4, <2>1, <2>4 DEF StatusAs, Indices
  <2>6. Status(r, i) = "unseen" /\ Status(r, i)' = "pending"
    BY <1>1, <1>3, <1>4, <2>1, <2>3, <2>4 DEF StatusAs
  <2>7. \A j \in 1 .. i - 1 : Status(r, j) # "unseen"
    BY <1>1, <1>3, <2>4 DEF StatusAs
  <2>8. QED
    BY <2>1, <2>5, <2>6, <2>7
\* What is known of a record that is on its way to an answer.
<1>9. ASSUME NEW i \in open
      PROVE  /\ i \in Indices /\ ~(i > n) /\ i \notin Ixs(back) /\ i \notin Resolved(chan)
             /\ Status(r, i) = "pending"
  <2>1. i \in 1 .. n /\ i \notin Ixs(back) /\ i \notin Ixs(chan)
    BY <1>1, <1>2, <1>9 DEF OnePlace
  <2>2. i \notin Resolved(chan)
    BY <2>1, ResolvedQueued
  <2>3. QED
    BY <1>1, <1>3, <1>9, <2>1, <2>2 DEF StatusAs
<1>10. ASSUME NEW i \in open, Drops(r, i)
       PROVE  StreamMoves(r)
  <2>1. /\ pulled'[r] = n /\ returned'[r] = back /\ findPeersResult'[r] = chan
        /\ Unanswered(r)' = open \ {i}
        /\ SameEnd(r)
    BY <1>10 DEF Drops, n, back, chan, open
  <2>2. \A k \in Indices \ {i} : Status(r, k)' = Status(r, k)
    BY <1>3, <1>4, <2>1 DEF StatusAs
  <2>3. Status(r, i)' = "dropped"
    BY <1>4, <1>9, <1>10, <2>1 DEF StatusAs
  <2>4. QED
    BY <1>9, <1>10, <2>1, <2>2, <2>3
<1>11. ASSUME NEW i \in open, Sends(r, i)
       PROVE  StreamMoves(r)
  <2>1. PICK kind \in {"addressed", "bare"} :
          findPeersResult'[r] = Append(chan, [ix |-> i, kind |-> kind])
    BY <1>11 DEF Sends, chan
  <2>2. /\ pulled'[r] = n /\ returned'[r] = back
        /\ Unanswered(r)' = open \ {i}
        /\ SameEnd(r)
    BY <1>11 DEF Sends, n, back, open
  <2>3. Resolved(findPeersResult'[r]) =
          IF kind = "addressed" THEN Resolved(chan) \cup {i} ELSE Resolved(chan)
    <3>1. i \in Indices
      BY <1>9
    <3>2. Resolved(Append(chan, [ix |-> i, kind |-> kind])) =
            IF kind = "addressed" THEN Resolved(chan) \cup {i} ELSE Resolved(chan)
      BY <1>1, <3>1, ResolvedAppend
    <3>3. QED
      BY <2>1, <3>2
  <2>4. \A k \in Indices \ {i} : Status(r, k)' = Status(r, k)
    BY <1>3, <1>4, <2>2, <2>3 DEF StatusAs
  <2>5. Status(r, i)' = IF kind = "addressed" THEN "resolved" ELSE "dropped"
    BY <1>4, <1>9, <1>11, <2>2, <2>3 DEF StatusAs
  <2>6. QED
    BY <1>9, <1>11, <2>2, <2>4, <2>5
<1>12. CASE Receives(r)
  <2>1. /\ pulled'[r] = n /\ chan # << >> /\ findPeersResult'[r] = Tail(chan)
        /\ Unanswered(r)' = open
        /\ ~HasEnded(r) /\ SameEnd(r)
        /\ IF Head(chan).kind = "addressed"
           THEN returned'[r] = Append(back, Head(chan)) ELSE returned'[r] = back
    BY <1>12 DEF Receives, GoesOn, n, back, chan, open
  <2>2. PICK i \in Indices :
          /\ i = Head(chan).ix
          /\ Resolved(findPeersResult'[r]) = Resolved(chan) \ {i}
          /\ i \in Resolved(chan) <=> Head(chan).kind = "addressed"
    BY <1>1, <1>2, <2>1, ResolvedTail DEF OnePlace
  <2>3. i \in 1 .. n /\ i \notin Ixs(back) /\ i \notin open
    BY <1>1, <1>2, <2>1, <2>2, TailIxs DEF OnePlace
  <2>4. ~(i > n)
    BY <1>5, <2>2, <2>3
  <2>5. CASE Head(chan).kind = "addressed"
    <3>1. Ixs(returned'[r]) = Ixs(back) \cup {i}
      <4>1. Head(chan) \in Record
        BY <1>1, <2>1
      <4>2. QED
        BY <1>1, <2>1, <2>2, <2>5, <4>1, AppendIxs
    <3>2. \A k \in Indices \ {i} : Status(r, k)' = Status(r, k)
      BY <1>3, <1>4, <2>1, <2>2, <3>1 DEF StatusAs
    <3>3. Status(r, i) = "resolved" /\ Status(r, i)' = "returned"
      BY <1>3, <1>4, <2>1, <2>2, <2>3, <2>4, <2>5, <3>1 DEF StatusAs
    <3>4. QED
      BY <2>1, <2>2, <3>2, <3>3
  <2>6. CASE Head(chan).kind # "addressed"
    <3>1. \A k \in Indices : Status(r, k)' = Status(r, k)
      BY <1>3, <1>4, <2>1, <2>2, <2>6 DEF StatusAs
    <3>2. QED
      BY <2>1, <3>1
  <2>7. QED
    BY <2>5, <2>6
<1>13. QED
  BY <1>6, <1>7, <1>8, <1>10, <1>11, <1>12 DEF Moves, open

Statuses == [r \in Requests |-> [i \in Indices |-> Status(r, i)]]
Ends == [r \in Requests |-> pc[r] \in {"ended", "closed"}]

\* What moves of one request, and of none, mean to all of them.
LEMMA StatusesMove ==
  ASSUME NEW r \in Requests, \A q \in Requests \ {r} : StatusKept(q)
  PROVE  /\ StatusKept(r) => Statuses' = Statuses
         /\ \A i, from, to : StatusGoes(r, i, from, to) =>
              /\ i \in Indices /\ Statuses[r][i] = from
              /\ Statuses' = [Statuses EXCEPT ![r][i] = to]
<1>1. ASSUME StatusKept(r) PROVE Statuses' = Statuses
  BY <1>1 DEF StatusKept, Statuses
<1>2. ASSUME NEW i, NEW from, NEW to, StatusGoes(r, i, from, to)
      PROVE  /\ i \in Indices /\ Statuses[r][i] = from
             /\ Statuses' = [Statuses EXCEPT ![r][i] = to]
  <2>1. i \in Indices /\ Statuses[r][i] = from
    BY <1>2 DEF StatusGoes, Statuses
  <2>2. /\ Statuses' = [q \in Requests |-> [k \in Indices |-> Status(q, k)']]
        /\ [Statuses EXCEPT ![r][i] = to] =
             [q \in Requests |-> [k \in Indices |->
                IF q = r /\ k = i THEN to ELSE Status(q, k)]]
    BY <2>1 DEF Statuses
  <2>3. ASSUME NEW q \in Requests, NEW k \in Indices
        PROVE  Status(q, k)' = IF q = r /\ k = i THEN to ELSE Status(q, k)
    BY <1>2 DEF StatusGoes, StatusKept
  <2>4. QED
    BY <2>1, <2>2, <2>3
<1>3. QED
  BY <1>1, <1>2

LEMMA EndsMove ==
  ASSUME NEW r \in Requests,
         \A q \in Requests \ {r} : SameEnd(q), Control, Control'
  PROVE  /\ SameEnd(r) => Ends' = Ends /\ cancelled' = cancelled
         /\ cancelled'[r] = cancelled[r] => cancelled' = cancelled
         /\ cancelled'[r] => cancelled' = [cancelled EXCEPT ![r] = TRUE]
         /\ (HasEnded(r)' <=> HasEnded(r)) => Ends' = Ends
         /\ HasEnded(r)' => Ends' = [Ends EXCEPT ![r] = TRUE]
         /\ ~HasEnded(r) => ~Ends[r]
<1>1. /\ cancelled \in [Requests -> BOOLEAN] /\ cancelled' \in [Requests -> BOOLEAN]
      /\ Ends \in [Requests -> BOOLEAN] /\ Ends' \in [Requests -> BOOLEAN]
      /\ \A q \in Requests : (Ends[q] <=> HasEnded(q)) /\ (Ends'[q] <=> HasEnded(q)')
  <2>1. cancelled \in [Requests -> BOOLEAN] /\ cancelled' \in [Requests -> BOOLEAN]
    BY DEF Control, Types
  <2>2. \A q \in Requests : /\ Ends[q] = (pc[q] \in {"ended", "closed"})
                            /\ Ends'[q] = (pc'[q] \in {"ended", "closed"})
    BY DEF Ends
  <2>3. Ends \in [Requests -> BOOLEAN] /\ Ends' \in [Requests -> BOOLEAN]
    BY DEF Ends
  <2>4. QED
    BY <2>1, <2>2, <2>3 DEF HasEnded
<1>2. \A q \in Requests \ {r} : Ends'[q] = Ends[q] /\ cancelled'[q] = cancelled[q]
  BY <1>1 DEF SameEnd
<1>3. SameEnd(r) => Ends' = Ends /\ cancelled' = cancelled
  BY <1>1, <1>2 DEF SameEnd
<1>4. QED
  BY <1>1, <1>2, <1>3

\* The iterator is a RecordStream: records are looked at in order, returned
\* only when they have addresses and only once, and the stream of a request
\* that is not cancelled does not end while a record is pending.
THEOREM StreamImplemented == Spec => RecordStreamSpec
<1>1. Init => Stream!Init
  <2>1. SUFFICES ASSUME Init PROVE Stream!Init
    OBVIOUS
  <2>2. ASSUME NEW r \in Requests, NEW i \in Indices PROVE Status(r, i) = "unseen"
    <3>1. /\ returned[r] = << >> /\ findPeersResult[r] = << >> /\ i > pulled[r]
          /\ lookup[<<r, i>>] = "idle" /\ pc[r] = "idle"
      BY <2>1 DEF Init, Lookups, Indices
    <3>2. QED
      BY <3>1 DEF Status, MayAnswer
  <2>3. Statuses = [r \in Requests |-> [i \in Indices |-> "unseen"]]
    BY <2>2 DEF Statuses
  <2>4. Ends = [r \in Requests |-> FALSE] /\ cancelled = [r \in Requests |-> FALSE]
    <3>1. \A r \in Requests : (pc[r] \in {"ended", "closed"}) = FALSE
      BY <2>1 DEF Init
    <3>2. QED
      BY <2>1, <3>1, Zenon DEF Init, Ends
  <2>5. QED
    BY <2>3, <2>4 DEF Stream!Init, Stream!Indices, Indices, Statuses, Ends
<1>2. IInv /\ IInv' /\ Placements /\ Placements' /\ [Next]_vars
        => [Stream!Next]_(Stream!vars)
  <2>1. SUFFICES ASSUME IInv, IInv', Placements, Placements', [Next]_vars
                 PROVE  [Stream!Next]_(Stream!vars)
    OBVIOUS
  <2>2. Control /\ Control'
    BY <2>1 DEF IInv
  <2>3. ASSUME NEW q \in Requests, Untouched(q) PROVE StatusKept(q) /\ SameEnd(q)
    <3>1. StatusByPlace /\ StatusByPlace'
      BY StatusIs, PTL
    <3>2. SameEnd(q) /\ pulled'[q] = pulled[q] /\ returned'[q] = returned[q]
          /\ findPeersResult'[q] = findPeersResult[q] /\ Unanswered(q)' = Unanswered(q)
      BY <2>3 DEF Untouched, SameEnd
    <3>3. ASSUME NEW k \in Indices
          PROVE  /\ Status(q, k) = StatusAs(returned[q], findPeersResult[q], pulled[q],
                                            Unanswered(q), k)
                 /\ Status(q, k)' = StatusAs(returned'[q], findPeersResult'[q], pulled'[q],
                                             Unanswered(q)', k)
      BY <2>1, <2>2, <3>1 DEF StatusByPlace, Placements, StatusAs, Ixs, Resolved
    <3>4. QED
      BY <3>2, <3>3 DEF StatusKept
  <2>4. CASE \A q \in Requests : Untouched(q)
    <3>1. Statuses' = Statuses
      BY <2>3, <2>4 DEF Statuses, StatusKept
    <3>2. Ends' = Ends /\ cancelled' = cancelled
      BY <2>2, <2>3, <2>4 DEF SameEnd, HasEnded, Ends, Control, Types
    <3>3. QED
      BY <3>1, <3>2 DEF Stream!vars, Statuses, Ends
  <2>5. ASSUME NEW r \in Requests, MovesOnly(r) PROVE [Stream!Next]_(Stream!vars)
    <3>1. StreamMoves(r)
      BY <2>1, <2>2, <2>5, MovesAreStreamMoves DEF MovesOnly, Placements
    <3>2. \A q \in Requests \ {r} : StatusKept(q) /\ SameEnd(q)
      BY <2>3, <2>5 DEF MovesOnly
    <3>3. /\ StatusKept(r) => Statuses' = Statuses
          /\ \A i, from, to : StatusGoes(r, i, from, to) =>
               /\ i \in Indices /\ Statuses[r][i] = from
               /\ Statuses' = [Statuses EXCEPT ![r][i] = to]
      BY <3>2, StatusesMove
    <3>4. /\ SameEnd(r) => Ends' = Ends /\ cancelled' = cancelled
          /\ cancelled'[r] = cancelled[r] => cancelled' = cancelled
          /\ cancelled'[r] => cancelled' = [cancelled EXCEPT ![r] = TRUE]
          /\ (HasEnded(r)' <=> HasEnded(r)) => Ends' = Ends
          /\ HasEnded(r)' => Ends' = [Ends EXCEPT ![r] = TRUE]
          /\ ~HasEnded(r) => ~Ends[r]
      BY <2>2, <3>2, EndsMove
    <3>5. \A i \in Indices : Status(r, i) = Statuses[r][i]
      BY DEF Statuses
    <3>6. CASE StatusKept(r) /\ SameEnd(r)
      BY <3>3, <3>4, <3>6 DEF Stream!vars, Statuses, Ends
    <3> DEFINE Becomes(i, from, to) ==
                 /\ Statuses[r][i] = from
                 /\ Statuses' = [Statuses EXCEPT ![r][i] = to]
                 /\ Ends' = Ends /\ cancelled' = cancelled
    <3>7. ASSUME NEW i \in Indices, ~HasEnded(r), SameEnd(r),
                 \A j \in 1 .. i - 1 : Status(r, j) # "unseen",
                 StatusGoes(r, i, "unseen", "returned") \/ StatusGoes(r, i, "unseen", "pending")
          PROVE  Stream!Look(r, i)
      <4>1. Becomes(i, "unseen", "returned") \/ Becomes(i, "unseen", "pending")
        <5>1. CASE StatusGoes(r, i, "unseen", "returned")
          BY <3>3, <3>4, <3>7, <5>1
        <5>2. CASE StatusGoes(r, i, "unseen", "pending")
          BY <3>3, <3>4, <3>7, <5>2
        <5>3. QED
          BY <3>7, <5>1, <5>2
      <4>2. 1 .. i - 1 \subseteq Indices
        BY ConstantsAssumption DEF Indices
      <4>3. ~Ends[r] /\ \A j \in 1 .. i - 1 : Statuses[r][j] # "unseen"
        BY <3>4, <3>5, <3>7, <4>2
      <4>4. QED
        BY <4>1, <4>3 DEF Stream!Look, Stream!Becomes, Statuses, Ends
    <3>8. ASSUME NEW i \in Indices, SameEnd(r), StatusGoes(r, i, "pending", "dropped")
          PROVE  Stream!Drop(r, i)
      <4>1. Becomes(i, "pending", "dropped")
        BY <3>3, <3>4, <3>8
      <4>2. QED
        BY <4>1 DEF Stream!Drop, Stream!Becomes, Statuses, Ends
    <3>9. ASSUME NEW i \in Indices, SameEnd(r), StatusGoes(r, i, "pending", "resolved")
          PROVE  Stream!Resolve(r, i)
      <4>1. Becomes(i, "pending", "resolved")
        BY <3>3, <3>4, <3>9
      <4>2. QED
        BY <4>1 DEF Stream!Resolve, Stream!Becomes, Statuses, Ends
    <3>10. ASSUME NEW i \in Indices, ~HasEnded(r), SameEnd(r),
                  StatusGoes(r, i, "resolved", "returned")
           PROVE  Stream!Return(r, i)
      <4>1. Becomes(i, "resolved", "returned") /\ ~Ends[r]
        BY <3>3, <3>4, <3>10
      <4>2. QED
        BY <4>1 DEF Stream!Return, Stream!Becomes, Statuses, Ends
    <3>11. ASSUME StatusKept(r), ~HasEnded(r), HasEnded(r)', cancelled'[r] = cancelled[r],
                  cancelled[r] \/ \A i \in Indices : Status(r, i) # "pending"
           PROVE  Stream!End(r)
      <4>1. /\ Statuses' = Statuses /\ ~Ends[r] /\ Ends' = [Ends EXCEPT ![r] = TRUE]
            /\ cancelled' = cancelled
            /\ cancelled[r] \/ \A i \in Indices : Statuses[r][i] # "pending"
        BY <3>3, <3>4, <3>5, <3>11
      <4>2. QED
        BY <4>1 DEF Stream!End, Stream!Indices, Indices, Statuses, Ends
    <3>12. ASSUME StatusKept(r), cancelled'[r], HasEnded(r) => HasEnded(r)'
           PROVE  Stream!Cancel(r)
      <4>1. /\ Statuses' = Statuses
            /\ cancelled' = [cancelled EXCEPT ![r] = TRUE]
            /\ Ends' \in {Ends, [Ends EXCEPT ![r] = TRUE]}
        <5>1. CASE HasEnded(r)'
          BY <3>3, <3>4, <3>12, <5>1
        <5>2. CASE ~HasEnded(r)'
          BY <3>3, <3>4, <3>12, <5>2
        <5>3. QED
          BY <5>1, <5>2
      <4>2. QED
        BY <4>1 DEF Stream!Cancel, Statuses, Ends
    <3>13. QED
      BY <3>1, <3>6, <3>7, <3>8, <3>9, <3>10, <3>11, <3>12
         DEF StreamMoves, Stream!Next, Stream!Indices, Indices
  <2>6. QED
    BY <2>1, <2>4, <2>5, StepMoves
<1>3. QED
  BY Inductive, PlacementsInductive, <1>1, <1>2, PTL DEF Spec, RecordStreamSpec, Stream!Spec
=============================================================================
