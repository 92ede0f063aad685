---------------------------- MODULE CacheFallback ----------------------------
(***************************************************************************)
(* The cacheFallbackIter of server_cached_router.go: the record iterator   *)
(* that someguy puts around a /providers or closest-peers answer.  A record *)
(* without addresses is filled from the address cache or, on a miss,       *)
(* resolved by a background FindPeer (dispatchFindPeer) while the stream   *)
(* goes on.  Several requests share the cap on background lookups          *)
(* (findPeerSlots) and the address cache.                                  *)
(*                                                                         *)
(* A request is one iterator; the i-th record its source yields is named   *)
(* by i, and the lookup dispatched for it by <<r, i>>.  Addresses are      *)
(* abstracted to whether a record or the cache has any.                    *)
(***************************************************************************)
EXTENDS Integers, Sequences, FiniteSets

CONSTANTS Requests,          \* the iterators, one per HTTP request
          ProviderRequests,  \* those with queryOrigin = "providers"
          Peers,             \* the peers that records are about
          NoPeer,            \* the target of a lookup not dispatched yet
          MaxRecords,        \* records a source yields at most
          Cap,               \* capacity of findPeerSlots
          BufCap             \* capacity of findPeersResult (100 in the code)

ASSUME ConstantsAssumption ==
  /\ IsFiniteSet(Requests)
  /\ ProviderRequests \subseteq Requests
  /\ NoPeer \notin Peers
  /\ MaxRecords \in Nat
  /\ Cap \in Nat \ {0}       \* WithMaxConcurrentFindPeers rejects n < 1
  /\ BufCap \in Nat

VARIABLES pc,               \* where each iterator is
          pulled,           \* records its source has yielded
          drained,          \* sourceIter.Next has returned false
          cancelled,        \* it.ctx is done
          ongoingLookups,   \* the atomic counter of the iterator
          findPeersResult,  \* its buffered channel
          returned,         \* history: what Next has returned, in order
          lookup,           \* where the goroutine of each lookup is
          target,           \* the peer a lookup is for
          answer,           \* what it will send
          slots,            \* occupied entries of findPeerSlots
          addrBook,         \* peers with live addresses in someguy's own book
          hostPeerstore,    \* peers with live addresses in the DHT's peerstore
          backoff           \* peers that ShouldProbePeer declines

iterVars == <<pc, pulled, drained, cancelled, returned>>
lookupVars == <<lookup, target, answer>>
cacheVars == <<addrBook, hostPeerstore, backoff>>
vars == <<iterVars, ongoingLookups, findPeersResult, lookupVars, slots, cacheVars>>

Indices == 1 .. MaxRecords
Lookups == Requests \X Indices

\* "addressed": a peer record with addresses; "bare": one without; "other": a
\* record of a schema the iterator passes through.
Record == [ix : Indices, kind : {"addressed", "bare", "other"}]

(* "run": in FindPeers; "routing": its cache missed, the DHT is asked;     *)
(* "check": about to look at it.ctx; then the deferred calls, last first.  *)
LookupState == {"idle", "run", "routing", "check", "send",
                "release", "decrement", "done"}
MayAnswer == {"run", "routing", "check", "send"}
HoldsSlot == MayAnswer \cup {"release"}
Counted == HoldsSlot \cup {"decrement"}

Counting(r) == {i \in Indices : lookup[<<r, i>>] \in Counted}

\* The lookups that occupy a slot, with the one whose slot is reserved and
\* whose goroutine has not started.
Holders == {l \in Lookups : \/ lookup[l] \in HoldsSlot
                            \/ pc[l[1]] = "reserved" /\ l[2] = pulled[l[1]]}

Finished == {l \in Lookups : lookup[l] \in {"decrement", "done"}}

TypeOK ==
  /\ pc \in [Requests -> {"idle", "source", "dispatch", "reserved", "count",
                          "wait", "ended", "closed"}]
  /\ pulled \in [Requests -> 0 .. MaxRecords]
  /\ drained \in [Requests -> BOOLEAN]
  /\ cancelled \in [Requests -> BOOLEAN]
  /\ ongoingLookups \in [Requests -> 0 .. MaxRecords]
  /\ findPeersResult \in [Requests -> Seq(Record)]
  /\ \A r \in Requests : Len(findPeersResult[r]) <= BufCap
  /\ returned \in [Requests -> Seq(Record)]
  /\ lookup \in [Lookups -> LookupState]
  /\ target \in [Lookups -> Peers \cup {NoPeer}]
  /\ answer \in [Lookups -> {"addressed", "unread", "bare"}]
  /\ slots \in 0 .. Cap
  /\ addrBook \in SUBSET Peers
  /\ hostPeerstore \in SUBSET Peers
  /\ backoff \in SUBSET Peers

Init ==
  /\ pc = [r \in Requests |-> "idle"]
  /\ pulled = [r \in Requests |-> 0]
  /\ drained = [r \in Requests |-> FALSE]
  /\ cancelled = [r \in Requests |-> FALSE]
  /\ ongoingLookups = [r \in Requests |-> 0]
  /\ findPeersResult = [r \in Requests |-> << >>]
  /\ returned = [r \in Requests |-> << >>]
  /\ lookup = [l \in Lookups |-> "idle"]
  /\ target = [l \in Lookups |-> NoPeer]
  /\ answer = [l \in Lookups |-> "bare"]
  /\ slots = 0
  /\ addrBook = {}
  /\ hostPeerstore = {}
  /\ backoff = {}

-----------------------------------------------------------------------------
(* The address cache, as its callers see it.                               *)

\* GetCachedAddrs returns addresses: its own book, else the host peerstore.
HasCachedAddrs(p) == p \in addrBook \cup hostPeerstore

\* CacheAddrs keeps the addresses it may publish, if there are any.
CacheAddrs(p) == addrBook' \in {addrBook, addrBook \cup {p}}

\* RecordFailedConnection backs the peer off (with no effect when the shift
\* in ShouldProbePeer has overflowed), or evicts a peer whose longest backoff
\* is over.
RecordFailedConnection(p) ==
  \/ /\ backoff' \in {backoff, backoff \cup {p}}
     /\ UNCHANGED addrBook
  \/ /\ p \notin backoff
     /\ addrBook' = addrBook \ {p}
     /\ UNCHANGED backoff

-----------------------------------------------------------------------------
(* cacheFallbackIter.Next, called by the consumer of the stream.           *)

CallNext(r) ==
  /\ pc[r] = "idle"
  /\ pc' = [pc EXCEPT ![r] = "source"]
  /\ UNCHANGED <<pulled, drained, cancelled, returned, ongoingLookups,
                 findPeersResult, lookupVars, slots, cacheVars>>

\* sourceIter.Next returns true: record number pulled[r] + 1.
Pull(r) ==
  /\ pc[r] = "source"
  /\ ~drained[r]
  /\ pulled[r] < MaxRecords
  /\ pulled' = [pulled EXCEPT ![r] = @ + 1]
  /\ UNCHANGED <<drained, cancelled, ongoingLookups, findPeersResult, slots,
                 lookup, answer, hostPeerstore, backoff>>

\* it.current = rec; return true.
Return(r, rec) ==
  /\ returned' = [returned EXCEPT ![r] = Append(@, rec)]
  /\ pc' = [pc EXCEPT ![r] = "idle"]

\* A schema that is not a peer's passes through; closest-peers answers are
\* peer records only.
YieldOther(r) ==
  /\ r \in ProviderRequests
  /\ Pull(r)
  /\ Return(r, [ix |-> pulled[r] + 1, kind |-> "other"])
  /\ UNCHANGED <<target, addrBook>>

\* The record came with addresses; those of a provider record are cached.
YieldAddressed(r) ==
  /\ Pull(r)
  /\ Return(r, [ix |-> pulled[r] + 1, kind |-> "addressed"])
  /\ IF r \in ProviderRequests
     THEN \E p \in Peers : CacheAddrs(p)
     ELSE UNCHANGED addrBook
  /\ UNCHANGED target

YieldCached(r) ==
  /\ Pull(r)
  /\ \E p \in Peers : HasCachedAddrs(p)
  /\ Return(r, [ix |-> pulled[r] + 1, kind |-> "addressed"])
  /\ UNCHANGED <<target, addrBook>>

YieldMissed(r) ==
  /\ Pull(r)
  /\ \E p \in Peers :
       /\ ~HasCachedAddrs(p)
       /\ target' = [target EXCEPT ![<<r, pulled[r] + 1>>] = p]
  /\ pc' = [pc EXCEPT ![r] = "dispatch"]
  /\ UNCHANGED <<returned, addrBook>>

SourceEnds(r) ==
  /\ pc[r] = "source"
  /\ drained' = [drained EXCEPT ![r] = TRUE]
  /\ pc' = [pc EXCEPT ![r] = "count"]
  /\ UNCHANGED <<pulled, cancelled, returned, ongoingLookups,
                 findPeersResult, lookupVars, slots, cacheVars>>

\* Variant for RequestEnds: the lookup is counted before its slot is reserved.
DeclineCounted(r) ==
  /\ pc[r] = "dispatch"
  /\ target[<<r, pulled[r]>>] \in backoff \/ slots = Cap
  /\ ongoingLookups' = [ongoingLookups EXCEPT ![r] = @ + 1]
  /\ pc' = [pc EXCEPT ![r] = "source"]
  /\ UNCHANGED <<pulled, drained, cancelled, returned,
                 findPeersResult, lookupVars, slots, cacheVars>>

\* The peer is backed off, or tryAcquireFindPeerSlot finds the pool full: the
\* record is dropped and the loop goes on.
Decline(r) ==
  /\ pc[r] = "dispatch"
  /\ target[<<r, pulled[r]>>] \in backoff \/ slots = Cap
  /\ pc' = [pc EXCEPT ![r] = "source"]
  /\ UNCHANGED <<pulled, drained, cancelled, returned, ongoingLookups,
                 findPeersResult, lookupVars, slots, cacheVars>>

\* Variant for LookupPoolSpec: a slot is taken without looking at the capacity.
ReserveUnbounded(r) ==
  /\ pc[r] = "dispatch"
  /\ target[<<r, pulled[r]>>] \notin backoff
  /\ slots' = slots + 1
  /\ pc' = [pc EXCEPT ![r] = "reserved"]
  /\ UNCHANGED <<pulled, drained, cancelled, returned, ongoingLookups,
                 findPeersResult, lookupVars, cacheVars>>

\* ShouldProbePeer and tryAcquireFindPeerSlot succeed.
Reserve(r) ==
  /\ pc[r] = "dispatch"
  /\ target[<<r, pulled[r]>>] \notin backoff
  /\ slots < Cap
  /\ slots' = slots + 1
  /\ pc' = [pc EXCEPT ![r] = "reserved"]
  /\ UNCHANGED <<pulled, drained, cancelled, returned, ongoingLookups,
                 findPeersResult, lookupVars, cacheVars>>

\* Variant for TypeOK: the lookup starts uncounted.
DispatchUncounted(r) ==
  /\ pc[r] = "reserved"
  /\ lookup' = [lookup EXCEPT ![<<r, pulled[r]>>] = "run"]
  /\ pc' = [pc EXCEPT ![r] = "source"]
  /\ UNCHANGED <<pulled, drained, cancelled, returned, findPeersResult,
                 ongoingLookups, target, answer, slots, cacheVars>>

\* ongoingLookups.Add(1), then the goroutine starts.
Dispatch(r) ==
  /\ pc[r] = "reserved"
  /\ ongoingLookups' = [ongoingLookups EXCEPT ![r] = @ + 1]
  /\ lookup' = [lookup EXCEPT ![<<r, pulled[r]>>] = "run"]
  /\ pc' = [pc EXCEPT ![r] = "source"]
  /\ UNCHANGED <<pulled, drained, cancelled, returned, findPeersResult,
                 target, answer, slots, cacheVars>>

\* Variant for RecordStreamSpec: the stream ends with one lookup to go.
CountOngoingShort(r) ==
  /\ pc[r] = "count"
  /\ pc' = [pc EXCEPT ![r] = IF ongoingLookups[r] <= 1 THEN "ended" ELSE "wait"]
  /\ UNCHANGED <<pulled, drained, cancelled, returned, ongoingLookups,
                 findPeersResult, lookupVars, slots, cacheVars>>

\* The source has ended: Next returns false if it counts no lookup.
CountOngoing(r) ==
  /\ pc[r] = "count"
  /\ pc' = [pc EXCEPT ![r] = IF ongoingLookups[r] = 0 THEN "ended" ELSE "wait"]
  /\ UNCHANGED <<pulled, drained, cancelled, returned, ongoingLookups,
                 findPeersResult, lookupVars, slots, cacheVars>>

\* Variant for StreamSound: a result is returned whether or not it has addresses.
ReceiveResultUnfiltered(r) ==
  /\ pc[r] = "wait"
  /\ findPeersResult[r] # << >>
  /\ findPeersResult' = [findPeersResult EXCEPT ![r] = Tail(@)]
  /\ Return(r, Head(findPeersResult[r]))
  /\ UNCHANGED <<pulled, drained, cancelled, ongoingLookups, lookupVars,
                 slots, cacheVars>>

\* The three cases of the select: a result, ...
ReceiveResult(r) ==
  /\ pc[r] = "wait"
  /\ findPeersResult[r] # << >>
  /\ findPeersResult' = [findPeersResult EXCEPT ![r] = Tail(@)]
  /\ IF Head(findPeersResult[r]).kind = "addressed"
     THEN Return(r, Head(findPeersResult[r]))
     ELSE /\ pc' = [pc EXCEPT ![r] = "source"]
          /\ UNCHANGED returned
  /\ UNCHANGED <<pulled, drained, cancelled, ongoingLookups, lookupVars,
                 slots, cacheVars>>

\* ... the context, ...
WaitCancelled(r) ==
  /\ pc[r] = "wait"
  /\ cancelled[r]
  /\ pc' = [pc EXCEPT ![r] = "ended"]
  /\ UNCHANGED <<pulled, drained, cancelled, returned, ongoingLookups,
                 findPeersResult, lookupVars, slots, cacheVars>>

\* Variant for NoEarlyEnd: the timer ends the stream.
WaitTimerEnds(r) ==
  /\ pc[r] = "wait"
  /\ pc' = [pc EXCEPT ![r] = "ended"]
  /\ UNCHANGED <<pulled, drained, cancelled, returned, ongoingLookups,
                 findPeersResult, lookupVars, slots, cacheVars>>

\* ... and the 100 ms timer.
WaitTimer(r) ==
  /\ pc[r] = "wait"
  /\ pc' = [pc EXCEPT ![r] = "source"]
  /\ UNCHANGED <<pulled, drained, cancelled, returned, ongoingLookups,
                 findPeersResult, lookupVars, slots, cacheVars>>

\* Close, by a consumer that has drained the stream or gives up on it.
Close(r) ==
  /\ pc[r] \in {"idle", "ended"}
  /\ pc' = [pc EXCEPT ![r] = "closed"]
  /\ cancelled' = [cancelled EXCEPT ![r] = TRUE]
  /\ UNCHANGED <<pulled, drained, returned, ongoingLookups, findPeersResult,
                 lookupVars, slots, cacheVars>>

\* The request context ends: the client left or the routing timeout expired.
CtxDone(r) ==
  /\ pc[r] # "closed"
  /\ ~cancelled[r]
  /\ cancelled' = [cancelled EXCEPT ![r] = TRUE]
  /\ UNCHANGED <<pc, pulled, drained, returned, ongoingLookups,
                 findPeersResult, lookupVars, slots, cacheVars>>

-----------------------------------------------------------------------------
(* dispatchFindPeer, the goroutine of lookup l.  It calls                  *)
(* cachedRouter.FindPeers under a context of its own.                      *)

LookupGoes(l, from, to) ==
  /\ lookup[l] = from
  /\ lookup' = [lookup EXCEPT ![l] = to]
  /\ UNCHANGED <<iterVars, target>>

LookupCacheHit(l) ==
  /\ LookupGoes(l, "run", "check")
  /\ HasCachedAddrs(target[l])
  /\ answer' = [answer EXCEPT ![l] = "addressed"]
  /\ UNCHANGED <<ongoingLookups, findPeersResult, slots, cacheVars>>

LookupCacheMiss(l) ==
  /\ LookupGoes(l, "run", "routing")
  /\ ~HasCachedAddrs(target[l])
  /\ UNCHANGED <<answer, ongoingLookups, findPeersResult, slots, cacheVars>>

LookupNotFound(l) ==
  /\ LookupGoes(l, "routing", "check")
  /\ RecordFailedConnection(target[l])
  /\ UNCHANGED <<answer, ongoingLookups, findPeersResult, slots, hostPeerstore>>

\* Any other error, DispatchedFindPeersTimeout among them.
LookupFails(l) ==
  /\ LookupGoes(l, "routing", "check")
  /\ UNCHANGED <<answer, ongoingLookups, findPeersResult, slots, cacheVars>>

\* FindPeers returns an iterator.  It holds a record with addresses, which the
\* DHT has also put in the host peerstore, or a record without any.
LookupFinds(l) ==
  /\ LookupGoes(l, "routing", "check")
  /\ \/ /\ answer' = [answer EXCEPT ![l] = "addressed"]
        /\ hostPeerstore' = hostPeerstore \cup {target[l]}
     \/ /\ answer' = [answer EXCEPT ![l] = "unread"]
        /\ UNCHANGED hostPeerstore
  /\ UNCHANGED <<ongoingLookups, findPeersResult, slots, addrBook, backoff>>

\* Variant for Accounting: the early return forgets the slot.
LookupChecksParentLeaky(l) ==
  /\ LookupGoes(l, "check", IF cancelled[l[1]] THEN "decrement" ELSE "send")
  /\ answer' = [answer EXCEPT ![l] =
                  IF @ # "unread" THEN @
                  ELSE IF HasCachedAddrs(target[l]) THEN "addressed" ELSE "bare"]
  /\ UNCHANGED <<ongoingLookups, findPeersResult, slots, cacheVars>>

\* An early return once the parent context is done; otherwise the iterator is
\* read, which fills a record without addresses from the cache.
LookupChecksParent(l) ==
  \/ /\ LookupGoes(l, "check", "release")
     /\ cancelled[l[1]]
     /\ UNCHANGED <<answer, ongoingLookups, findPeersResult, slots, cacheVars>>
  \/ /\ LookupGoes(l, "check", "send")
     /\ ~cancelled[l[1]]
     /\ answer' = [answer EXCEPT ![l] =
                     IF @ # "unread" THEN @
                     ELSE IF HasCachedAddrs(target[l]) THEN "addressed" ELSE "bare"]
     /\ UNCHANGED <<ongoingLookups, findPeersResult, slots, cacheVars>>

\* Variant for LookupsFinish: a plain channel send, which waits for room.
LookupSendsBlocking(l) ==
  /\ LookupGoes(l, "send", "release")
  /\ Len(findPeersResult[l[1]]) < BufCap
  /\ findPeersResult' = [findPeersResult EXCEPT ![l[1]] =
                           Append(@, [ix |-> l[2], kind |-> answer[l]])]
  /\ UNCHANGED <<answer, ongoingLookups, slots, cacheVars>>

\* sendResult never blocks: it sends if there is room, gives up if the context
\* is done, and drops the result if the channel is full.
LookupSends(l) ==
  /\ LookupGoes(l, "send", "release")
  /\ \/ /\ Len(findPeersResult[l[1]]) < BufCap
        /\ findPeersResult' = [findPeersResult EXCEPT ![l[1]] =
                                 Append(@, [ix |-> l[2], kind |-> answer[l]])]
     \/ /\ cancelled[l[1]] \/ Len(findPeersResult[l[1]]) >= BufCap
        /\ UNCHANGED findPeersResult
  /\ UNCHANGED <<answer, ongoingLookups, slots, cacheVars>>

\* The deferred calls: releaseFindPeerSlot, then ongoingLookups.Add(-1).
LookupReleases(l) ==
  /\ LookupGoes(l, "release", "decrement")
  /\ slots' = slots - 1
  /\ UNCHANGED <<answer, ongoingLookups, findPeersResult, cacheVars>>

LookupDecrements(l) ==
  /\ LookupGoes(l, "decrement", "done")
  /\ ongoingLookups' = [ongoingLookups EXCEPT ![l[1]] = @ - 1]
  /\ UNCHANGED <<answer, findPeersResult, slots, cacheVars>>

-----------------------------------------------------------------------------
(* What else touches the cache: the background loop of cachedAddrBook,     *)
(* address expiry, and the /peers endpoint.                                *)

OutsideStep(p) ==
  UNCHANGED <<iterVars, ongoingLookups, findPeersResult, lookupVars, slots>>

Identified(p) ==
  /\ OutsideStep(p)
  /\ addrBook' \in {addrBook, addrBook \cup {p}}
  /\ backoff' = backoff \ {p}
  /\ UNCHANGED hostPeerstore

AddrsExpire(p) ==
  /\ OutsideStep(p)
  /\ \/ addrBook' = addrBook \ {p} /\ UNCHANGED hostPeerstore
     \/ hostPeerstore' = hostPeerstore \ {p} /\ UNCHANGED addrBook
  /\ UNCHANGED backoff

BackoffElapses(p) ==
  /\ OutsideStep(p)
  /\ backoff' = backoff \ {p}
  /\ UNCHANGED <<addrBook, hostPeerstore>>

\* A /peers request: cache first, then the DHT; it consults no backoff.
DirectFindPeers(p) ==
  /\ OutsideStep(p)
  /\ ~HasCachedAddrs(p)
  /\ \/ RecordFailedConnection(p) /\ UNCHANGED hostPeerstore
     \/ /\ hostPeerstore' = hostPeerstore \cup {p}
        /\ UNCHANGED <<addrBook, backoff>>

-----------------------------------------------------------------------------
IterStep(r) ==
  \/ CallNext(r) \/ YieldOther(r) \/ YieldAddressed(r) \/ YieldCached(r)
  \/ YieldMissed(r) \/ SourceEnds(r) \/ Decline(r) \/ Reserve(r) \/ Dispatch(r)
  \/ CountOngoing(r) \/ ReceiveResult(r) \/ WaitCancelled(r) \/ WaitTimer(r)
  \/ Close(r)

LookupStep(l) ==
  \/ LookupCacheHit(l) \/ LookupCacheMiss(l) \/ LookupNotFound(l)
  \/ LookupFails(l) \/ LookupFinds(l) \/ LookupChecksParent(l)
  \/ LookupSends(l) \/ LookupReleases(l) \/ LookupDecrements(l)

CacheStep(p) ==
  \/ Identified(p) \/ AddrsExpire(p) \/ BackoffElapses(p) \/ DirectFindPeers(p)

Next ==
  \/ \E r \in Requests : IterStep(r) \/ CtxDone(r)
  \/ \E l \in Lookups : LookupStep(l)
  \/ \E p \in Peers : CacheStep(p)

Spec == Init /\ [][Next]_vars

\* Every goroutine of the requests in S runs on: the consumer calls Next until
\* it closes the stream (the HTTP handler's loop), the source answers or ends
\* (the routing timeout), and FindPeers returns (DispatchedFindPeersTimeout).
Fairness(S) ==
  /\ \A r \in S : WF_vars(IterStep(r))
  /\ \A l \in S \X Indices : WF_vars(LookupStep(l))

-----------------------------------------------------------------------------
(* Properties.                                                             *)

\* Every slot of the pool is held by exactly one lookup that is reserved or
\* running, and an iterator's counter is the number of its lookups that have
\* not finished: nothing is leaked or given back twice on any path through
\* dispatchFindPeer (the early return on a done context among them).
SlotAccounting == slots = Cardinality(Holders)

CountAccounting ==
  \A r \in Requests : ongoingLookups[r] = Cardinality(Counting(r))

Accounting == SlotAccounting /\ CountAccounting

\* A stream that ends before it is cancelled has no lookup left that could
\* still resolve a record: the load of ongoingLookups in Next does not miss a
\* lookup that is about to start.
NoEarlyEnd ==
  \A r \in Requests :
    pc[r] = "ended" /\ ~cancelled[r] => Counting(r) = {}

\* Next never returns a peer record without addresses, and returns no record
\* of the source twice, whichever of the three ways it takes.
StreamSound ==
  \A r \in Requests :
    /\ \A j \in DOMAIN returned[r] : returned[r][j].kind # "bare"
    /\ \A j, k \in DOMAIN returned[r] :
         returned[r][j].ix = returned[r][k].ix => j = k

\* docs/peer-address-caching.md draws it for /providers: a record whose
\* addresses were found before the stream ends is returned.  An addressed
\* result still in the channel after Next has returned false is lost.
ResolvedAreReturned ==
  \A r \in Requests :
    pc[r] = "ended" /\ ~cancelled[r] =>
      \A j \in DOMAIN findPeersResult[r] :
        findPeersResult[r][j].kind # "addressed"

\* The stream of a request ends, at the cap, with a full channel and with
\* lookups that resolve nothing, as long as its own goroutines run on.
RequestEnds(r) == <>(pc[r] = "closed")

\* A dispatched lookup always runs to its end and gives its slot back, even
\* after its request has closed and nobody receives.
LookupFinishes(l) == lookup[l] = "run" ~> lookup[l] = "done"

\* What has become of record i of request r.
Status(r, i) ==
  CASE i > pulled[r] -> "unseen"
    [] \E j \in DOMAIN returned[r] : returned[r][j].ix = i -> "returned"
    [] \E j \in DOMAIN findPeersResult[r] :
         findPeersResult[r][j] = [ix |-> i, kind |-> "addressed"] -> "resolved"
    [] \/ lookup[<<r, i>>] \in MayAnswer
       \/ i = pulled[r] /\ pc[r] \in {"dispatch", "reserved"} -> "pending"
    [] OTHER -> "dropped"

Stream == INSTANCE RecordStream WITH
  status <- [r \in Requests |-> [i \in Indices |-> Status(r, i)]],
  ended <- [r \in Requests |-> pc[r] \in {"ended", "closed"}]

\* The iterator implements the stream its consumers rely on.
RecordStreamSpec == Stream!Spec

Pool == INSTANCE LookupPool WITH
  holders <- Holders,
  over <- Finished

\* The slots implement a pool of at most Cap lookups.
LookupPoolSpec == Pool!Spec
=============================================================================
