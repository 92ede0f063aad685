------------------------------- MODULE DNSAddr -------------------------------
(***************************************************************************)
(* The dnsAddrResolver of dnsaddr.go and the dnsAddrRouter around it: the  *)
(* /dnsaddr addresses of the records of a response are replaced by, or     *)
(* joined with, what DNS says they name.  Lookups go through a shared      *)
(* cache and singleflight, run on when the request that asked is gone, and *)
(* are counted against a budget of the request; the recursion is bounded   *)
(* in depth, and by the addresses that one record may gain.                *)
(*                                                                         *)
(* The recursion of expand is a stack: each frame holds the results that   *)
(* the loop of one call has yet to visit, and the flag and the output that *)
(* the calls merge are kept once.  Order and duplicates in a response do   *)
(* not matter here, so it is a set: filterPrivateMultiaddr and sortedAddrs *)
(* bring every response into the order of compareAddrs.                    *)
(***************************************************************************)
EXTENDS Integers, Sequences, FiniteSets

CONSTANTS Requests,          \* the requests modelled in detail
          Peers, NoPeer,     \* peer IDs; NoPeer stands for none
          Plain, Private,    \* addresses without a /dnsaddr; the private ones
          Hosts, CacheKey,   \* host names as spelled, and their cache keys
          Zone,              \* what the TXT record of each key lists
          Records,           \* the records that the wrapped router may yield
          Modes,             \* values of SOMEGUY_DNSADDR_RESOLUTION
          DNSAddrRecursionLimit,
          MaxDNSAddrLookupsPerRequest,
          MaxDNSAddrResolvedPerRecord,
          MaxRecords         \* bound: records in one response

Keys == {CacheKey[h] : h \in Hosts}

\* "suffixed": something other than /p2p follows the host; "empty": nothing is
\* left without the /p2p.  id is the trailing /p2p, which splitPeerID removes.
Address ==
  [kind : {"plain"}, at : Plain, id : Peers \cup {NoPeer}]
    \cup [kind : {"dnsaddr", "suffixed"}, at : Hosts, id : Peers \cup {NoPeer}]
    \cup [kind : {"empty"}, at : {NoPeer}, id : Peers]

Resolutions == {"append", "replace", "filtered", "never"}

ASSUME ConstantsAssumption ==
  /\ NoPeer \notin Peers
  /\ Private \subseteq Plain
  /\ Zone \in [Keys -> Seq(Address)]
  /\ \A rec \in Records : rec.pid \in Peers \cup {NoPeer} /\ rec.addrs \in Seq(Address)
  /\ Modes \subseteq Resolutions
  /\ {DNSAddrRecursionLimit, MaxDNSAddrLookupsPerRequest,
      MaxDNSAddrResolvedPerRecord, MaxRecords} \subseteq Nat

VARIABLES mode,       \* the configured resolution mode
          filter,     \* filter-addrs of each request: "none", "dnsaddr" if it
                      \* names dnsaddr, "other"
          pc, served, \* where a request is; records it has yielded
          budget,     \* lookups it may still spend
          cancelled,  \* its context is done
          rec,        \* the record it works on
          todo,       \* addresses of the record left; expand is at the first
          out,        \* the new addresses of the record
          room,       \* addresses the record may still gain
          next,       \* the /dnsaddr that expand is called with
          stack,      \* the frames of expand
          resolved,   \* what the expansion has yielded
          complete,   \* nothing of it was skipped
          reply,      \* what its channel from singleflight holds
          cache,      \* outcome cached for each key
          flight,     \* the lookup in flight for each key
          queries,    \* history: DNS queries a request has started
          failed      \* history: keys whose DNS query has failed

request == <<filter, served, budget, cancelled, queries>>
record == <<rec, todo, out, room>>
expansion == <<next, stack, resolved, complete>>
dns == <<cache, flight, failed>>
vars == <<mode, request, pc, record, expansion, reply, dns>>

IsDNSAddr(a) == a.kind \in {"dnsaddr", "suffixed"}
Resolvable(a) == a.kind = "dnsaddr"
NamesAnother(a, pid) == a.id \notin {pid, NoPeer}
WithoutID(a) == [a EXCEPT !.id = NoPeer]
Elements(s) == {s[i] : i \in DOMAIN s}
ContainsDNSAddr(s) == \E a \in Elements(s) : IsDNSAddr(a)
FilterPrivate(A) == {a \in A : ~(a.kind = "plain" /\ a.at \in Private)}
Outcome == {"resolved", "failed"}

\* The results a caller of lookup gets.
Results(k, outcome) == IF outcome = "resolved" THEN Zone[k] ELSE << >>

FilterAction(f) == IF f = "dnsaddr" THEN "append" ELSE "replace"

\* DNSAddrResolution.action; with "never" the router is not even wrapped.
Action(m, f) ==
  IF m = "never" THEN "skip"
  ELSE IF f # "none" THEN FilterAction(f)
  ELSE IF m = "filtered" THEN "skip" ELSE m

NoRecord == [pid |-> NoPeer, addrs |-> << >>]
NoHost == [kind |-> "empty", at |-> NoPeer, id |-> NoPeer]

TypeOK ==
  /\ mode \in Modes
  /\ filter \in [Requests -> {"none", "dnsaddr", "other"}]
  /\ pc \in [Requests -> {"idle", "addrs", "expand", "lookup", "wait", "loop", "served"}]
  /\ served \in [Requests -> 0 .. MaxRecords]
  /\ budget \in [Requests -> 0 .. MaxDNSAddrLookupsPerRequest]
  /\ cancelled \in [Requests -> BOOLEAN]
  /\ rec \in [Requests -> Records \cup {NoRecord}]
  /\ todo \in [Requests -> Seq(Address)]
  /\ \A r \in Requests : out[r] \subseteq Address
  /\ room \in [Requests -> 0 .. MaxDNSAddrResolvedPerRecord]
  /\ \A r \in Requests : next[r] \in Address \cup {NoHost}
  /\ stack \in [Requests -> Seq(Seq(Address))]
  /\ \A r \in Requests : Len(stack[r]) <= DNSAddrRecursionLimit
  /\ \A r \in Requests : resolved[r] \subseteq Plain
  /\ complete \in [Requests -> BOOLEAN]
  /\ reply \in [Requests -> Outcome \cup {"none"}]
  /\ cache \in [Keys -> Outcome \cup {"absent"}]
  /\ flight \in [Keys -> Outcome \cup {"none", "query"}]
  /\ queries \in [Requests -> 0 .. MaxDNSAddrLookupsPerRequest]
  /\ failed \subseteq Keys

Init ==
  /\ mode \in Modes
  /\ filter = [r \in Requests |-> "none"]
  /\ pc = [r \in Requests |-> "idle"]
  /\ served = [r \in Requests |-> 0]
  /\ budget = [r \in Requests |-> 0]
  /\ cancelled = [r \in Requests |-> FALSE]
  /\ rec = [r \in Requests |-> NoRecord]
  /\ todo = [r \in Requests |-> << >>]
  /\ out = [r \in Requests |-> {}]
  /\ room = [r \in Requests |-> 0]
  /\ next = [r \in Requests |-> NoHost]
  /\ stack = [r \in Requests |-> << >>]
  /\ resolved = [r \in Requests |-> {}]
  /\ complete = [r \in Requests |-> TRUE]
  /\ reply = [r \in Requests |-> "none"]
  /\ cache = [k \in Keys |-> "absent"]
  /\ flight = [k \in Keys |-> "none"]
  /\ queries = [r \in Requests |-> 0]
  /\ failed = {}

-----------------------------------------------------------------------------
(* The request, and the records of its response.                           *)

Goes(r, from, to) == pc[r] = from /\ pc' = [pc EXCEPT ![r] = to]

\* withAddrFilter notes the filter of the providers and peers endpoints (the
\* others have "none"), and the response gets one budget.
RequestStarts(r) ==
  /\ Goes(r, "idle", "served")
  /\ \E f \in {"none", "dnsaddr", "other"} : filter' = [filter EXCEPT ![r] = f]
  /\ budget' = [budget EXCEPT ![r] = MaxDNSAddrLookupsPerRequest]
  /\ UNCHANGED <<mode, served, cancelled, queries, record, expansion, reply, dns>>

CtxDone(r) ==
  /\ pc[r] # "idle" /\ ~cancelled[r]
  /\ cancelled' = [cancelled EXCEPT ![r] = TRUE]
  /\ UNCHANGED <<mode, filter, served, budget, queries, pc, record, expansion, reply, dns>>

RequestEnds(r) ==
  /\ Goes(r, "served", "idle")
  /\ rec' = [rec EXCEPT ![r] = NoRecord]
  /\ out' = [out EXCEPT ![r] = {}]
  /\ room' = [room EXCEPT ![r] = 0]
  /\ filter' = [filter EXCEPT ![r] = "none"]
  /\ served' = [served EXCEPT ![r] = 0]
  /\ budget' = [budget EXCEPT ![r] = 0]
  /\ cancelled' = [cancelled EXCEPT ![r] = FALSE]
  /\ queries' = [queries EXCEPT ![r] = 0]
  /\ UNCHANGED <<mode, todo, expansion, reply, dns>>

Resolves(r, v) ==
  /\ v.pid # NoPeer
  /\ ContainsDNSAddr(v.addrs)
  /\ Action(mode, filter[r]) # "skip"

\* Variant for BudgetHolds: each record gets a budget of its own.
RecordArrivesWithBudget(r) ==
  /\ Goes(r, "served", "addrs")
  /\ served[r] < MaxRecords
  /\ served' = [served EXCEPT ![r] = @ + 1]
  /\ \E v \in Records :
       /\ Resolves(r, v)
       /\ rec' = [rec EXCEPT ![r] = v]
       /\ todo' = [todo EXCEPT ![r] = v.addrs]
  /\ out' = [out EXCEPT ![r] = {}]
  /\ room' = [room EXCEPT ![r] = MaxDNSAddrResolvedPerRecord]
  /\ budget' = [budget EXCEPT ![r] = MaxDNSAddrLookupsPerRequest]
  /\ UNCHANGED <<mode, filter, cancelled, queries, expansion, reply, dns>>

\* The next record of the wrapped router: its addresses are resolved, ...
RecordArrives(r) ==
  /\ Goes(r, "served", "addrs")
  /\ served[r] < MaxRecords
  /\ served' = [served EXCEPT ![r] = @ + 1]
  /\ \E v \in Records :
       /\ Resolves(r, v)
       /\ rec' = [rec EXCEPT ![r] = v]
       /\ todo' = [todo EXCEPT ![r] = v.addrs]
  /\ out' = [out EXCEPT ![r] = {}]
  /\ room' = [room EXCEPT ![r] = MaxDNSAddrResolvedPerRecord]
  /\ UNCHANGED <<mode, filter, budget, cancelled, queries, expansion, reply, dns>>

\* ... or only sorted.
RecordPasses(r) ==
  /\ pc[r] = "served"
  /\ served[r] < MaxRecords
  /\ served' = [served EXCEPT ![r] = @ + 1]
  /\ \E v \in Records :
       /\ ~Resolves(r, v)
       /\ rec' = [rec EXCEPT ![r] = v]
       /\ out' = [out EXCEPT ![r] = Elements(v.addrs)]
  /\ UNCHANGED <<mode, filter, budget, cancelled, queries, pc, todo, room,
                 expansion, reply, dns>>

-----------------------------------------------------------------------------
(* resolveAddrs.                                                           *)

\* An address without a /dnsaddr is copied.
CopyAddr(r) ==
  /\ pc[r] = "addrs" /\ todo[r] # << >>
  /\ ~IsDNSAddr(Head(todo[r]))
  /\ out' = [out EXCEPT ![r] = @ \cup {Head(todo[r])}]
  /\ todo' = [todo EXCEPT ![r] = Tail(@)]
  /\ UNCHANGED <<mode, request, pc, rec, room, expansion, reply, dns>>

\* A /dnsaddr that names a different peer is dropped.
DropAddr(r) ==
  /\ pc[r] = "addrs" /\ todo[r] # << >>
  /\ IsDNSAddr(Head(todo[r])) /\ NamesAnother(Head(todo[r]), rec[r].pid)
  /\ todo' = [todo EXCEPT ![r] = Tail(@)]
  /\ UNCHANGED <<mode, request, pc, rec, out, room, expansion, reply, dns>>

\* Any other is expanded.
ExpandAddr(r) ==
  /\ todo[r] # << >>
  /\ IsDNSAddr(Head(todo[r])) /\ ~NamesAnother(Head(todo[r]), rec[r].pid)
  /\ Goes(r, "addrs", "expand")
  /\ next' = [next EXCEPT ![r] = WithoutID(Head(todo[r]))]
  /\ UNCHANGED <<mode, request, record, stack, resolved, complete, reply, dns>>

FromResolved(r) == {[kind |-> "plain", at |-> a, id |-> NoPeer] : a \in resolved[r]}

\* The outermost call of expand is back; the /dnsaddr survives if it should,
\* or if its expansion is not whole.
AddrExpanded(r) ==
  /\ stack[r] = << >>
  /\ Goes(r, "loop", "addrs")
  /\ out' = [out EXCEPT ![r] = @ \cup FromResolved(r) \cup
       IF \/ Action(mode, filter[r]) = "append"
          \/ ~complete[r]
          \/ resolved[r] = {}
       THEN {Head(todo[r])} ELSE {}]
  /\ todo' = [todo EXCEPT ![r] = Tail(@)]
  /\ next' = [next EXCEPT ![r] = NoHost]
  /\ resolved' = [resolved EXCEPT ![r] = {}]
  /\ complete' = [complete EXCEPT ![r] = TRUE]
  /\ UNCHANGED <<mode, request, rec, room, stack, reply, dns>>

\* filterPrivateMultiaddr runs again over the result.
RecordResolved(r) ==
  /\ todo[r] = << >>
  /\ Goes(r, "addrs", "served")
  /\ out' = [out EXCEPT ![r] = FilterPrivate(@)]
  /\ UNCHANGED <<mode, request, rec, todo, room, expansion, reply, dns>>

-----------------------------------------------------------------------------
(* expand.                                                                 *)

\* A call returns to the loop of its caller without results.
ReturnsNothing(r) ==
  /\ pc' = [pc EXCEPT ![r] = "loop"]
  /\ complete' = [complete EXCEPT ![r] = FALSE]
  /\ UNCHANGED <<next, stack, resolved>>

\* Variant for NothingLost: a cached failure looks like an empty success.
HasResultsAsSuccess(r, outcome) ==
  /\ pc' = [pc EXCEPT ![r] = "loop"]
  /\ stack' = [stack EXCEPT ![r] = <<Results(CacheKey[next[r].at], outcome)>> \o @]
  /\ UNCHANGED <<next, resolved, complete>>

\* lookup has answered: the loop over the results begins.
HasResults(r, outcome) ==
  /\ pc' = [pc EXCEPT ![r] = "loop"]
  /\ stack' = [stack EXCEPT ![r] = <<Results(CacheKey[next[r].at], outcome)>> \o @]
  /\ complete' = [complete EXCEPT ![r] = @ /\ outcome = "resolved"]
  /\ UNCHANGED <<next, resolved>>

\* Variant for TypeOK: the depth is not bounded.
MayExpandAnyDepth(r) ==
  /\ room[r] > 0
  /\ ~cancelled[r]
  /\ Resolvable(next[r])

\* Variant for KeptForCause: the recursion stops one level early.
MayExpandLess(r) ==
  /\ Len(stack[r]) < DNSAddrRecursionLimit - 1
  /\ room[r] > 0
  /\ ~cancelled[r]
  /\ Resolvable(next[r])

MayExpand(r) ==
  /\ Len(stack[r]) < DNSAddrRecursionLimit
  /\ room[r] > 0
  /\ ~cancelled[r]
  /\ Resolvable(next[r])

ExpandDeclines(r) ==
  /\ pc[r] = "expand" /\ ~MayExpand(r)
  /\ ReturnsNothing(r)
  /\ UNCHANGED <<mode, request, record, reply, dns>>

CacheHit(r) ==
  /\ pc[r] = "expand" /\ MayExpand(r)
  /\ cache[CacheKey[next[r].at]] # "absent"
  /\ HasResults(r, cache[CacheKey[next[r].at]])
  /\ UNCHANGED <<mode, request, record, reply, dns>>

CacheMiss(r) ==
  /\ MayExpand(r)
  /\ cache[CacheKey[next[r].at]] = "absent"
  /\ Goes(r, "expand", "lookup")
  /\ UNCHANGED <<mode, request, record, expansion, reply, dns>>

\* The context is done, or spend finds no budget.
LookupDeclined(r) ==
  /\ pc[r] = "lookup"
  /\ cancelled[r] \/ budget[r] = 0
  /\ ReturnsNothing(r)
  /\ UNCHANGED <<mode, request, record, reply, dns>>

Spends(r) == budget[r] > 0 /\ budget' = [budget EXCEPT ![r] = @ - 1]

\* DoChan starts a query, or joins the one in flight.
LookupJoins(r) ==
  /\ ~cancelled[r] /\ Spends(r)
  /\ Goes(r, "lookup", "wait")
  /\ LET k == CacheKey[next[r].at] IN
     IF flight[k] = "none"
     THEN /\ flight' = [flight EXCEPT ![k] = "query"]
          /\ queries' = [queries EXCEPT ![r] = @ + 1]
     ELSE UNCHANGED <<flight, queries>>
  /\ UNCHANGED <<mode, filter, served, cancelled, record, expansion, reply, cache, failed>>

LookupReceives(r) ==
  /\ pc[r] = "wait" /\ reply[r] # "none"
  /\ HasResults(r, reply[r])
  /\ reply' = [reply EXCEPT ![r] = "none"]
  /\ UNCHANGED <<mode, request, record, dns>>

LookupAbandoned(r) ==
  /\ pc[r] = "wait" /\ cancelled[r]
  /\ ReturnsNothing(r)
  /\ reply' = [reply EXCEPT ![r] = "none"]
  /\ UNCHANGED <<mode, request, record, dns>>

\* One turn of the loop of the innermost call: its results are used up, ...
Top(r) == Head(stack[r])
InLoop(r) == pc[r] = "loop" /\ stack[r] # << >>

CallReturns(r) ==
  /\ InLoop(r) /\ Top(r) = << >>
  /\ stack' = [stack EXCEPT ![r] = Tail(@)]
  /\ UNCHANGED <<mode, request, pc, record, next, resolved, complete, reply, dns>>

\* ... or the record is full, ...
CallTruncated(r) ==
  /\ InLoop(r) /\ Top(r) # << >> /\ room[r] <= 0
  /\ stack' = [stack EXCEPT ![r] = Tail(@)]
  /\ complete' = [complete EXCEPT ![r] = FALSE]
  /\ UNCHANGED <<mode, request, pc, record, next, resolved, reply, dns>>

\* ... or a result is visited.
Visits(r) ==
  /\ InLoop(r) /\ Top(r) # << >> /\ room[r] > 0
  /\ stack' = [stack EXCEPT ![r][1] = Tail(@)]
  /\ UNCHANGED <<mode, request, rec, todo, out, complete, reply, dns>>

VisitSkips(r) ==
  /\ Visits(r)
  /\ NamesAnother(Head(Top(r)), rec[r].pid) \/ Head(Top(r)).kind = "empty"
  /\ UNCHANGED <<pc, room, next, resolved>>

\* Variant for RoomHolds: the limit applies to each call alone.
VisitAddsFree(r) ==
  /\ Visits(r)
  /\ ~NamesAnother(Head(Top(r)), rec[r].pid) /\ Head(Top(r)).kind = "plain"
  /\ resolved' = [resolved EXCEPT ![r] = @ \cup {Head(Top(r)).at}]
  /\ UNCHANGED <<pc, next, room>>

\* Variant for OnlyOwnAddrs: the addresses of other peers are added as well.
VisitAddsAny(r) ==
  /\ Visits(r)
  /\ Head(Top(r)).kind = "plain"
  /\ resolved' = [resolved EXCEPT ![r] = @ \cup {Head(Top(r)).at}]
  /\ room' = [room EXCEPT ![r] = @ - 1]
  /\ UNCHANGED <<pc, next>>

VisitAdds(r) ==
  /\ Visits(r)
  /\ ~NamesAnother(Head(Top(r)), rec[r].pid) /\ Head(Top(r)).kind = "plain"
  /\ resolved' = [resolved EXCEPT ![r] = @ \cup {Head(Top(r)).at}]
  /\ room' = [room EXCEPT ![r] = @ - 1]
  /\ UNCHANGED <<pc, next>>

VisitExpands(r) ==
  /\ Visits(r)
  /\ ~NamesAnother(Head(Top(r)), rec[r].pid) /\ IsDNSAddr(Head(Top(r)))
  /\ pc' = [pc EXCEPT ![r] = "expand"]
  /\ next' = [next EXCEPT ![r] = WithoutID(Head(Top(r)))]
  /\ UNCHANGED <<room, resolved>>

-----------------------------------------------------------------------------
(* resolve, detached from the request that started it; it ends by          *)
(* DNSAddrLookupTimeout.  The outcomes differ in how long they are cached, *)
(* and an entry may go at any time.                                        *)

QueryAnswers(k) ==
  /\ flight[k] = "query"
  /\ \E outcome \in Outcome :
       /\ flight' = [flight EXCEPT ![k] = outcome]
       /\ cache' = [cache EXCEPT ![k] = outcome]
       /\ failed' = IF outcome = "failed" THEN failed \cup {k} ELSE failed
  /\ UNCHANGED <<mode, request, pc, record, expansion, reply>>

\* A request that is not modelled in detail misses the cache: the requests meet
\* only in the cache and in singleflight.
OthersLookUp(k) ==
  /\ flight[k] = "none"
  /\ flight' = [flight EXCEPT ![k] = "query"]
  /\ UNCHANGED <<mode, request, pc, record, expansion, reply, cache, failed>>

\* Variant for RecordsServed: the result reaches only the cache.
FlightEndsSilently(k) ==
  /\ flight[k] \in Outcome
  /\ flight' = [flight EXCEPT ![k] = "none"]
  /\ UNCHANGED <<mode, request, pc, record, expansion, reply, cache, failed>>

\* singleflight forgets the key and sends the result to all who wait for it.
FlightEnds(k) ==
  /\ flight[k] \in Outcome
  /\ reply' = [r \in Requests |-> IF pc[r] = "wait" /\ CacheKey[next[r].at] = k
                                  THEN flight[k] ELSE reply[r]]
  /\ flight' = [flight EXCEPT ![k] = "none"]
  /\ UNCHANGED <<mode, request, pc, record, expansion, cache, failed>>

\* The entry expires, or the LRU drops it.
CacheForgets(k) ==
  /\ cache[k] # "absent"
  /\ cache' = [cache EXCEPT ![k] = "absent"]
  /\ UNCHANGED <<mode, request, pc, record, expansion, reply, flight, failed>>

-----------------------------------------------------------------------------
ResolveStep(r) ==
  \/ CopyAddr(r) \/ DropAddr(r) \/ ExpandAddr(r) \/ AddrExpanded(r) \/ RecordResolved(r)
  \/ ExpandDeclines(r) \/ CacheHit(r) \/ CacheMiss(r)
  \/ LookupDeclined(r) \/ LookupJoins(r) \/ LookupReceives(r) \/ LookupAbandoned(r)
  \/ CallReturns(r) \/ CallTruncated(r)
  \/ VisitSkips(r) \/ VisitAdds(r) \/ VisitExpands(r)

RequestStep(r) ==
  \/ RequestStarts(r) \/ RequestEnds(r) \/ CtxDone(r)
  \/ RecordArrives(r) \/ RecordPasses(r)
  \/ ResolveStep(r)

DNSStep(k) == OthersLookUp(k) \/ QueryAnswers(k) \/ FlightEnds(k) \/ CacheForgets(k)

Next == (\E r \in Requests : RequestStep(r)) \/ (\E k \in Keys : DNSStep(k))

Spec == Init /\ [][Next]_vars

Fairness ==
  /\ \A r \in Requests : WF_vars(ResolveStep(r))
  /\ \A k \in Keys : WF_vars(QueryAnswers(k) \/ FlightEnds(k))

FairSpec == Spec /\ Fairness

-----------------------------------------------------------------------------
(* Reference: what a /dnsaddr stands for, for a peer, in the zone.         *)

Listed(pid, k) == {a \in Elements(Zone[k]) : ~NamesAnother(a, pid)}
NestedKeys(pid, S) ==
  {CacheKey[a.at] : a \in {b \in UNION {Listed(pid, k) : k \in S} : b.kind = "dnsaddr"}}

\* The least set of keys that holds k and whatever its members lead to.
Reach(pid, k) ==
  {j \in Keys : \A S \in SUBSET Keys : k \in S /\ NestedKeys(pid, S) \subseteq S => j \in S}

\* The ways of n hops from k.
Chains(pid, k, n) ==
  {c \in [0 .. n -> Keys] : c[0] = k /\ \A i \in 1 .. n : c[i] \in NestedKeys(pid, {c[i - 1]})}

Reached(pid, k) == UNION {Listed(pid, j) : j \in Reach(pid, k)}
Named(pid, k) == {a.at : a \in {b \in Reached(pid, k) : b.kind = "plain"}}

-----------------------------------------------------------------------------
(* Properties.                                                             *)

Served(r) == pc[r] = "served" /\ Resolves(r, rec[r])
ServedAt(r) == {a.at : a \in {b \in out[r] : b.kind = "plain"}}

Indirections(r) ==
  {a \in Elements(rec[r].addrs) : IsDNSAddr(a) /\ ~NamesAnother(a, rec[r].pid)}

\* MaxDNSAddrLookupsPerRequest: the queries that one response starts, over all
\* its records and their recursion, stay within the budget.
BudgetHolds ==
  \A r \in Requests : queries[r] + budget[r] <= MaxDNSAddrLookupsPerRequest

\* MaxDNSAddrResolvedPerRecord: what one record gains, over all its /dnsaddr
\* and their recursion, stays within the limit.
RoomHolds ==
  \A r \in Requests : pc[r] # "idle" /\ Resolves(r, rec[r]) =>
    Cardinality(out[r] \ Elements(rec[r].addrs)) <= MaxDNSAddrResolvedPerRecord

\* An expansion of a that is whole.
Expanded(r, a) ==
  LET pid == rec[r].pid
      k == CacheKey[a.at]
  IN  /\ a.kind = "dnsaddr"
      /\ \A b \in Reached(pid, k) : b.kind # "suffixed"
      /\ Named(pid, k) \ Private \subseteq ServedAt(r)

\* docs/dnsaddr-resolution.md: "If any part of an expansion is missing, someguy
\* keeps the original".  A /dnsaddr that is gone from a record was expanded to
\* everything it stands for, whatever failed, timed out, was throttled, shared
\* with another request or cut off on the way.
NothingLost ==
  \A r \in Requests : Served(r) => \A a \in Indirections(r) \ out[r] : Expanded(r, a)

\* An address that some /dnsaddr of the record stands for.
Own(r, b) ==
  \E a \in Indirections(r) :
    a.kind = "dnsaddr" /\ b.at \in Named(rec[r].pid, CacheKey[a.at])

\* "Addresses whose /p2p component names a different peer are discarded", and
\* the private ones behind a public name: a record gains only public addresses
\* that its own /dnsaddr stand for, for its peer.
OnlyOwnAddrs ==
  \A r \in Requests : Served(r) =>
    \A b \in out[r] \ Elements(rec[r].addrs) : b.at \notin Private /\ Own(r, b)

\* A reason of the request, or of its record, to keep the /dnsaddr a.
Cause(r, a) ==
  LET pid == rec[r].pid
      k == CacheKey[a.at]
  IN  \/ cancelled[r] \/ budget[r] = 0 \/ room[r] = 0
      \/ a.kind = "suffixed"
      \/ Reach(pid, k) \cap failed # {}
      \/ \E b \in Reached(pid, k) : b.kind = "suffixed"
      \/ Named(pid, k) = {}
      \/ Chains(pid, k, DNSAddrRecursionLimit) # {}

\* "A filtered request is replaced in every resolving mode": where a /dnsaddr is
\* to be replaced it survives only for a reason of its own or of its request: a
\* bound, a cancelled request, a failed query, nothing resolvable.  No other
\* request, cancelled or throttled as it may be, can make it survive.
KeptForCause ==
  \A r \in Requests : Served(r) /\ Action(mode, filter[r]) = "replace" =>
    \A a \in Indirections(r) \cap out[r] : Cause(r, a)

\* The response is not held up: whatever the zone lists, a /dnsaddr that names
\* itself included, and whoever started the query a request waits for, each
\* record comes out.
RecordsServed == \A r \in Requests : pc[r] = "addrs" ~> pc[r] = "served"
=============================================================================
