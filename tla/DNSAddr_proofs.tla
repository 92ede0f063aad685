---------------------------- MODULE DNSAddr_proofs ----------------------------
(***************************************************************************)
(* Proofs about DNSAddr: its type invariant, with the depth of the         *)
(* recursion, the budget of a request and the room of a record, for every  *)
(* zone, every set of records and every value of the three limits.         *)
(***************************************************************************)
EXTENDS DNSAddr, SequenceTheorems, FiniteSetTheorems, TLAPS

(* TypeOK in parts, one for each group of variables.  The bound on queries *)
(* follows from BudgetHolds, so induction starts from a weaker type.       *)

RequestTypes ==
  /\ mode \in Modes
  /\ filter \in [Requests -> {"none", "dnsaddr", "other"}]
  /\ pc \in [Requests -> {"idle", "addrs", "expand", "lookup", "wait", "loop", "served"}]
  /\ served \in [Requests -> 0 .. MaxRecords]
  /\ budget \in [Requests -> 0 .. MaxDNSAddrLookupsPerRequest]
  /\ cancelled \in [Requests -> BOOLEAN]
  /\ queries \in [Requests -> Nat]

RecordTypes ==
  /\ rec \in [Requests -> Records \cup {NoRecord}]
  /\ todo \in [Requests -> Seq(Address)]
  /\ out \in [Requests -> SUBSET Address]
  /\ room \in [Requests -> 0 .. MaxDNSAddrResolvedPerRecord]

ExpansionTypes ==
  /\ next \in [Requests -> Address \cup {NoHost}]
  /\ stack \in [Requests -> Seq(Seq(Address))]
  /\ \A r \in Requests : Len(stack[r]) <= DNSAddrRecursionLimit
  /\ resolved \in [Requests -> SUBSET Plain]
  /\ complete \in [Requests -> BOOLEAN]

DNSTypes ==
  /\ reply \in [Requests -> Outcome \cup {"none"}]
  /\ cache \in [Keys -> Outcome \cup {"absent"}]
  /\ flight \in [Keys -> Outcome \cup {"none", "query"}]
  /\ failed \subseteq Keys

\* An expansion is of the first address left, and a lookup is of a host name at
\* a depth within the limit.
Placed ==
  \A r \in Requests :
    /\ pc[r] \in {"expand", "lookup", "wait", "loop"} => todo[r] # << >>
    /\ pc[r] \in {"lookup", "wait"} =>
         next[r].kind = "dnsaddr" /\ Len(stack[r]) < DNSAddrRecursionLimit
    /\ pc[r] = "idle" => queries[r] = 0 /\ rec[r] = NoRecord

IInv == RequestTypes /\ RecordTypes /\ ExpansionTypes /\ DNSTypes /\ Placed /\ BudgetHolds

-----------------------------------------------------------------------------
\* Removing the peer ID of a /dnsaddr leaves an address.
LEMMA WithoutIDType ==
  ASSUME NEW a \in Address, IsDNSAddr(a)
  PROVE  WithoutID(a) \in Address
<1>1. PICK k \in {"dnsaddr", "suffixed"}, h \in Hosts, i \in Peers \cup {NoPeer} :
        a = [kind |-> k, at |-> h, id |-> i]
  BY DEF Address, IsDNSAddr
<1>2. WithoutID(a) = [kind |-> k, at |-> h, id |-> NoPeer]
  BY <1>1 DEF WithoutID
<1>3. QED
  BY <1>2 DEF Address

\* What expand looks up has a key.
LEMMA KeyType ==
  ASSUME NEW a \in Address \cup {NoHost}, a.kind = "dnsaddr"
  PROVE  CacheKey[a.at] \in Keys
<1>1. a.at \in Hosts
  BY DEF Address, NoHost
<1>2. QED
  BY <1>1 DEF Keys

LEMMA ResultsType ==
  ASSUME NEW k \in Keys, NEW outcome
  PROVE  Results(k, outcome) \in Seq(Address)
BY ConstantsAssumption, EmptySeq DEF Results

\* Calls that return without results, and those that begin to loop over them.
LEMMA ReturnsNothingTypes ==
  ASSUME ExpansionTypes, NEW r \in Requests, ReturnsNothing(r)
  PROVE  ExpansionTypes'
BY DEF ExpansionTypes, ReturnsNothing

LEMMA HasResultsTypes ==
  ASSUME ExpansionTypes, NEW r \in Requests, NEW outcome, HasResults(r, outcome),
         next[r].kind = "dnsaddr", Len(stack[r]) < DNSAddrRecursionLimit
  PROVE  ExpansionTypes'
<1> DEFINE frame == Results(CacheKey[next[r].at], outcome)
           pushed == <<frame>> \o stack[r]
<1>1. next[r] \in Address \cup {NoHost} /\ stack[r] \in Seq(Seq(Address))
  BY DEF ExpansionTypes
<1>2. frame \in Seq(Address)
  BY <1>1, KeyType, ResultsType
<1>3. <<frame>> \in Seq(Seq(Address)) /\ Len(<<frame>>) = 1
  BY <1>2
<1>4. pushed \in Seq(Seq(Address)) /\ Len(pushed) = 1 + Len(stack[r])
  BY <1>1, <1>3, ConcatProperties, Zenon
<1>5. Len(pushed) <= DNSAddrRecursionLimit
  <2>1. Len(stack[r]) \in Nat /\ DNSAddrRecursionLimit \in Nat
    BY <1>1, LenProperties, ConstantsAssumption
  <2>2. QED
    BY <1>4, <2>1
<1>6. stack' = [stack EXCEPT ![r] = pushed]
  BY DEF HasResults
<1> HIDE DEF pushed
<1>7. /\ stack' \in [Requests -> Seq(Seq(Address))]
      /\ \A q \in Requests : Len(stack'[q]) <= DNSAddrRecursionLimit
  BY <1>4, <1>5, <1>6 DEF ExpansionTypes
<1>8. QED
  BY <1>7 DEF ExpansionTypes, HasResults

\* Popping a frame, or moving on in the innermost one.
LEMMA PopTypes ==
  ASSUME ExpansionTypes, NEW r \in Requests, stack[r] # << >>,
         stack' = [stack EXCEPT ![r] = Tail(@)]
  PROVE  /\ stack' \in [Requests -> Seq(Seq(Address))]
         /\ \A q \in Requests : Len(stack'[q]) <= DNSAddrRecursionLimit
<1>1. /\ Tail(stack[r]) \in Seq(Seq(Address))
      /\ Len(Tail(stack[r])) = Len(stack[r]) - 1
  BY HeadTailProperties, Zenon DEF ExpansionTypes
<1>2. Len(stack[r]) \in Nat /\ Len(stack[r]) <= DNSAddrRecursionLimit
  BY LenProperties DEF ExpansionTypes
<1>3. Len(Tail(stack[r])) <= DNSAddrRecursionLimit
  BY <1>1, <1>2, ConstantsAssumption
<1>4. QED
  BY <1>1, <1>3 DEF ExpansionTypes

LEMMA VisitTypes ==
  ASSUME ExpansionTypes, NEW r \in Requests, Visits(r)
  PROVE  /\ Head(Top(r)) \in Address
         /\ stack' \in [Requests -> Seq(Seq(Address))]
         /\ \A q \in Requests : Len(stack'[q]) <= DNSAddrRecursionLimit
<1> DEFINE moved == [stack[r] EXCEPT ![1] = Tail(stack[r][1])]
<1>1. stack[r] \in Seq(Seq(Address)) /\ stack[r] # << >>
  BY DEF ExpansionTypes, Visits, InLoop
<1>2. 1 \in 1 .. Len(stack[r])
  BY <1>1, EmptySeq
<1>3. Top(r) = stack[r][1] /\ Top(r) \in Seq(Address)
  BY <1>1, <1>2, ElementOfSeq DEF Top
<1>4. Head(Top(r)) \in Address /\ Tail(stack[r][1]) \in Seq(Address)
  BY <1>3, HeadTailProperties DEF Visits
<1>5. moved \in Seq(Seq(Address)) /\ Len(moved) = Len(stack[r])
  BY <1>1, <1>2, <1>4, ExceptSeq
<1>6. stack' = [stack EXCEPT ![r] = moved]
  BY DEF Visits
<1> HIDE DEF moved
<1>7. QED
  BY <1>4, <1>5, <1>6 DEF ExpansionTypes

-----------------------------------------------------------------------------
\* The steps of resolveAddrs and of expand preserve the invariant.
LEMMA ResolveStepInv ==
  ASSUME IInv, NEW r \in Requests, ResolveStep(r)
  PROVE  IInv'
<1> USE ConstantsAssumption DEF IInv, Goes, request, record, expansion, dns
<1>1. CASE CopyAddr(r)
  <2>1. RequestTypes'
    BY <1>1 DEF CopyAddr, RequestTypes
  <2>2. RecordTypes'
    <3>1. Tail(todo[r]) \in Seq(Address) /\ Head(todo[r]) \in Address
      BY <1>1, HeadTailProperties DEF CopyAddr, RecordTypes, Placed
    <3>2. QED
      BY <1>1, <3>1 DEF CopyAddr, RecordTypes
  <2>3. ExpansionTypes'
    BY <1>1 DEF CopyAddr, ExpansionTypes
  <2>4. DNSTypes'
    BY <1>1 DEF CopyAddr, DNSTypes
  <2>5. Placed'
    BY <1>1 DEF CopyAddr, Placed
  <2>6. BudgetHolds'
    BY <1>1 DEF CopyAddr, BudgetHolds
  <2>7. QED
    BY <2>1, <2>2, <2>3, <2>4, <2>5, <2>6 DEF IInv
<1>2. CASE DropAddr(r)
  <2>1. RequestTypes'
    BY <1>2 DEF DropAddr, RequestTypes
  <2>2. RecordTypes'
    <3>1. Tail(todo[r]) \in Seq(Address) /\ Head(todo[r]) \in Address
      BY <1>2, HeadTailProperties DEF DropAddr, RecordTypes, Placed
    <3>2. QED
      BY <1>2, <3>1 DEF DropAddr, RecordTypes
  <2>3. ExpansionTypes'
    BY <1>2 DEF DropAddr, ExpansionTypes
  <2>4. DNSTypes'
    BY <1>2 DEF DropAddr, DNSTypes
  <2>5. Placed'
    BY <1>2 DEF DropAddr, Placed
  <2>6. BudgetHolds'
    BY <1>2 DEF DropAddr, BudgetHolds
  <2>7. QED
    BY <2>1, <2>2, <2>3, <2>4, <2>5, <2>6 DEF IInv
<1>3. CASE ExpandAddr(r)
  <2>1. RequestTypes'
    BY <1>3 DEF ExpandAddr, RequestTypes
  <2>2. RecordTypes'
    BY <1>3 DEF ExpandAddr, RecordTypes
  <2>3. ExpansionTypes'
    <3>1. Head(todo[r]) \in Address
      BY <1>3, HeadTailProperties DEF ExpandAddr, RecordTypes
    <3>2. WithoutID(Head(todo[r])) \in Address
      BY <1>3, <3>1, WithoutIDType DEF ExpandAddr
    <3>3. QED
      BY <1>3, <3>2 DEF ExpandAddr, ExpansionTypes
  <2>4. DNSTypes'
    BY <1>3 DEF ExpandAddr, DNSTypes
  <2>5. Placed'
    BY <1>3 DEF ExpandAddr, Placed
  <2>6. BudgetHolds'
    BY <1>3 DEF ExpandAddr, BudgetHolds
  <2>7. QED
    BY <2>1, <2>2, <2>3, <2>4, <2>5, <2>6 DEF IInv
<1>4. CASE AddrExpanded(r)
  <2>1. RequestTypes'
    BY <1>4 DEF AddrExpanded, RequestTypes
  <2>2. RecordTypes'
    <3>1. Tail(todo[r]) \in Seq(Address) /\ Head(todo[r]) \in Address
      BY <1>4, HeadTailProperties DEF AddrExpanded, RecordTypes, Placed
    <3>2. FromResolved(r) \in SUBSET Address
      BY DEF ExpansionTypes, FromResolved, Address
    <3>3. out' \in [Requests -> SUBSET Address]
      BY <1>4, <3>1, <3>2 DEF AddrExpanded, RecordTypes
    <3>4. QED
      BY <1>4, <3>1, <3>3 DEF AddrExpanded, RecordTypes
  <2>3. ExpansionTypes'
    BY <1>4 DEF AddrExpanded, ExpansionTypes
  <2>4. DNSTypes'
    BY <1>4 DEF AddrExpanded, DNSTypes
  <2>5. Placed'
    BY <1>4 DEF AddrExpanded, Placed, RequestTypes, RecordTypes, ExpansionTypes
  <2>6. BudgetHolds'
    BY <1>4 DEF AddrExpanded, BudgetHolds
  <2>7. QED
    BY <2>1, <2>2, <2>3, <2>4, <2>5, <2>6 DEF IInv
<1>5. CASE RecordResolved(r)
  <2>1. RequestTypes'
    BY <1>5 DEF RecordResolved, FilterPrivate, RequestTypes
  <2>2. RecordTypes'
    BY <1>5 DEF RecordResolved, FilterPrivate, RecordTypes
  <2>3. ExpansionTypes'
    BY <1>5 DEF RecordResolved, FilterPrivate, ExpansionTypes
  <2>4. DNSTypes'
    BY <1>5 DEF RecordResolved, FilterPrivate, DNSTypes
  <2>5. Placed'
    BY <1>5 DEF RecordResolved, FilterPrivate, Placed
  <2>6. BudgetHolds'
    BY <1>5 DEF RecordResolved, FilterPrivate, BudgetHolds
  <2>7. QED
    BY <2>1, <2>2, <2>3, <2>4, <2>5, <2>6 DEF IInv
<1>6. CASE ExpandDeclines(r)
  <2>1. RequestTypes'
    BY <1>6 DEF ExpandDeclines, ReturnsNothing, RequestTypes
  <2>2. RecordTypes'
    BY <1>6 DEF ExpandDeclines, ReturnsNothing, RecordTypes
  <2>3. ExpansionTypes'
    BY <1>6, ReturnsNothingTypes DEF ExpandDeclines
  <2>4. DNSTypes'
    BY <1>6 DEF ExpandDeclines, ReturnsNothing, DNSTypes
  <2>5. Placed'
    BY <1>6 DEF ExpandDeclines, ReturnsNothing, Placed
  <2>6. BudgetHolds'
    BY <1>6 DEF ExpandDeclines, ReturnsNothing, BudgetHolds
  <2>7. QED
    BY <2>1, <2>2, <2>3, <2>4, <2>5, <2>6 DEF IInv
<1>7. CASE CacheHit(r)
  <2>1. RequestTypes'
    BY <1>7 DEF CacheHit, HasResults, RequestTypes
  <2>2. RecordTypes'
    BY <1>7 DEF CacheHit, HasResults, RecordTypes
  <2>3. ExpansionTypes'
    BY <1>7, HasResultsTypes DEF CacheHit, MayExpand, Resolvable
  <2>4. DNSTypes'
    BY <1>7 DEF CacheHit, HasResults, DNSTypes
  <2>5. Placed'
    BY <1>7 DEF CacheHit, HasResults, Placed
  <2>6. BudgetHolds'
    BY <1>7 DEF CacheHit, HasResults, BudgetHolds
  <2>7. QED
    BY <2>1, <2>2, <2>3, <2>4, <2>5, <2>6 DEF IInv
<1>8. CASE CacheMiss(r)
  <2>1. RequestTypes'
    BY <1>8 DEF CacheMiss, MayExpand, RequestTypes
  <2>2. RecordTypes'
    BY <1>8 DEF CacheMiss, MayExpand, RecordTypes
  <2>3. ExpansionTypes'
    BY <1>8 DEF CacheMiss, MayExpand, ExpansionTypes
  <2>4. DNSTypes'
    BY <1>8 DEF CacheMiss, MayExpand, DNSTypes
  <2>5. Placed'
    BY <1>8 DEF CacheMiss, MayExpand, Resolvable, Placed
  <2>6. BudgetHolds'
    BY <1>8 DEF CacheMiss, MayExpand, BudgetHolds
  <2>7. QED
    BY <2>1, <2>2, <2>3, <2>4, <2>5, <2>6 DEF IInv
<1>9. CASE LookupDeclined(r)
  <2>1. RequestTypes'
    BY <1>9 DEF LookupDeclined, ReturnsNothing, RequestTypes
  <2>2. RecordTypes'
    BY <1>9 DEF LookupDeclined, ReturnsNothing, RecordTypes
  <2>3. ExpansionTypes'
    BY <1>9, ReturnsNothingTypes DEF LookupDeclined
  <2>4. DNSTypes'
    BY <1>9 DEF LookupDeclined, ReturnsNothing, DNSTypes
  <2>5. Placed'
    BY <1>9 DEF LookupDeclined, ReturnsNothing, Placed
  <2>6. BudgetHolds'
    BY <1>9 DEF LookupDeclined, ReturnsNothing, BudgetHolds
  <2>7. QED
    BY <2>1, <2>2, <2>3, <2>4, <2>5, <2>6 DEF IInv
<1>10. CASE LookupJoins(r)
  <2>1. RequestTypes'
    <3>1. queries' \in [Requests -> Nat]
      <4>1. queries' \in {queries, [queries EXCEPT ![r] = @ + 1]}
        BY <1>10 DEF LookupJoins, Spends
      <4>2. CASE queries' = queries
        BY <4>2 DEF RequestTypes
      <4>3. CASE queries' = [queries EXCEPT ![r] = @ + 1]
        BY <4>3 DEF RequestTypes
      <4>4. QED
        BY <4>1, <4>2, <4>3
    <3>2. budget' \in [Requests -> 0 .. MaxDNSAddrLookupsPerRequest]
      BY <1>10 DEF LookupJoins, Spends, RequestTypes
    <3>3. QED
      BY <1>10, <3>1, <3>2 DEF LookupJoins, Spends, RequestTypes
  <2>2. RecordTypes'
    BY <1>10 DEF LookupJoins, Spends, RecordTypes
  <2>3. ExpansionTypes'
    BY <1>10 DEF LookupJoins, Spends, ExpansionTypes
  <2>4. DNSTypes'
    <3>1. CacheKey[next[r].at] \in Keys
      BY <1>10, KeyType DEF LookupJoins, Spends, Placed, ExpansionTypes
    <3>2. QED
      BY <1>10, <3>1 DEF LookupJoins, Spends, DNSTypes
  <2>5. Placed'
    BY <1>10 DEF LookupJoins, Spends, Placed, RequestTypes
  <2>6. BudgetHolds'
    <3>1. \A q \in Requests \ {r} : queries'[q] = queries[q] /\ budget'[q] = budget[q]
      BY <1>10 DEF LookupJoins, Spends, RequestTypes
    <3>2. queries'[r] \in {queries[r], queries[r] + 1} /\ budget'[r] = budget[r] - 1
      BY <1>10 DEF LookupJoins, Spends, RequestTypes
    <3>3. queries[r] \in Nat /\ budget[r] \in Nat
      BY DEF RequestTypes
    <3>4. queries'[r] + budget'[r] <= MaxDNSAddrLookupsPerRequest
      BY <3>2, <3>3 DEF BudgetHolds
    <3>5. QED
      BY <3>1, <3>4 DEF BudgetHolds
  <2>7. QED
    BY <2>1, <2>2, <2>3, <2>4, <2>5, <2>6 DEF IInv
<1>11. CASE LookupReceives(r)
  <2>1. RequestTypes'
    BY <1>11 DEF LookupReceives, HasResults, RequestTypes
  <2>2. RecordTypes'
    BY <1>11 DEF LookupReceives, HasResults, RecordTypes
  <2>3. ExpansionTypes'
    BY <1>11, HasResultsTypes DEF LookupReceives, Placed
  <2>4. DNSTypes'
    BY <1>11 DEF LookupReceives, HasResults, DNSTypes
  <2>5. Placed'
    BY <1>11 DEF LookupReceives, HasResults, Placed, RequestTypes, ExpansionTypes
  <2>6. BudgetHolds'
    BY <1>11 DEF LookupReceives, HasResults, BudgetHolds
  <2>7. QED
    BY <2>1, <2>2, <2>3, <2>4, <2>5, <2>6 DEF IInv
<1>12. CASE LookupAbandoned(r)
  <2>1. RequestTypes'
    BY <1>12 DEF LookupAbandoned, ReturnsNothing, RequestTypes
  <2>2. RecordTypes'
    BY <1>12 DEF LookupAbandoned, ReturnsNothing, RecordTypes
  <2>3. ExpansionTypes'
    BY <1>12, ReturnsNothingTypes DEF LookupAbandoned
  <2>4. DNSTypes'
    BY <1>12 DEF LookupAbandoned, ReturnsNothing, DNSTypes
  <2>5. Placed'
    BY <1>12 DEF LookupAbandoned, ReturnsNothing, Placed
  <2>6. BudgetHolds'
    BY <1>12 DEF LookupAbandoned, ReturnsNothing, BudgetHolds
  <2>7. QED
    BY <2>1, <2>2, <2>3, <2>4, <2>5, <2>6 DEF IInv
<1>13. CASE CallReturns(r)
  <2>1. RequestTypes'
    BY <1>13 DEF CallReturns, InLoop, RequestTypes
  <2>2. RecordTypes'
    BY <1>13 DEF CallReturns, InLoop, RecordTypes
  <2>3. ExpansionTypes'
    BY <1>13, PopTypes DEF CallReturns, InLoop, ExpansionTypes
  <2>4. DNSTypes'
    BY <1>13 DEF CallReturns, InLoop, DNSTypes
  <2>5. Placed'
    BY <1>13 DEF CallReturns, InLoop, Placed
  <2>6. BudgetHolds'
    BY <1>13 DEF CallReturns, InLoop, BudgetHolds
  <2>7. QED
    BY <2>1, <2>2, <2>3, <2>4, <2>5, <2>6 DEF IInv
<1>14. CASE CallTruncated(r)
  <2>1. RequestTypes'
    BY <1>14 DEF CallTruncated, InLoop, RequestTypes
  <2>2. RecordTypes'
    BY <1>14 DEF CallTruncated, InLoop, RecordTypes
  <2>3. ExpansionTypes'
    BY <1>14, PopTypes DEF CallTruncated, InLoop, ExpansionTypes
  <2>4. DNSTypes'
    BY <1>14 DEF CallTruncated, InLoop, DNSTypes
  <2>5. Placed'
    BY <1>14 DEF CallTruncated, InLoop, Placed
  <2>6. BudgetHolds'
    BY <1>14 DEF CallTruncated, InLoop, BudgetHolds
  <2>7. QED
    BY <2>1, <2>2, <2>3, <2>4, <2>5, <2>6 DEF IInv
<1>15. CASE VisitSkips(r)
  <2>1. RequestTypes'
    BY <1>15 DEF VisitSkips, Visits, InLoop, RequestTypes
  <2>2. RecordTypes'
    BY <1>15 DEF VisitSkips, Visits, InLoop, RecordTypes
  <2>3. ExpansionTypes'
    <3>1. Visits(r)
      BY <1>15 DEF VisitSkips
    <3>2. QED
      BY <1>15, <3>1, VisitTypes DEF VisitSkips, Visits, ExpansionTypes
  <2>4. DNSTypes'
    BY <1>15 DEF VisitSkips, Visits, InLoop, DNSTypes
  <2>5. Placed'
    BY <1>15 DEF VisitSkips, Visits, InLoop, Placed
  <2>6. BudgetHolds'
    BY <1>15 DEF VisitSkips, Visits, InLoop, BudgetHolds
  <2>7. QED
    BY <2>1, <2>2, <2>3, <2>4, <2>5, <2>6 DEF IInv
<1>16. CASE VisitAdds(r)
  <2>1. RequestTypes'
    BY <1>16 DEF VisitAdds, Visits, InLoop, RequestTypes
  <2>2. RecordTypes'
    BY <1>16 DEF VisitAdds, Visits, InLoop, RecordTypes
  <2>3. ExpansionTypes'
    <3>1. Visits(r)
      BY <1>16 DEF VisitAdds
    <3>2. Head(Top(r)).at \in Plain
      BY <1>16, <3>1, VisitTypes DEF VisitAdds, Address
    <3>3. QED
      BY <1>16, <3>1, <3>2, VisitTypes DEF VisitAdds, Visits, ExpansionTypes
  <2>4. DNSTypes'
    BY <1>16 DEF VisitAdds, Visits, InLoop, DNSTypes
  <2>5. Placed'
    BY <1>16 DEF VisitAdds, Visits, InLoop, Placed
  <2>6. BudgetHolds'
    BY <1>16 DEF VisitAdds, Visits, InLoop, BudgetHolds
  <2>7. QED
    BY <2>1, <2>2, <2>3, <2>4, <2>5, <2>6 DEF IInv
<1>17. CASE VisitExpands(r)
  <2>1. RequestTypes'
    BY <1>17 DEF VisitExpands, Visits, InLoop, RequestTypes
  <2>2. RecordTypes'
    BY <1>17 DEF VisitExpands, Visits, InLoop, RecordTypes
  <2>3. ExpansionTypes'
    <3>1. Visits(r)
      BY <1>17 DEF VisitExpands
    <3>2. WithoutID(Head(Top(r))) \in Address
      BY <1>17, <3>1, VisitTypes, WithoutIDType DEF VisitExpands
    <3>3. QED
      BY <1>17, <3>1, <3>2, VisitTypes DEF VisitExpands, Visits, ExpansionTypes
  <2>4. DNSTypes'
    BY <1>17 DEF VisitExpands, Visits, InLoop, DNSTypes
  <2>5. Placed'
    BY <1>17 DEF VisitExpands, Visits, InLoop, Placed
  <2>6. BudgetHolds'
    BY <1>17 DEF VisitExpands, Visits, InLoop, BudgetHolds
  <2>7. QED
    BY <2>1, <2>2, <2>3, <2>4, <2>5, <2>6 DEF IInv
<1>18. QED
  BY <1>1, <1>2, <1>3, <1>4, <1>5, <1>6, <1>7, <1>8, <1>9, <1>10, <1>11, <1>12, <1>13, <1>14, <1>15, <1>16, <1>17 DEF ResolveStep

\* So do those of the request, ...
LEMMA RequestStepInv ==
  ASSUME IInv, NEW r \in Requests, RequestStep(r)
  PROVE  IInv'
<1> USE ConstantsAssumption DEF IInv, Goes, request, record, expansion, dns
<1>1. CASE RequestStarts(r)
  <2>1. RequestTypes'
    BY <1>1 DEF RequestStarts, RequestTypes
  <2>2. RecordTypes'
    BY <1>1 DEF RequestStarts, RecordTypes
  <2>3. ExpansionTypes'
    BY <1>1 DEF RequestStarts, ExpansionTypes
  <2>4. DNSTypes'
    BY <1>1 DEF RequestStarts, DNSTypes
  <2>5. Placed'
    BY <1>1 DEF RequestStarts, Placed
  <2>6. BudgetHolds'
    BY <1>1 DEF RequestStarts, BudgetHolds, RequestTypes, Placed
  <2>7. QED
    BY <2>1, <2>2, <2>3, <2>4, <2>5, <2>6 DEF IInv
<1>2. CASE RequestEnds(r)
  <2>1. RequestTypes'
    BY <1>2 DEF RequestEnds, RequestTypes
  <2>2. RecordTypes'
    BY <1>2 DEF RequestEnds, RecordTypes
  <2>3. ExpansionTypes'
    BY <1>2 DEF RequestEnds, ExpansionTypes
  <2>4. DNSTypes'
    BY <1>2 DEF RequestEnds, DNSTypes
  <2>5. Placed'
    BY <1>2 DEF RequestEnds, Placed, RequestTypes, RecordTypes
  <2>6. BudgetHolds'
    BY <1>2 DEF RequestEnds, BudgetHolds, RequestTypes
  <2>7. QED
    BY <2>1, <2>2, <2>3, <2>4, <2>5, <2>6 DEF IInv
<1>3. CASE CtxDone(r)
  <2>1. RequestTypes'
    BY <1>3 DEF CtxDone, RequestTypes
  <2>2. RecordTypes'
    BY <1>3 DEF CtxDone, RecordTypes
  <2>3. ExpansionTypes'
    BY <1>3 DEF CtxDone, ExpansionTypes
  <2>4. DNSTypes'
    BY <1>3 DEF CtxDone, DNSTypes
  <2>5. Placed'
    BY <1>3 DEF CtxDone, Placed
  <2>6. BudgetHolds'
    BY <1>3 DEF CtxDone, BudgetHolds
  <2>7. QED
    BY <2>1, <2>2, <2>3, <2>4, <2>5, <2>6 DEF IInv
<1>4. CASE RecordArrives(r)
  <2>1. RequestTypes'
    BY <1>4 DEF RecordArrives, RequestTypes
  <2>2. RecordTypes'
    BY <1>4 DEF RecordArrives, RecordTypes
  <2>3. ExpansionTypes'
    BY <1>4 DEF RecordArrives, ExpansionTypes
  <2>4. DNSTypes'
    BY <1>4 DEF RecordArrives, DNSTypes
  <2>5. Placed'
    BY <1>4 DEF RecordArrives, Placed
  <2>6. BudgetHolds'
    BY <1>4 DEF RecordArrives, BudgetHolds
  <2>7. QED
    BY <2>1, <2>2, <2>3, <2>4, <2>5, <2>6 DEF IInv
<1>5. CASE RecordPasses(r)
  <2>1. RequestTypes'
    BY <1>5 DEF RecordPasses, RequestTypes
  <2>2. RecordTypes'
    <3>1. PICK v \in Records : /\ rec' = [rec EXCEPT ![r] = v]
                               /\ out' = [out EXCEPT ![r] = Elements(v.addrs)]
      BY <1>5 DEF RecordPasses
    <3>2. Elements(v.addrs) \subseteq Address
      BY LenProperties, ElementOfSeq DEF Elements
    <3>3. QED
      BY <1>5, <3>1, <3>2 DEF RecordPasses, RecordTypes
  <2>3. ExpansionTypes'
    BY <1>5 DEF RecordPasses, ExpansionTypes
  <2>4. DNSTypes'
    BY <1>5 DEF RecordPasses, DNSTypes
  <2>5. Placed'
    BY <1>5 DEF RecordPasses, Placed
  <2>6. BudgetHolds'
    BY <1>5 DEF RecordPasses, BudgetHolds
  <2>7. QED
    BY <2>1, <2>2, <2>3, <2>4, <2>5, <2>6 DEF IInv
<1>6. QED
  BY <1>1, <1>2, <1>3, <1>4, <1>5, ResolveStepInv DEF RequestStep

\* ... and those of the queries.
LEMMA DNSStepInv ==
  ASSUME IInv, NEW k \in Keys, DNSStep(k)
  PROVE  IInv'
<1> USE ConstantsAssumption DEF IInv, Goes, request, record, expansion, dns
<1>1. CASE OthersLookUp(k)
  <2>1. RequestTypes'
    BY <1>1 DEF OthersLookUp, RequestTypes
  <2>2. RecordTypes'
    BY <1>1 DEF OthersLookUp, RecordTypes
  <2>3. ExpansionTypes'
    BY <1>1 DEF OthersLookUp, ExpansionTypes
  <2>4. DNSTypes'
    BY <1>1 DEF OthersLookUp, DNSTypes
  <2>5. Placed'
    BY <1>1 DEF OthersLookUp, Placed
  <2>6. BudgetHolds'
    BY <1>1 DEF OthersLookUp, BudgetHolds
  <2>7. QED
    BY <2>1, <2>2, <2>3, <2>4, <2>5, <2>6 DEF IInv
<1>2. CASE QueryAnswers(k)
  <2>1. RequestTypes'
    BY <1>2 DEF QueryAnswers, RequestTypes
  <2>2. RecordTypes'
    BY <1>2 DEF QueryAnswers, RecordTypes
  <2>3. ExpansionTypes'
    BY <1>2 DEF QueryAnswers, ExpansionTypes
  <2>4. DNSTypes'
    BY <1>2 DEF QueryAnswers, DNSTypes
  <2>5. Placed'
    BY <1>2 DEF QueryAnswers, Placed
  <2>6. BudgetHolds'
    BY <1>2 DEF QueryAnswers, BudgetHolds
  <2>7. QED
    BY <2>1, <2>2, <2>3, <2>4, <2>5, <2>6 DEF IInv
<1>3. CASE FlightEnds(k)
  <2>1. RequestTypes'
    BY <1>3 DEF FlightEnds, RequestTypes
  <2>2. RecordTypes'
    BY <1>3 DEF FlightEnds, RecordTypes
  <2>3. ExpansionTypes'
    BY <1>3 DEF FlightEnds, ExpansionTypes
  <2>4. DNSTypes'
    BY <1>3 DEF FlightEnds, DNSTypes
  <2>5. Placed'
    BY <1>3 DEF FlightEnds, Placed
  <2>6. BudgetHolds'
    BY <1>3 DEF FlightEnds, BudgetHolds
  <2>7. QED
    BY <2>1, <2>2, <2>3, <2>4, <2>5, <2>6 DEF IInv
<1>4. CASE CacheForgets(k)
  <2>1. RequestTypes'
    BY <1>4 DEF CacheForgets, RequestTypes
  <2>2. RecordTypes'
    BY <1>4 DEF CacheForgets, RecordTypes
  <2>3. ExpansionTypes'
    BY <1>4 DEF CacheForgets, ExpansionTypes
  <2>4. DNSTypes'
    BY <1>4 DEF CacheForgets, DNSTypes
  <2>5. Placed'
    BY <1>4 DEF CacheForgets, Placed
  <2>6. BudgetHolds'
    BY <1>4 DEF CacheForgets, BudgetHolds
  <2>7. QED
    BY <2>1, <2>2, <2>3, <2>4, <2>5, <2>6 DEF IInv
<1>5. QED
  BY <1>1, <1>2, <1>3, <1>4 DEF DNSStep

-----------------------------------------------------------------------------
LEMMA StepInv == IInv /\ [Next]_vars => IInv'
<1> SUFFICES ASSUME IInv, [Next]_vars PROVE IInv'
  OBVIOUS
<1>1. CASE UNCHANGED vars
  BY <1>1 DEF vars, request, record, expansion, dns, IInv, RequestTypes, RecordTypes,
              ExpansionTypes, DNSTypes, Placed, BudgetHolds
<1>2. CASE \E r \in Requests : RequestStep(r)
  BY <1>2, RequestStepInv
<1>3. CASE \E k \in Keys : DNSStep(k)
  BY <1>3, DNSStepInv
<1>4. QED
  BY <1>1, <1>2, <1>3 DEF Next

LEMMA Invariance == Spec => []IInv
<1>1. Init => IInv
  <2> SUFFICES ASSUME Init PROVE IInv
    OBVIOUS
  <2> USE ConstantsAssumption DEF Init
  <2>1. RequestTypes
    BY DEF RequestTypes
  <2>2. RecordTypes
    BY EmptySeq DEF RecordTypes
  <2>3. ExpansionTypes
    BY EmptySeq DEF ExpansionTypes
  <2>4. DNSTypes
    BY DEF DNSTypes
  <2>5. Placed
    BY DEF Placed
  <2>6. BudgetHolds
    BY DEF BudgetHolds
  <2>7. QED
    BY <2>1, <2>2, <2>3, <2>4, <2>5, <2>6 DEF IInv
<1>2. QED
  BY <1>1, StepInv, PTL DEF Spec

-----------------------------------------------------------------------------
\* The queries that one response starts, over all its records and whatever they
\* name, stay within MaxDNSAddrLookupsPerRequest.
THEOREM BudgetCorrect == Spec => []BudgetHolds
<1>1. IInv => BudgetHolds
  BY DEF IInv
<1>2. QED
  BY <1>1, Invariance, PTL

\* Every variable has its type; above all the recursion of expand stays within
\* DNSAddrRecursionLimit, whatever the zone lists.
THEOREM TypeCorrect == Spec => []TypeOK
<1>1. IInv => TypeOK
  <2> SUFFICES ASSUME IInv PROVE TypeOK
    OBVIOUS
  <2>1. queries \in [Requests -> 0 .. MaxDNSAddrLookupsPerRequest]
    <3>1. \A r \in Requests : queries[r] \in 0 .. MaxDNSAddrLookupsPerRequest
      BY ConstantsAssumption DEF IInv, RequestTypes, BudgetHolds
    <3>2. QED
      BY <3>1 DEF IInv, RequestTypes
  <2>2. QED
    BY <2>1 DEF IInv, RequestTypes, RecordTypes, ExpansionTypes, DNSTypes, TypeOK
<1>2. QED
  BY <1>1, Invariance, PTL
-----------------------------------------------------------------------------
(* What a record has gained, with what the expansion in progress will add, *)
(* leaves the room that the record still has.                              *)

Expanding(r) == pc[r] \in {"expand", "lookup", "wait", "loop"}
Gained(r) == (out[r] \ Elements(rec[r].addrs)) \cup FromResolved(r)

RoomInv ==
  \A r \in Requests :
    /\ ~Expanding(r) => resolved[r] = {}
    /\ pc[r] = "addrs" \/ Expanding(r) => Elements(todo[r]) \subseteq Elements(rec[r].addrs)
    /\ Resolves(r, rec[r]) =>
         /\ IsFiniteSet(Gained(r))
         /\ Cardinality(Gained(r)) + room[r] <= MaxDNSAddrResolvedPerRecord

\* Gaining nothing new keeps to the room.
LEMMA GainsLess ==
  ASSUME NEW S, IsFiniteSet(S), NEW T \in SUBSET S, NEW n \in Nat, NEW max \in Nat,
         Cardinality(S) + n <= max
  PROVE  IsFiniteSet(T) /\ Cardinality(T) + n <= max
<1>1. /\ IsFiniteSet(T) /\ Cardinality(T) <= Cardinality(S)
      /\ Cardinality(S) \in Nat /\ Cardinality(T) \in Nat
  BY FS_Subset, FS_CardinalityType
<1>2. QED
  BY <1>1

\* Neither does gaining one address for one unit of room.
LEMMA GainsOne ==
  ASSUME NEW S, IsFiniteSet(S), NEW x, NEW n \in Nat, n > 0, NEW max \in Nat,
         Cardinality(S) + n <= max
  PROVE  IsFiniteSet(S \cup {x}) /\ Cardinality(S \cup {x}) + (n - 1) <= max
<1>1. Cardinality(S) \in Nat /\ IsFiniteSet(S \cup {x})
  BY FS_CardinalityType, FS_AddElement
<1>2. Cardinality(S \cup {x}) <= Cardinality(S) + 1
  BY <1>1, FS_AddElement
<1>3. Cardinality(S \cup {x}) \in Nat
  BY <1>1, FS_CardinalityType
<1>4. QED
  BY <1>1, <1>2, <1>3

\* The rest of a sequence has no new elements.
LEMMA TailElements ==
  ASSUME NEW s \in Seq(Address), s # << >>
  PROVE  Elements(Tail(s)) \subseteq Elements(s) /\ Head(s) \in Elements(s)
<1>1. /\ Len(s) \in Nat \ {0} /\ DOMAIN s = 1 .. Len(s)
      /\ Tail(s) \in Seq(Address) /\ Len(Tail(s)) = Len(s) - 1
      /\ \A i \in 1 .. Len(Tail(s)) : Tail(s)[i] = s[i + 1]
  BY LenProperties, EmptySeq, HeadTailProperties
<1>2. DOMAIN Tail(s) = 1 .. Len(Tail(s))
  BY <1>1, LenProperties
<1>3. Head(s) = s[1]
  BY <1>1
<1>4. Head(s) \in Elements(s)
  BY <1>1, <1>3 DEF Elements
<1>5. \A i \in DOMAIN Tail(s) : i + 1 \in DOMAIN s /\ Tail(s)[i] = s[i + 1]
  BY <1>1, <1>2
<1>6. QED
  BY <1>4, <1>5 DEF Elements

\* Most steps neither gain an address nor move on to another.
LEMMA RoomKept ==
  ASSUME RoomInv, UNCHANGED <<mode, filter, rec, todo, out, room, resolved>>,
         \A r \in Requests : /\ Expanding(r) => Expanding(r)'
                             /\ pc'[r] = "addrs" \/ Expanding(r)' => pc[r] = "addrs" \/ Expanding(r)
  PROVE  RoomInv'
BY DEF RoomInv, Gained, FromResolved, Resolves

\* A step of r leaves the others alone, so only what it says of r is to show.
LEMMA RoomOthers ==
  ASSUME RoomInv, NEW r \in Requests,
         mode' = mode,
         \A q \in Requests \ {r} :
           /\ filter'[q] = filter[q] /\ rec'[q] = rec[q] /\ todo'[q] = todo[q]
           /\ out'[q] = out[q] /\ room'[q] = room[q] /\ resolved'[q] = resolved[q]
           /\ pc'[q] = pc[q],
         ~Expanding(r)' => resolved'[r] = {},
         pc'[r] = "addrs" \/ Expanding(r)' => Elements(todo'[r]) \subseteq Elements(rec'[r].addrs),
         Resolves(r, rec[r])' =>
           /\ IsFiniteSet(Gained(r)')
           /\ Cardinality(Gained(r)') + room'[r] <= MaxDNSAddrResolvedPerRecord
  PROVE  RoomInv'
<1> SUFFICES ASSUME NEW q \in Requests
             PROVE  /\ ~Expanding(q)' => resolved'[q] = {}
                    /\ pc'[q] = "addrs" \/ Expanding(q)' =>
                         Elements(todo'[q]) \subseteq Elements(rec'[q].addrs)
                    /\ Resolves(q, rec[q])' =>
                         /\ IsFiniteSet(Gained(q)')
                         /\ Cardinality(Gained(q)') + room'[q] <= MaxDNSAddrResolvedPerRecord
  BY DEF RoomInv
<1>1. CASE q = r
  BY <1>1
<1>2. CASE q # r
  <2>1. Gained(q)' = Gained(q) /\ (Resolves(q, rec[q])' <=> Resolves(q, rec[q]))
    BY <1>2 DEF Gained, FromResolved, Resolves
  <2>2. QED
    BY <1>2, <2>1 DEF RoomInv, Expanding
<1>3. QED
  BY <1>1, <1>2

LEMMA RoomResolve ==
  ASSUME IInv, RoomInv, NEW r \in Requests, ResolveStep(r)
  PROVE  RoomInv'
<1> USE ConstantsAssumption DEF Goes, request, record, expansion, dns
<1>0. /\ RequestTypes /\ RecordTypes /\ ExpansionTypes /\ Placed
      /\ room[r] \in Nat /\ todo[r] \in Seq(Address)
  BY DEF IInv, RecordTypes
<1>1. CASE CopyAddr(r)
  <2>1. /\ Elements(Tail(todo[r])) \subseteq Elements(rec[r].addrs)
        /\ Head(todo[r]) \in Elements(rec[r].addrs)
    BY <1>0, <1>1, TailElements DEF CopyAddr, RoomInv
  <2>2. /\ out'[r] = out[r] \cup {Head(todo[r])} /\ todo'[r] = Tail(todo[r])
        /\ UNCHANGED <<mode, filter, pc, rec, room, resolved>>
        /\ \A q \in Requests \ {r} : out'[q] = out[q] /\ todo'[q] = todo[q]
    BY <1>0, <1>1 DEF CopyAddr, RecordTypes
  <2>3. Gained(r)' = Gained(r)
    BY <2>1, <2>2 DEF Gained, FromResolved
  <2>4. Resolves(r, rec[r])' <=> Resolves(r, rec[r])
    BY <2>2 DEF Resolves
  <2>5. ~Expanding(r)
    BY <1>1 DEF CopyAddr, Expanding
  <2>6. QED
    BY <2>1, <2>2, <2>3, <2>4, <2>5, RoomOthers DEF RoomInv, Expanding
<1>2. CASE DropAddr(r)
  <2>1. Elements(Tail(todo[r])) \subseteq Elements(rec[r].addrs)
    BY <1>0, <1>2, TailElements DEF DropAddr, RoomInv
  <2>2. /\ todo'[r] = Tail(todo[r])
        /\ UNCHANGED <<mode, filter, pc, rec, out, room, resolved>>
        /\ \A q \in Requests \ {r} : todo'[q] = todo[q]
    BY <1>0, <1>2 DEF DropAddr, RecordTypes
  <2>3. Gained(r)' = Gained(r) /\ (Resolves(r, rec[r])' <=> Resolves(r, rec[r]))
    BY <2>2 DEF Gained, FromResolved, Resolves
  <2>4. QED
    BY <2>1, <2>2, <2>3, RoomOthers DEF RoomInv, Expanding
<1>3. CASE AddrExpanded(r)
  <2>1. /\ Elements(Tail(todo[r])) \subseteq Elements(rec[r].addrs)
        /\ Head(todo[r]) \in Elements(rec[r].addrs)
    BY <1>0, <1>3, TailElements DEF AddrExpanded, RoomInv, Placed, Expanding
  <2>2. /\ out'[r] \subseteq out[r] \cup FromResolved(r) \cup {Head(todo[r])}
        /\ todo'[r] = Tail(todo[r]) /\ resolved'[r] = {} /\ pc'[r] = "addrs"
        /\ UNCHANGED <<mode, filter, rec, room>>
    BY <1>0, <1>3 DEF AddrExpanded, RequestTypes, RecordTypes, ExpansionTypes
  <2>3. \A q \in Requests \ {r} : /\ out'[q] = out[q] /\ todo'[q] = todo[q]
                                  /\ resolved'[q] = resolved[q] /\ pc'[q] = pc[q]
    BY <1>0, <1>3 DEF AddrExpanded, RequestTypes, RecordTypes, ExpansionTypes
  <2>4. Gained(r)' \in SUBSET Gained(r)
    BY <2>1, <2>2 DEF Gained, FromResolved
  <2>5. Resolves(r, rec[r])' <=> Resolves(r, rec[r])
    BY <2>2 DEF Resolves
  <2>6. Resolves(r, rec[r]) =>
          /\ IsFiniteSet(Gained(r)')
          /\ Cardinality(Gained(r)') + room[r] <= MaxDNSAddrResolvedPerRecord
    BY <1>0, <2>4, GainsLess DEF RoomInv
  <2>7. QED
    BY <2>1, <2>2, <2>3, <2>5, <2>6, RoomOthers DEF Expanding
<1>4. CASE RecordResolved(r)
  <2>1. /\ out'[r] \subseteq out[r] /\ pc[r] = "addrs" /\ pc'[r] = "served"
        /\ UNCHANGED <<mode, filter, rec, todo, room, resolved>>
        /\ \A q \in Requests \ {r} : out'[q] = out[q] /\ pc'[q] = pc[q]
    BY <1>0, <1>4 DEF RecordResolved, FilterPrivate, RequestTypes, RecordTypes
  <2>2. Gained(r)' \in SUBSET Gained(r)
    BY <2>1 DEF Gained, FromResolved
  <2>3. Resolves(r, rec[r])' <=> Resolves(r, rec[r])
    BY <2>1 DEF Resolves
  <2>4. Resolves(r, rec[r]) =>
          /\ IsFiniteSet(Gained(r)')
          /\ Cardinality(Gained(r)') + room[r] <= MaxDNSAddrResolvedPerRecord
    BY <1>0, <2>2, GainsLess DEF RoomInv
  <2>5. resolved'[r] = {} /\ ~(pc'[r] = "addrs" \/ Expanding(r)')
    BY <2>1 DEF RoomInv, Expanding
  <2>6. QED
    BY <2>1, <2>3, <2>4, <2>5, RoomOthers
<1>5. CASE VisitAdds(r)
  <2> DEFINE a == Head(Top(r)).at
             new == [kind |-> "plain", at |-> a, id |-> NoPeer]
  <2>1. /\ resolved'[r] = resolved[r] \cup {a} /\ room'[r] = room[r] - 1 /\ room[r] > 0
        /\ UNCHANGED <<mode, filter, pc, rec, todo, out>>
        /\ \A q \in Requests \ {r} : resolved'[q] = resolved[q] /\ room'[q] = room[q]
    BY <1>0, <1>5 DEF VisitAdds, Visits, InLoop, RecordTypes, ExpansionTypes
  <2>2. FromResolved(r)' = FromResolved(r) \cup {new}
    BY <2>1 DEF FromResolved
  <2> HIDE DEF a, new
  <2>3. Gained(r)' = Gained(r) \cup {new}
    BY <2>1, <2>2 DEF Gained
  <2>4. Resolves(r, rec[r])' <=> Resolves(r, rec[r])
    BY <2>1 DEF Resolves
  <2>5. Resolves(r, rec[r]) =>
          /\ IsFiniteSet(Gained(r)')
          /\ Cardinality(Gained(r)') + room'[r] <= MaxDNSAddrResolvedPerRecord
    <3> SUFFICES ASSUME Resolves(r, rec[r])
                 PROVE  /\ IsFiniteSet(Gained(r)')
                        /\ Cardinality(Gained(r)') + room'[r] <= MaxDNSAddrResolvedPerRecord
      OBVIOUS
    <3>1. /\ IsFiniteSet(Gained(r))
          /\ Cardinality(Gained(r)) + room[r] <= MaxDNSAddrResolvedPerRecord
      BY DEF RoomInv
    <3>2. room[r] \in Nat /\ room[r] > 0 /\ MaxDNSAddrResolvedPerRecord \in Nat
      BY <1>0, <2>1
    <3>3. /\ IsFiniteSet(Gained(r) \cup {new})
          /\ Cardinality(Gained(r) \cup {new}) + (room[r] - 1) <= MaxDNSAddrResolvedPerRecord
      BY <3>1, <3>2, GainsOne
    <3>4. QED
      BY <2>1, <2>3, <3>3
  <2>6. Expanding(r) /\ Expanding(r)'
    BY <1>5, <2>1 DEF VisitAdds, Visits, InLoop, Expanding
  <2>7. QED
    BY <2>1, <2>4, <2>5, <2>6, RoomOthers DEF RoomInv
<1>6. CASE ExpandAddr(r)
  BY <1>0, <1>6, RoomKept DEF ExpandAddr, RequestTypes, Expanding
<1>7. CASE ExpandDeclines(r) \/ LookupDeclined(r) \/ LookupAbandoned(r)
  BY <1>0, <1>7, RoomKept DEF ExpandDeclines, LookupDeclined, LookupAbandoned,
                              ReturnsNothing, RequestTypes, Expanding
<1>8. CASE CacheHit(r) \/ LookupReceives(r)
  BY <1>0, <1>8, RoomKept DEF CacheHit, LookupReceives, HasResults, RequestTypes, Expanding
<1>9. CASE CacheMiss(r) \/ LookupJoins(r)
  BY <1>0, <1>9, RoomKept DEF CacheMiss, LookupJoins, Spends, RequestTypes, Expanding
<1>10. CASE CallReturns(r) \/ CallTruncated(r)
  BY <1>0, <1>10, RoomKept DEF CallReturns, CallTruncated, Expanding
<1>11. CASE VisitSkips(r) \/ VisitExpands(r)
  BY <1>0, <1>11, RoomKept DEF VisitSkips, VisitExpands, Visits, InLoop, RequestTypes, Expanding
<1>12. QED
  BY <1>1, <1>2, <1>3, <1>4, <1>5, <1>6, <1>7, <1>8, <1>9, <1>10, <1>11 DEF ResolveStep

LEMMA RoomRequest ==
  ASSUME IInv, RoomInv, NEW r \in Requests, RequestStep(r)
  PROVE  RoomInv'
<1> USE ConstantsAssumption DEF Goes, request, record, expansion, dns
<1>0. RequestTypes /\ RecordTypes /\ ExpansionTypes /\ Placed
  BY DEF IInv
<1>1. CASE RequestStarts(r)
  <2>1. /\ pc[r] = "idle" /\ pc'[r] = "served" /\ rec[r] = NoRecord
        /\ UNCHANGED <<mode, rec, todo, out, room, resolved>>
        /\ \A q \in Requests \ {r} : filter'[q] = filter[q] /\ pc'[q] = pc[q]
    BY <1>0, <1>1 DEF RequestStarts, RequestTypes, Placed
  <2>2. ~Resolves(r, rec[r])' /\ resolved'[r] = {} /\ ~Expanding(r)'
    BY <2>1 DEF Resolves, NoRecord, RoomInv, Expanding
  <2>3. QED
    BY <2>1, <2>2, RoomOthers
<1>2. CASE RequestEnds(r)
  <2>1. /\ pc[r] = "served" /\ pc'[r] = "idle" /\ rec'[r] = NoRecord
        /\ UNCHANGED <<mode, todo, resolved>>
        /\ \A q \in Requests \ {r} : /\ filter'[q] = filter[q] /\ pc'[q] = pc[q]
                                     /\ rec'[q] = rec[q] /\ out'[q] = out[q]
                                     /\ room'[q] = room[q]
    BY <1>0, <1>2 DEF RequestEnds, RequestTypes, RecordTypes
  <2>2. ~Resolves(r, rec[r])' /\ resolved'[r] = {} /\ ~Expanding(r)'
    BY <2>1 DEF Resolves, NoRecord, RoomInv, Expanding
  <2>3. QED
    BY <2>1, <2>2, RoomOthers
<1>3. CASE CtxDone(r)
  BY <1>3, RoomKept DEF CtxDone, Expanding
<1>4. CASE RecordArrives(r)
  <2>1. /\ pc[r] = "served" /\ pc'[r] = "addrs" /\ todo'[r] = rec'[r].addrs /\ out'[r] = {}
        /\ room'[r] = MaxDNSAddrResolvedPerRecord
        /\ UNCHANGED <<mode, filter, resolved>>
        /\ \A q \in Requests \ {r} : /\ pc'[q] = pc[q] /\ rec'[q] = rec[q] /\ todo'[q] = todo[q]
                                     /\ out'[q] = out[q] /\ room'[q] = room[q]
    BY <1>0, <1>4 DEF RecordArrives, RequestTypes, RecordTypes
  <2>2. resolved'[r] = {}
    BY <2>1 DEF RoomInv, Expanding
  <2>3. Gained(r)' = {}
    BY <2>1, <2>2 DEF Gained, FromResolved
  <2>4. /\ IsFiniteSet(Gained(r)')
        /\ Cardinality(Gained(r)') + room'[r] <= MaxDNSAddrResolvedPerRecord
    BY <2>1, <2>3, FS_EmptySet
  <2>5. QED
    BY <2>1, <2>2, <2>4, RoomOthers
<1>5. CASE RecordPasses(r)
  <2>1. PICK v \in Records : ~Resolves(r, v) /\ rec' = [rec EXCEPT ![r] = v]
    BY <1>5 DEF RecordPasses
  <2>2. /\ rec'[r] = v /\ pc[r] = "served"
        /\ UNCHANGED <<mode, filter, pc, todo, room, resolved>>
        /\ \A q \in Requests \ {r} : rec'[q] = rec[q] /\ out'[q] = out[q]
    BY <1>0, <1>5, <2>1 DEF RecordPasses, RecordTypes
  <2>3. ~Resolves(r, rec[r])' /\ resolved'[r] = {} /\ ~Expanding(r)'
    BY <2>1, <2>2 DEF Resolves, RoomInv, Expanding
  <2>4. QED
    BY <2>2, <2>3, RoomOthers
<1>6. QED
  BY <1>1, <1>2, <1>3, <1>4, <1>5, RoomResolve DEF RequestStep

LEMMA RoomDNS ==
  ASSUME RoomInv, NEW k \in Keys, DNSStep(k)
  PROVE  RoomInv'
BY RoomKept DEF DNSStep, OthersLookUp, QueryAnswers, FlightEnds, CacheForgets,
                request, record, expansion, Expanding

LEMMA RoomStep == IInv /\ RoomInv /\ [Next]_vars => RoomInv'
<1> SUFFICES ASSUME IInv, RoomInv, [Next]_vars PROVE RoomInv'
  OBVIOUS
<1>1. CASE UNCHANGED vars
  BY <1>1, RoomKept DEF vars, request, record, expansion, Expanding
<1>2. CASE \E r \in Requests : RequestStep(r)
  BY <1>2, RoomRequest
<1>3. CASE \E k \in Keys : DNSStep(k)
  BY <1>3, RoomDNS
<1>4. QED
  BY <1>1, <1>2, <1>3 DEF Next

\* What resolution adds to one record, over all its /dnsaddr and whatever they
\* lead to, stays within MaxDNSAddrResolvedPerRecord.
THEOREM RoomCorrect == Spec => []RoomHolds
<1>1. Init => RoomInv
  BY DEF Init, RoomInv, Expanding, Resolves, NoRecord
<1>2. IInv /\ RoomInv => RoomHolds
  <2> SUFFICES ASSUME IInv, RoomInv, NEW r \in Requests, Resolves(r, rec[r])
               PROVE  Cardinality(out[r] \ Elements(rec[r].addrs)) <= MaxDNSAddrResolvedPerRecord
    BY DEF RoomHolds
  <2> DEFINE new == out[r] \ Elements(rec[r].addrs)
  <2>1. room[r] \in Nat /\ new \in SUBSET Gained(r) /\ MaxDNSAddrResolvedPerRecord \in Nat
    BY ConstantsAssumption DEF IInv, RecordTypes, Gained
  <2>2. IsFiniteSet(new) /\ Cardinality(new) + room[r] <= MaxDNSAddrResolvedPerRecord
    BY <2>1, GainsLess DEF RoomInv
  <2>3. Cardinality(new) \in Nat
    BY <2>2, FS_CardinalityType
  <2> HIDE DEF new
  <2>4. Cardinality(new) <= MaxDNSAddrResolvedPerRecord
    BY <2>1, <2>2, <2>3
  <2>5. QED
    BY <2>4 DEF new
<1>3. QED
  BY <1>1, <1>2, RoomStep, Invariance, PTL DEF Spec
=============================================================================
