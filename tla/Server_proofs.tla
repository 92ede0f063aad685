----------------------------- MODULE Server_proofs -----------------------------
(***************************************************************************)
(* Proofs about Server, for any configurations, connections, records and   *)
(* capacity of the signal channel: its types, that it is a Service, that   *)
(* the routers ask the endpoints that are configured, and what becomes of  *)
(* the addresses of records on their way through the routers.              *)
(***************************************************************************)
EXTENDS Server, SequenceTheorems, FunctionTheorems, FiniteSetTheorems, TLAPS

\* DHT clients are opened once; until then there are none to lose.
NoneOpenYet == pc \in {"flags", "host", "autoconf", "endpoints", "dht"} => dht = {}

\* There are connections only while there is or was a listener, and a listener
\* only once the routers are there.
Behind ==
  /\ pc \notin {"notify", "serve", "shutdown", "wait", "close"} => listener = "none"
  /\ listener = "none" => \A r \in Requests : conn[r] = "idle"

\* Shutdown has succeeded: nobody listens, nobody is connected.
Quiet ==
  pc \in {"wait", "close"} => listener # "listening" /\ \A r \in Requests : conn[r] = "idle"

IInv == TypeOK /\ NoneOpenYet /\ Behind /\ Quiet

-----------------------------------------------------------------------------
LEMMA StartInv == IInv /\ StartStep => IInv'
<1> SUFFICES ASSUME IInv, StartStep PROVE IInv'
  OBVIOUS
<1> USE DEF IInv, TypeOK, NoneOpenYet, Behind, Quiet, Goes, At, Alive, OnlyMain, built, request
<1>1. CASE ParseFlags \/ NewHost \/ NotifySignals
  BY <1>1 DEF ParseFlags, NewHost, NotifySignals
<1>2. CASE StartAutoConf
  BY <1>2 DEF StartAutoConf
<1>3. CASE ExpandEndpoints
  <2>1. DOMAIN endpoints' = Kinds
    BY <1>3 DEF ExpandEndpoints, expandDelegatedRoutingEndpoints
  <2>2. QED
    BY <1>3, <2>1 DEF ExpandEndpoints
<1>4. CASE NewDHT
  <2>1. dht' \subseteq {"standard", "fullRT"}
    BY <1>4 DEF NewDHT, DHTClients
  <2>2. cached' \in BOOLEAN
    BY <1>4 DEF NewDHT
  <2>3. QED
    BY <1>4, <2>1, <2>2 DEF NewDHT
<1>5. CASE NewBlockRouters
  BY <1>5 DEF NewBlockRouters
<1>6. CASE NewClients
  <2>1. DOMAIN clients' = Kinds
    BY <1>6 DEF NewClients, createDelegatedHTTPRouters
  <2>2. QED
    BY <1>6, <2>1 DEF NewClients
<1>7. CASE CombineRouters
  <2>1. DOMAIN routers' = Kinds \cup {"closest"}
    BY <1>7 DEF CombineRouters, Wiring, Kinds
  <2>2. QED
    BY <1>7, <2>1 DEF CombineRouters
<1>8. CASE StartListener
  BY <1>8 DEF StartListener
<1>9. CASE StartFails
  BY <1>9 DEF StartFails, Fails, Ends
<1>10. QED
  BY <1>1, <1>2, <1>3, <1>4, <1>5, <1>6, <1>7, <1>8, <1>9 DEF StartStep

LEMMA ShutdownInv == IInv /\ ShutdownStep => IInv'
<1> SUFFICES ASSUME IInv, ShutdownStep PROVE IInv'
  OBVIOUS
<1> USE QuitAssumption
    DEF IInv, TypeOK, NoneOpenYet, Behind, Quiet, Goes, At, Alive, OnlyMain, Ends, built, request
<1>1. CASE ReceivesSignal
  BY <1>1 DEF ReceivesSignal
<1>2. CASE ShutdownSucceeds
  BY <1>2 DEF ShutdownSucceeds
<1>3. CASE ShutdownTimesOut
  BY <1>3 DEF ShutdownTimesOut
<1>4. CASE WaitsForListener
  BY <1>4 DEF WaitsForListener
<1>5. CASE ClosesDHT
  BY <1>5 DEF ClosesDHT
<1>6. CASE Returns
  BY <1>6 DEF Returns
<1>7. QED
  BY <1>1, <1>2, <1>3, <1>4, <1>5, <1>6 DEF ShutdownStep

LEMMA Inductive == Spec => []IInv
<1>1. Init => IInv
  <2> SUFFICES ASSUME Init PROVE IInv
    OBVIOUS
  <2>1. quit \in 0 .. QuitCapacity
    BY QuitAssumption DEF Init
  <2>2. sent.to \in Requests \cup {None}
    BY DEF Init, NoRecord
  <2>3. /\ conn \in [Requests -> {"idle", "accepted", "running"}]
        /\ kind \in [Requests -> Kinds \cup {"closest", "none"}]
        /\ filter \in [Requests -> {"none", "dnsaddr", "other"}]
    BY DEF Init
  <2>4. TypeOK
    BY <2>1, <2>2, <2>3 DEF Init, TypeOK
  <2>5. QED
    BY <2>4 DEF Init, IInv, NoneOpenYet, Behind, Quiet
<1>2. IInv /\ [Next]_vars => IInv'
  <2> SUFFICES ASSUME IInv, [Next]_vars PROVE IInv'
    OBVIOUS
  <2> USE QuitAssumption
      DEF IInv, TypeOK, NoneOpenYet, Behind, Quiet, Alive, Ends, built, request, OnlyRequests
  <2>1. CASE UNCHANGED vars
    BY <2>1 DEF vars
  <2>2. CASE Listens \/ ListenFails \/ ListenerReturns
    BY <2>2 DEF Listens, ListenFails, ListenerReturns
  <2>3. CASE ReadyChanges
    BY <2>3 DEF ReadyChanges
  <2>4. CASE Signal
    BY <2>4 DEF Signal
  <2>5. ASSUME NEW r \in Requests, RequestStep(r) PROVE IInv'
    <3>1. CASE Accepts(r)
      BY <3>1 DEF Accepts
    <3>2. CASE Disconnects(r)
      BY <3>2 DEF Disconnects
    <3>3. CASE RequestStarts(r)
      BY <3>3 DEF RequestStarts
    <3>4. CASE RecordIsSent(r)
      <4>1. sent'.to = r
        BY <3>4 DEF RecordIsSent
      <4>2. QED
        BY <3>4, <4>1 DEF RecordIsSent
    <3>5. CASE RequestEnds(r)
      BY <3>5 DEF RequestEnds, NoRecord
    <3>6. QED
      BY <2>5, <3>1, <3>2, <3>3, <3>4, <3>5 DEF RequestStep
  <2>6. QED
    BY <2>1, <2>2, <2>3, <2>4, <2>5, StartInv, ShutdownInv DEF Next
<1>3. QED
  BY <1>1, <1>2, PTL DEF Spec

-----------------------------------------------------------------------------
\* Every variable has its type; above all the channel of signals never holds
\* more than its capacity, however many arrive.
THEOREM TypeCorrect == Spec => []TypeOK
<1>1. IInv => TypeOK
  BY DEF IInv
<1>2. QED
  BY <1>1, Inductive, PTL

-----------------------------------------------------------------------------
\* start keeps the promise of Service: requests run only while it serves, a DHT
\* client is closed only behind the last request, and a regular exit leaves none.
THEOREM ServiceImplemented == Spec => ServiceSpec
<1> DEFINE running == {r \in Requests : conn[r] = "running"}
<1>1. Init => Promise!Init
  BY DEF Init, Promise!Init, Phase
<1>2. IInv /\ [Next]_vars => [Promise!Next]_(Promise!vars)
  <2> SUFFICES ASSUME IInv, [Next]_vars PROVE [Promise!Next]_(Promise!vars)
    OBVIOUS
  <2> USE DEF Alive, At, Goes, Ends, OnlyMain, OnlyRequests, built, request
  <2>1. CASE UNCHANGED vars
    BY <2>1 DEF vars, Promise!vars, Phase
  <2>2. CASE StartStep
    <3>1. CASE NewDHT
      <4>1. Promise!Opens(DHTClients)
        BY <2>2, <3>1 DEF NewDHT, Promise!Opens, Phase, IInv, NoneOpenYet
      <4>2. DHTClients \in SUBSET {"standard", "fullRT"}
        BY <3>1 DEF NewDHT, DHTClients
      <4>3. QED
        BY <4>1, <4>2 DEF Promise!Next
    <3>2. CASE StartListener
      BY <3>2 DEF StartListener, Promise!Serves, Promise!Next, Phase
    <3>3. CASE StartFails
      BY <3>3 DEF StartFails, Fails, Promise!Aborts, Promise!Next, Phase
    <3>4. CASE ParseFlags \/ NewHost \/ StartAutoConf \/ ExpandEndpoints
               \/ NewBlockRouters \/ NewClients \/ CombineRouters \/ NotifySignals
      BY <3>4 DEF ParseFlags, NewHost, StartAutoConf, ExpandEndpoints, NewBlockRouters,
                  NewClients, CombineRouters, NotifySignals, Promise!vars, Phase
    <3>5. QED
      BY <2>2, <3>1, <3>2, <3>3, <3>4 DEF StartStep
  <2>3. CASE ShutdownStep
    <3>1. CASE ReceivesSignal \/ WaitsForListener
      BY <3>1 DEF ReceivesSignal, WaitsForListener, Promise!vars, Phase
    <3>2. CASE ShutdownSucceeds
      <4>1. running = {}
        BY <3>2 DEF ShutdownSucceeds
      <4>2. QED
        BY <3>2, <4>1 DEF ShutdownSucceeds, Promise!Quiesces, Promise!Next, Phase
    <3>3. CASE ShutdownTimesOut
      BY <3>3 DEF ShutdownTimesOut, Promise!Aborts, Promise!Next, Phase
    <3>4. CASE ClosesDHT
      <4>1. PICK b \in {"standard", "fullRT"} : dht' = dht \ {b}
        BY <3>4 DEF ClosesDHT
      <4>2. Promise!Closes(b)
        BY <3>4, <4>1 DEF ClosesDHT, Promise!Closes, Phase
      <4>3. QED
        BY <4>2 DEF Promise!Next
    <3>5. CASE Returns
      BY <3>5 DEF Returns, Promise!Stops, Promise!Next, Phase
    <3>6. QED
      BY <2>3, <3>1, <3>2, <3>3, <3>4, <3>5 DEF ShutdownStep
  <2>4. CASE Listens \/ ListenerReturns \/ ReadyChanges
    BY <2>4 DEF Listens, ListenerReturns, ReadyChanges, Promise!vars, Phase
  <2>5. CASE ListenFails
    BY <2>5 DEF ListenFails, Promise!Aborts, Promise!Next, Phase
  <2>6. CASE Signal
    <3>1. CASE UNCHANGED exit
      BY <2>6, <3>1 DEF Signal, Promise!vars, Phase
    <3>2. CASE exit' = "killed"
      BY <2>6, <3>2 DEF Signal, Promise!Aborts, Promise!Next, Phase
    <3>3. QED
      BY <2>6, <3>1, <3>2 DEF Signal
  <2>7. ASSUME NEW r \in Requests, RequestStep(r) PROVE [Promise!Next]_(Promise!vars)
    <3>0. conn \in [Requests -> {"idle", "accepted", "running"}]
      BY DEF IInv, TypeOK
    <3>1. CASE Accepts(r) \/ Disconnects(r)
      <4>1. running' = running
        BY <3>0, <3>1 DEF Accepts, Disconnects
      <4>2. QED
        BY <3>1, <4>1 DEF Accepts, Disconnects, Promise!vars, Phase
    <3>2. CASE RequestStarts(r)
      <4>1. running' = running \cup {r}
        BY <3>0, <3>2 DEF RequestStarts
      <4>2. exit = "none" /\ pc \in {"notify", "serve", "shutdown"}
        BY <3>2 DEF RequestStarts, IInv, TypeOK, Behind, Quiet
      <4>3. Promise!Begins(r)
        BY <3>2, <4>1, <4>2 DEF RequestStarts, Promise!Begins, Phase
      <4>4. QED
        BY <4>3 DEF Promise!Next
    <3>3. CASE RecordIsSent(r)
      BY <3>3 DEF RecordIsSent, Promise!vars, Phase
    <3>4. CASE RequestEnds(r)
      <4>1. running' = running \ {r}
        BY <3>0, <3>4 DEF RequestEnds
      <4>2. exit = "none" /\ pc \in {"notify", "serve", "shutdown"}
        BY <3>4 DEF RequestEnds, IInv, TypeOK, Behind, Quiet
      <4>3. Promise!Ends(r)
        BY <3>4, <4>1, <4>2 DEF RequestEnds, Promise!Ends, Phase
      <4>4. QED
        BY <4>3 DEF Promise!Next
    <3>5. QED
      BY <2>7, <3>1, <3>2, <3>3, <3>4 DEF RequestStep
  <2>8. QED
    BY <2>1, <2>2, <2>3, <2>4, <2>5, <2>6, <2>7 DEF Next
<1>3. QED
  BY Inductive, <1>1, <1>2, PTL DEF Spec, ServiceSpec, Promise!Spec

-----------------------------------------------------------------------------
(* The order of addresses.                                                 *)

\* compareAddrs puts any two addresses in an order, and in one only.
LEMMA Compares ==
  /\ \A a \in Address : ~compareAddrs(a, a)
  /\ \A a, b \in Address : a # b => compareAddrs(a, b) \/ compareAddrs(b, a)
  /\ \A a, b, c \in Address : compareAddrs(a, b) /\ compareAddrs(b, c) => compareAddrs(a, c)
<1>1. \A a \in Address : addrSortRank(a) \in Int
  BY DEF addrSortRank
<1>2. QED
  BY <1>1, AddressAssumption DEF compareAddrs

\* What is below an address in a set, how much of it there is.
Below(A, a) == {b \in A : compareAddrs(b, a)}
Rank(A, a) == Cardinality(Below(A, a))

LEMMA Ranks ==
  ASSUME NEW A \in SUBSET Address, IsFiniteSet(A)
  PROVE  /\ \A a \in A : Rank(A, a) \in 0 .. Cardinality(A) - 1
         /\ \A a, b \in A : compareAddrs(a, b) <=> Rank(A, a) < Rank(A, b)
         /\ \A i \in 1 .. Cardinality(A) : \E a \in A : Rank(A, a) = i - 1
<1> DEFINE n == Cardinality(A)
<1>0. n \in Nat
  BY FS_CardinalityType
<1>1. ASSUME NEW a \in A
      PROVE  IsFiniteSet(Below(A, a)) /\ Rank(A, a) \in Nat
  <2>1. Below(A, a) \in SUBSET A
    BY DEF Below
  <2>2. QED
    BY <2>1, FS_Subset, FS_CardinalityType DEF Rank
<1>2. ASSUME NEW a \in A
      PROVE  Rank(A, a) \in 0 .. n - 1
  <2>1. Below(A, a) \in SUBSET (A \ {a})
    BY Compares DEF Below
  <2>2. IsFiniteSet(A \ {a}) /\ Cardinality(A \ {a}) = n - 1
    BY FS_RemoveElement
  <2>3. Rank(A, a) <= n - 1
    BY <2>1, <2>2, FS_Subset DEF Rank
  <2>4. QED
    BY <1>0, <1>1, <2>3
<1>3. ASSUME NEW a \in A, NEW b \in A, compareAddrs(a, b)
      PROVE  Rank(A, a) < Rank(A, b)
  <2>1. Below(A, a) \cup {a} \in SUBSET Below(A, b)
    BY <1>3, Compares DEF Below
  <2>2. a \notin Below(A, a)
    BY Compares DEF Below
  <2>3. Cardinality(Below(A, a) \cup {a}) = Rank(A, a) + 1
    BY <1>1, <2>2, FS_AddElement DEF Rank
  <2>4. Cardinality(Below(A, a) \cup {a}) <= Rank(A, b)
    BY <1>1, <2>1, FS_Subset DEF Rank
  <2>5. QED
    BY <1>1, <2>3, <2>4
<1>4. ASSUME NEW a \in A, NEW b \in A
      PROVE  compareAddrs(a, b) <=> Rank(A, a) < Rank(A, b)
  <2>1. CASE a = b
    BY <1>1, <2>1, Compares
  <2>2. CASE a # b
    <3>1. compareAddrs(a, b) \/ compareAddrs(b, a)
      BY <2>2, Compares
    <3>2. QED
      BY <1>1, <1>3, <3>1
  <2>3. QED
    BY <2>1, <2>2
<1>5. ASSUME NEW i \in 1 .. n
      PROVE  \E a \in A : Rank(A, a) = i - 1
  <2> DEFINE place == [a \in A |-> Rank(A, a) + 1]
  <2>1. place \in [A -> 1 .. n]
    BY <1>0, <1>2
  <2>2. \A a, b \in A : place[a] = place[b] => a = b
    <3> SUFFICES ASSUME NEW a \in A, NEW b \in A, place[a] = place[b], a # b
                 PROVE  FALSE
      OBVIOUS
    <3>1. compareAddrs(a, b) \/ compareAddrs(b, a)
      BY Compares
    <3>2. Rank(A, a) = Rank(A, b)
      BY <1>1
    <3>3. QED
      BY <1>1, <1>3, <3>1, <3>2
  <2>3. place \in Injection(A, 1 .. n)
    BY <2>1, <2>2, Fun_IsInj
  <2>4. IsFiniteSet(1 .. n) /\ Cardinality(1 .. n) = n
    BY <1>0, FS_Interval
  <2>5. place \in Surjection(A, 1 .. n)
    BY <2>3, <2>4, FS_Injection
  <2> HIDE DEF place
  <2>6. PICK a \in A : place[a] = i
    BY <2>5 DEF Surjection
  <2> USE DEF place
  <2>7. QED
    BY <1>1, <2>6
<1>6. QED
  BY <1>2, <1>4, <1>5

\* sortedAddrs has the addresses of a set, each once, in order.
LEMMA Sorts ==
  ASSUME NEW A \in SUBSET Address, IsFiniteSet(A)
  PROVE  /\ sortedAddrs(A) \in Seq(Address)
         /\ ToSet(sortedAddrs(A)) = A
         /\ \A i, j \in DOMAIN sortedAddrs(A) :
              i < j => compareAddrs(sortedAddrs(A)[i], sortedAddrs(A)[j])
<1> DEFINE n == Cardinality(A)
           s == sortedAddrs(A)
<1>0. n \in Nat
  BY FS_CardinalityType
<1>1. ASSUME NEW i \in 1 .. n
      PROVE  s[i] \in A /\ Rank(A, s[i]) = i - 1
  <2>1. \E a \in A : Rank(A, a) = i - 1
    BY Ranks
  <2>2. s[i] = CHOOSE a \in A : Rank(A, a) = i - 1
    BY DEF sortedAddrs, Rank, Below
  <2>3. QED
    BY <2>1, <2>2
<1> DEFINE at(i) == CHOOSE a \in A : Cardinality({b \in A : compareAddrs(b, a)}) = i - 1
<1>1a. s = [i \in 1 .. n |-> at(i)]
  BY DEF sortedAddrs
<1> HIDE DEF s, at
<1>2. DOMAIN s = 1 .. n /\ s = [i \in 1 .. n |-> s[i]]
  BY <1>1a
<1>3. s \in [1 .. n -> Address]
  BY <1>1, <1>2
<1>4. s \in Seq(Address)
  BY <1>0, <1>3
<1>5. ASSUME NEW a \in A
      PROVE  a \in ToSet(s)
  <2>1. Rank(A, a) + 1 \in 1 .. n
    BY <1>0, Ranks
  <2>2. PICK i \in 1 .. n : i = Rank(A, a) + 1
    BY <2>1
  <2>3. s[i] \in A /\ Rank(A, s[i]) = Rank(A, a)
    BY <1>1, <2>2, Ranks
  <2>4. ~compareAddrs(s[i], a) /\ ~compareAddrs(a, s[i])
    BY <2>3, Ranks
  <2>5. s[i] = a
    BY <2>3, <2>4, Compares
  <2>6. QED
    BY <1>2, <2>5 DEF ToSet
<1>6. ToSet(s) = A
  BY <1>1, <1>2, <1>5 DEF ToSet
<1>7. ASSUME NEW i \in 1 .. n, NEW j \in 1 .. n, i < j
      PROVE  compareAddrs(s[i], s[j])
  BY <1>1, <1>7, Ranks
<1>8. QED
  BY <1>2, <1>4, <1>6, <1>7 DEF s

LEMMA ElementsFinite ==
  ASSUME NEW s \in Seq(Address)
  PROVE  ToSet(s) \in SUBSET Address /\ IsFiniteSet(ToSet(s))
<1>1. s \in Surjection(1 .. Len(s), ToSet(s))
  BY Fun_IsSurj DEF ToSet
<1>2. QED
  BY <1>1, FS_Surjection, FS_Interval DEF ToSet

\* An expansion finds finitely many addresses, and no /dnsaddr.
LEMMA ResolvedIsFinal ==
  ASSUME NEW A \in SUBSET Address, IsFiniteSet(A)
  PROVE  /\ Resolved(A) \in SUBSET Address /\ IsFiniteSet(Resolved(A))
         /\ \A a \in Resolved(A) : ~IsDNSAddr(a)
<1> DEFINE names == Expandable(A)
           listed(a) == {AddressAt(n) : n \in a.names}
           all == {listed(a) : a \in names}
<1>1. ASSUME NEW a \in names, NEW n \in a.names
      PROVE  AddressAt(n) \in Address /\ ~IsDNSAddr(AddressAt(n))
  <2>1. PICK b \in Address : b.bytes = n /\ b.dnsaddr = "none"
    BY AddressAssumption DEF Expandable
  <2>2. AddressAt(n) \in Address /\ AddressAt(n).bytes = b.bytes
    BY <2>1 DEF AddressAt
  <2>3. AddressAt(n) = b
    BY <2>2, AddressAssumption
  <2>4. QED
    BY <2>1, <2>3 DEF IsDNSAddr
<1>2. ASSUME NEW a \in names
      PROVE  IsFiniteSet(listed(a))
  <2> DEFINE f == [n \in a.names |-> AddressAt(n)]
  <2>1. f \in Surjection(a.names, listed(a))
    BY DEF Surjection
  <2>2. IsFiniteSet(a.names)
    BY AddressAssumption DEF Expandable
  <2>3. QED
    BY <2>1, <2>2, FS_Surjection
<1>3. IsFiniteSet(all)
  <2> DEFINE f == [a \in names |-> listed(a)]
  <2>1. f \in Surjection(names, all)
    BY DEF Surjection
  <2>2. IsFiniteSet(names)
    BY FS_Subset DEF Expandable
  <2>3. QED
    BY <2>1, <2>2, FS_Surjection
<1>4. IsFiniteSet(UNION all)
  BY <1>2, <1>3, FS_UNION
<1>5. Resolved(A) = UNION all
  BY DEF Resolved
<1>6. QED
  BY <1>1, <1>4, <1>5

\* The addresses that a list, or the filtered set, comes out with.
LEMMA Filters ==
  ASSUME NEW A \in SUBSET Address, IsFiniteSet(A)
  PROVE  /\ filterPrivateMultiaddr(A) \in Seq(Address)
         /\ ToSet(filterPrivateMultiaddr(A)) = {a \in A : ~a.private}
         /\ filterPrivateMultiaddr(A) = sortedAddrs(ToSet(filterPrivateMultiaddr(A)))
<1>1. {a \in A : ~a.private} \in SUBSET Address /\ IsFiniteSet({a \in A : ~a.private})
  BY FS_Subset
<1>2. QED
  BY <1>1, Sorts DEF filterPrivateMultiaddr

\* What dnsAddrRouter makes of a record: it is sorted, no private address is new
\* in it, and where a /dnsaddr is replaced, none is left that was expanded in
\* full or names another peer.
LEMMA Resolves ==
  ASSUME NEW s \in Seq(Address), NEW look, \A a \in look.whole : IsDNSAddr(a)
  PROVE  LET out == resolveRecordAddrs(s, look)
         IN  /\ out \in Seq(Address)
             /\ out = sortedAddrs(ToSet(out))
             /\ \A a \in ToSet(out) : a.private => a \in ToSet(s)
             /\ look.action = "replace" =>
                  \A a \in ToSet(out) : a \notin look.whole /\ a.dnsaddr # "other"
<1> DEFINE A == ToSet(s)
           out == resolveRecordAddrs(s, look)
           untouched == look.action = "skip" \/ ~\E a \in A : IsDNSAddr(a)
           all == Remaining(A, look) \cup Gained(A, look)
<1>1. A \in SUBSET Address /\ IsFiniteSet(A)
  BY ElementsFinite
<1> HIDE DEF A
<1>2. CASE untouched
  <2>1. out = sortedAddrs(A)
    BY <1>2 DEF resolveRecordAddrs, A
  <2>2. out \in Seq(Address) /\ ToSet(out) = A
    BY <1>1, <2>1, Sorts
  <2>3. look.action = "replace" => \A a \in A : a \notin look.whole /\ a.dnsaddr # "other"
    BY <1>2 DEF IsDNSAddr
  <2> HIDE DEF out
  <2>4. QED
    BY <2>1, <2>2, <2>3 DEF A, out
<1>3. CASE ~untouched
  <2>1. out = filterPrivateMultiaddr(all)
    BY <1>3 DEF resolveRecordAddrs, A
  <2>2. Remaining(A, look) \in SUBSET Address /\ IsFiniteSet(Remaining(A, look))
    BY <1>1, FS_Subset DEF Remaining
  <2>3. /\ Gained(A, look) \in SUBSET Address /\ IsFiniteSet(Gained(A, look))
        /\ \A a \in Gained(A, look) : ~IsDNSAddr(a)
    <3> DEFINE W == A \cap look.whole
               P == A \ look.whole
    <3>1. W \in SUBSET Address /\ IsFiniteSet(W) /\ P \in SUBSET Address /\ IsFiniteSet(P)
      BY <1>1, FS_Subset
    <3> HIDE DEF W, P
    <3>2. /\ Resolved(W) \in SUBSET Address /\ IsFiniteSet(Resolved(W))
          /\ Resolved(P) \in SUBSET Address /\ IsFiniteSet(Resolved(P))
          /\ \A a \in Resolved(W) \cup Resolved(P) : ~IsDNSAddr(a)
      BY <3>1, ResolvedIsFinal
    <3>3. Gained(A, look) = Resolved(W) \cup (Resolved(P) \cap look.part)
      BY DEF Gained, W, P
    <3>4. IsFiniteSet(Resolved(P) \cap look.part)
      BY <3>2, FS_Subset
    <3>5. IsFiniteSet(Gained(A, look))
      BY <3>2, <3>3, <3>4, FS_Union
    <3>6. QED
      BY <3>2, <3>3, <3>5
  <2>4. all \in SUBSET Address /\ IsFiniteSet(all)
    BY <2>2, <2>3, FS_Union
  <2>5. look.action = "replace" => \A a \in all : a \notin look.whole /\ a.dnsaddr # "other"
    <3>1. ASSUME look.action = "replace", NEW a \in Remaining(A, look)
          PROVE  a \notin look.whole /\ a.dnsaddr # "other"
      BY <3>1 DEF Remaining
    <3>2. ASSUME NEW a \in Gained(A, look) PROVE a \notin look.whole /\ a.dnsaddr # "other"
      BY <2>3 DEF IsDNSAddr
    <3>3. QED
      BY <3>1, <3>2
  <2>6. \A a \in all : a \in A \/ a \in Gained(A, look)
    BY DEF Remaining
  <2> HIDE DEF all
  <2>7. /\ out \in Seq(Address)
        /\ ToSet(out) = {a \in all : ~a.private}
        /\ out = sortedAddrs(ToSet(out))
    BY <2>1, <2>4, Filters
  <2> HIDE DEF out
  <2>8. QED
    BY <2>5, <2>7 DEF out
<1>4. QED
  BY <1>2, <1>3

-----------------------------------------------------------------------------
(* The layers.                                                             *)

LayerNames == {"dnsaddr", "sanitize", "cached"}

\* What is around a source, behind the resolution if there is any.
Inner(at, hasBook) ==
  IF at # "dht" THEN << >>
  ELSE <<"sanitize">> \o (IF hasBook THEN <<"cached">> \o << >> ELSE << >>)

Layers(at, hasBook, mode) ==
  IF mode = "never" THEN Inner(at, hasBook) ELSE <<"dnsaddr">> \o Inner(at, hasBook)

LEMMA Wrapped ==
  ASSUME NEW old, NEW layers, NEW at, NEW url
  PROVE  [[layers |-> old, at |-> at, url |-> url] EXCEPT !.layers = layers]
           = [layers |-> layers, at |-> at, url |-> url]
  OBVIOUS

LEMMA Prepends ==
  ASSUME NEW x \in LayerNames, NEW s \in Seq(LayerNames)
  PROVE  /\ <<x>> \o s \in Seq(LayerNames)
         /\ Len(<<x>> \o s) = Len(s) + 1
         /\ DOMAIN (<<x>> \o s) = 1 .. Len(s) + 1
         /\ (<<x>> \o s)[1] = x
         /\ \A i \in 1 .. Len(s) : (<<x>> \o s)[i + 1] = s[i]
  OBVIOUS

LEMMA InnerLayers ==
  ASSUME NEW at, NEW hasBook
  PROVE  /\ at # "dht" => Inner(at, hasBook) = << >>
         /\ at = "dht" => /\ Inner(at, hasBook) \in Seq(LayerNames)
                          /\ Inner(at, hasBook)[1] = "sanitize"
         /\ at = "dht" /\ ~hasBook => Len(Inner(at, hasBook)) = 1
         /\ at = "dht" /\ hasBook => /\ Len(Inner(at, hasBook)) = 2
                                     /\ Inner(at, hasBook)[2] = "cached"
<1> DEFINE c == <<"cached">> \o << >>
           s1 == <<"sanitize">> \o << >>
           s2 == <<"sanitize">> \o c
<1>1. << >> \in Seq(LayerNames) /\ Len(<< >>) = 0
  OBVIOUS
<1>2. c \in Seq(LayerNames) /\ Len(c) = 1 /\ c[1] = "cached"
  BY <1>1, Prepends DEF LayerNames
<1>3. s1 \in Seq(LayerNames) /\ Len(s1) = 1 /\ s1[1] = "sanitize"
  BY <1>1, Prepends DEF LayerNames
<1> HIDE DEF c
<1>4. s2 \in Seq(LayerNames) /\ Len(s2) = 2 /\ s2[1] = "sanitize"
  BY <1>2, Prepends DEF LayerNames
<1>5. s2[2] = "cached"
  <2>1. "sanitize" \in LayerNames /\ 1 \in 1 .. Len(c)
    BY <1>2 DEF LayerNames
  <2>2. s2[1 + 1] = c[1]
    BY <1>2, <2>1, Prepends
  <2>3. QED
    BY <1>2, <2>2
<1>6. Inner(at, hasBook) = IF at # "dht" THEN << >> ELSE IF hasBook THEN s2 ELSE s1
  BY DEF Inner, c
<1> HIDE DEF s1, s2
<1>7. QED
  BY <1>3, <1>4, <1>5, <1>6

LEMMA ResolvedLayers ==
  ASSUME NEW s \in Seq(LayerNames)
  PROVE  /\ DOMAIN (<<"dnsaddr">> \o s) = 1 .. Len(s) + 1
         /\ (<<"dnsaddr">> \o s)[1] = "dnsaddr"
         /\ Len(s) >= 1 => (<<"dnsaddr">> \o s)[2] = s[1]
         /\ Len(s) >= 2 => (<<"dnsaddr">> \o s)[3] = s[2]
<1>1. "dnsaddr" \in LayerNames
  BY DEF LayerNames
<1>2. Len(s) >= 1 => 1 \in 1 .. Len(s)
  OBVIOUS
<1>3. Len(s) >= 2 => 2 \in 1 .. Len(s)
  OBVIOUS
<1>4. Len(s) >= 1 => (<<"dnsaddr">> \o s)[1 + 1] = s[1]
  BY <1>1, <1>2, Prepends
<1>5. Len(s) >= 2 => (<<"dnsaddr">> \o s)[2 + 1] = s[2]
  BY <1>1, <1>3, Prepends
<1>6. QED
  BY <1>1, <1>4, <1>5, Prepends

\* What the layers of a branch make of the addresses of a record: none is a
\* private address of the DHT, or one that the resolution has added; and they
\* are in order if there is a layer.
Delivered(b, mode, given, look, out) ==
  /\ out \in Seq(Address)
  /\ b.at = "dht" => \A a \in ToSet(out) : ~a.private
  /\ \A a \in ToSet(out) : a.private => a \in ToSet(given)
  /\ mode # "never" \/ b.at = "dht" => out = sortedAddrs(ToSet(out))
  /\ mode # "never" /\ look.action = "replace" =>
       \A a \in ToSet(out) : a \notin look.whole /\ a.dnsaddr # "other"

LEMMA Flows ==
  ASSUME NEW b, NEW hasBook, NEW mode,
         b.layers = Layers(b.at, hasBook, mode),
         NEW given \in Seq(Address), NEW book \in Seq(Address),
         NEW k, NEW look, \A a \in look.whole : IsDNSAddr(a)
  PROVE  Delivered(b, mode, given, look, Flow(b, given, k, book, look))
<1> DEFINE out == Flow(b, given, k, book, look)
           through(layer, as) == Through(layer, as, k, book, look)
           after(i, as) == IF i \notin DOMAIN b.layers THEN as ELSE through(b.layers[i], as)
<1>0. out = after(1, after(2, after(3, given)))
  BY DEF Flow
<1> HIDE DEF out
<1>1. PICK res :
        /\ res \in Seq(Address)
        /\ b.at # "dht" => res = given
        /\ b.at = "dht" => \A a \in ToSet(res) : ~a.private
        /\ b.at = "dht" => res = sortedAddrs(ToSet(res))
        /\ out = IF mode = "never" THEN res ELSE resolveRecordAddrs(res, look)
  <2> DEFINE inner == Inner(b.at, hasBook)
  <2>0. b.layers = IF mode = "never" THEN inner ELSE <<"dnsaddr">> \o inner
    BY DEF Layers
  <2>1. CASE b.at # "dht"
    <3>0. inner = << >> /\ << >> \in Seq(LayerNames) /\ Len(<< >>) = 0
      BY <2>1, InnerLayers
    <3> HIDE DEF inner
    <3>1. CASE mode = "never"
      <4>1. DOMAIN b.layers = 1 .. 0
        BY <2>0, <3>0, <3>1
      <4>2. out = given
        BY <1>0, <4>1
      <4>3. QED
        BY <2>1, <3>1, <4>2
    <3>2. CASE mode # "never"
      <4>1. DOMAIN b.layers = 1 .. 1 /\ b.layers[1] = "dnsaddr"
        BY <2>0, <3>0, <3>2, ResolvedLayers
      <4>2. out = through("dnsaddr", given)
        BY <1>0, <4>1
      <4>3. QED
        BY <2>1, <3>2, <4>2 DEF Through
    <3>3. QED
      BY <3>1, <3>2
  <2>2. CASE b.at = "dht"
    <3> DEFINE source == IF hasBook THEN through("cached", given) ELSE given
               clean == through("sanitize", source)
    <3>0. /\ inner \in Seq(LayerNames) /\ inner[1] = "sanitize"
          /\ hasBook => Len(inner) = 2 /\ inner[2] = "cached"
          /\ ~hasBook => Len(inner) = 1
      BY <2>2, InnerLayers
    <3> HIDE DEF inner
    <3>1. out = IF mode = "never" THEN clean ELSE through("dnsaddr", clean)
      <4>1. CASE mode = "never"
        <5>1. b.layers = inner
          BY <2>0, <4>1
        <5>2. /\ 1 \in DOMAIN b.layers /\ b.layers[1] = "sanitize"
              /\ hasBook => 2 \in DOMAIN b.layers /\ b.layers[2] = "cached"
              /\ ~hasBook => 2 \notin DOMAIN b.layers
              /\ 3 \notin DOMAIN b.layers
          BY <3>0, <5>1
        <5>3. after(3, given) = given
          BY <5>2
        <5>4. after(2, given) = source
          BY <5>2
        <5>5. after(1, source) = clean
          BY <5>2
        <5> HIDE DEF source, clean, after
        <5>6. QED
          BY <1>0, <4>1, <5>3, <5>4, <5>5
      <4>2. CASE mode # "never"
        <5>1. b.layers = <<"dnsaddr">> \o inner
          BY <2>0, <4>2
        <5>2. /\ 1 \in DOMAIN b.layers /\ b.layers[1] = "dnsaddr"
              /\ 2 \in DOMAIN b.layers /\ b.layers[2] = "sanitize"
              /\ hasBook => 3 \in DOMAIN b.layers /\ b.layers[3] = "cached"
              /\ ~hasBook => 3 \notin DOMAIN b.layers
          BY <3>0, <5>1, ResolvedLayers
        <5>3. after(3, given) = source
          BY <5>2
        <5>4. after(2, source) = clean
          BY <5>2
        <5>5. after(1, clean) = through("dnsaddr", clean)
          BY <5>2
        <5> HIDE DEF source, clean, after
        <5>6. QED
          BY <1>0, <4>2, <5>3, <5>4, <5>5
      <4>3. QED
        BY <4>1, <4>2
    <3>2. source \in Seq(Address)
      BY DEF Through, fromCache
    <3> HIDE DEF source
    <3>3. clean = filterPrivateMultiaddr(ToSet(source))
      BY DEF Through
    <3>4. /\ clean \in Seq(Address)
          /\ ToSet(clean) = {a \in ToSet(source) : ~a.private}
          /\ clean = sortedAddrs(ToSet(clean))
      BY <3>2, <3>3, ElementsFinite, Filters
    <3>5. through("dnsaddr", clean) = resolveRecordAddrs(clean, look)
      BY DEF Through
    <3> HIDE DEF clean
    <3>6. QED
      BY <2>2, <3>1, <3>4, <3>5
  <2>3. QED
    BY <2>1, <2>2
<1>2. CASE mode = "never"
  BY <1>1, <1>2 DEF out, Delivered
<1>3. CASE mode # "never"
  <2>1. out = resolveRecordAddrs(res, look)
    BY <1>1, <1>3
  <2>2. /\ out \in Seq(Address)
        /\ out = sortedAddrs(ToSet(out))
        /\ \A a \in ToSet(out) : a.private => a \in ToSet(res)
        /\ look.action = "replace" =>
             \A a \in ToSet(out) : a \notin look.whole /\ a.dnsaddr # "other"
    BY <1>1, <2>1, Resolves
  <2>3. QED
    BY <1>1, <1>3, <2>2 DEF out, Delivered
<1>4. QED
  BY <1>2, <1>3

\* Every branch of every router has the layers of its source.
LEMMA Layering ==
  ASSUME NEW d, NEW hasBook, NEW cl, NEW A, NEW mode,
         NEW e \in Kinds \cup {"closest"},
         NEW b \in Wiring(d, hasBook, cl, {Source("block", a) : a \in A}, mode)[e]
  PROVE  /\ b.at \in {"dht", "http", "block"}
         /\ b.layers = Layers(b.at, hasBook, mode)
         /\ b.at = "block" => b.url \in A
<1> DEFINE bl == {Source("block", a) : a \in A}
           dhtRouter == sanitizedDHTRouter(hasBook)
<1>1. ASSUME NEW c \in dhtRouter
      PROVE  c.at = "dht" /\ c = [layers |-> Inner("dht", hasBook), at |-> "dht", url |-> None]
  <2> DEFINE bare == [layers |-> << >>, at |-> "dht", url |-> None]
             l == <<"cached">> \o << >>
             booked == [bare EXCEPT !.layers = l]
             source == IF hasBook THEN booked ELSE bare
             m == <<"sanitize">> \o source.layers
  <2>1. c = [source EXCEPT !.layers = m]
    BY DEF sanitizedDHTRouter, Wrap, Source
  <2> HIDE DEF l
  <2>2. booked = [layers |-> l, at |-> "dht", url |-> None]
    BY Wrapped
  <2>3. source = [layers |-> IF hasBook THEN l ELSE << >>, at |-> "dht", url |-> None]
    BY <2>2
  <2>4. source.layers = IF hasBook THEN l ELSE << >>
    BY <2>3
  <2> HIDE DEF booked, source, m
  <2>5. c = [layers |-> m, at |-> "dht", url |-> None]
    BY <2>1, <2>3, Wrapped
  <2>6. m = Inner("dht", hasBook)
    BY <2>4 DEF Inner, m, l
  <2>7. QED
    BY <2>5, <2>6
<1>2. ASSUME NEW R, NEW c \in withDNSAddrResolution(R, mode),
             \A x \in R : /\ x = [layers |-> Inner(x.at, hasBook), at |-> x.at, url |-> x.url]
                          /\ x.at \in {"dht", "http", "block"}
      PROVE  /\ c.layers = Layers(c.at, hasBook, mode)
             /\ \E x \in R : c.at = x.at /\ c.url = x.url
  <2>1. CASE mode = "never"
    BY <1>2, <2>1 DEF withDNSAddrResolution, Layers
  <2>2. CASE mode # "never"
    <3>1. PICK x \in R : c = [x EXCEPT !.layers = <<"dnsaddr">> \o @]
      BY <2>2 DEF withDNSAddrResolution, Wrap
    <3>2. x = [layers |-> Inner(x.at, hasBook), at |-> x.at, url |-> x.url]
      BY <1>2
    <3>3. c = [layers |-> <<"dnsaddr">> \o Inner(x.at, hasBook), at |-> x.at, url |-> x.url]
      <4> DEFINE l == <<"dnsaddr">> \o x.layers
      <4>1. c = [x EXCEPT !.layers = l]
        BY <3>1
      <4>2. x.layers = Inner(x.at, hasBook)
        BY <3>2
      <4> HIDE DEF l
      <4>3. c = [layers |-> l, at |-> x.at, url |-> x.url]
        BY <3>2, <4>1, Wrapped
      <4>4. QED
        BY <4>2, <4>3 DEF l
    <3>4. QED
      BY <2>2, <3>3 DEF Layers
  <2>3. QED
    BY <2>1, <2>2
<1>3. ASSUME NEW C, NEW B \in SUBSET bl, b \in combineRouters(d, hasBook, C, B, mode)
      PROVE  /\ b.at \in {"dht", "http", "block"}
             /\ b.layers = Layers(b.at, hasBook, mode)
             /\ b.at = "block" => b.url \in A
  <2> DEFINE R == (IF d = {} THEN {} ELSE dhtRouter) \cup {Source("http", u) : u \in C} \cup B
  <2>1. ASSUME NEW x \in R
        PROVE  /\ x = [layers |-> Inner(x.at, hasBook), at |-> x.at, url |-> x.url]
               /\ x.at \in {"dht", "http", "block"}
               /\ x.at = "block" => x.url \in A
    <3>1. CASE x \in dhtRouter
      BY <1>1, <3>1
    <3>2. CASE x \in {Source("http", u) : u \in C} \cup bl
      BY <3>2 DEF Source, Inner
    <3>3. QED
      BY <3>1, <3>2
  <2>2. b \in withDNSAddrResolution(R, mode)
    BY <1>3 DEF combineRouters
  <2> HIDE DEF R
  <2>3. QED
    BY <1>2, <2>1, <2>2
<1>4. CASE e \in Kinds
  <2>1. \E C : \E B \in SUBSET bl : b \in combineRouters(d, hasBook, C, B, mode)
    BY <1>4 DEF Wiring, Kinds
  <2>2. QED
    BY <1>3, <2>1
<1>5. CASE e = "closest"
  <2>1. b \in withDNSAddrResolution(dhtRouter, mode)
    BY <1>5 DEF Wiring
  <2>2. QED
    BY <1>1, <1>2, <2>1
<1>6. QED
  BY <1>4, <1>5

-----------------------------------------------------------------------------
(* The URLs.                                                               *)

\* A URL with the first m parts of its tail.
Upto(u, m) == [host |-> u.host, tail |-> SubSeq(u.tail, 1, m)]

LEMMA CutsTail ==
  ASSUME NEW u \in URLs, NEW t
  PROVE  [u EXCEPT !.tail = t] = [host |-> u.host, tail |-> t]
  BY DEF URLs

LEMMA Truncates ==
  ASSUME NEW s \in Seq(STRING), NEW m \in 0 .. Len(s)
  PROVE  /\ SubSeq(s, 1, m) \in Seq(STRING) /\ Len(SubSeq(s, 1, m)) = m
         /\ \A i \in 1 .. m : SubSeq(s, 1, m)[i] = s[i]
         /\ \A l \in 0 .. m : SubSeq(SubSeq(s, 1, m), 1, l) = SubSeq(s, 1, l)
<1>1. /\ SubSeq(s, 1, m) \in Seq(STRING) /\ Len(SubSeq(s, 1, m)) = m
      /\ \A i \in 1 .. m : SubSeq(s, 1, m)[i] = s[i]
  OBVIOUS
<1>2. ASSUME NEW l \in 0 .. m
      PROVE  SubSeq(SubSeq(s, 1, m), 1, l) = SubSeq(s, 1, l)
  <2> DEFINE p == SubSeq(SubSeq(s, 1, m), 1, l)
             q == SubSeq(s, 1, l)
  <2>1. p \in Seq(STRING) /\ Len(p) = l /\ \A i \in 1 .. l : p[i] = s[i]
    BY <1>1
  <2>2. q \in Seq(STRING) /\ Len(q) = l /\ \A i \in 1 .. l : q[i] = s[i]
    OBVIOUS
  <2> HIDE DEF p, q
  <2>3. QED
    BY <2>1, <2>2, SeqEqual
<1>3. QED
  BY <1>1, <1>2

\* Cutting a part cuts the last one, if it is that part.
LEMMA Cuts ==
  ASSUME NEW u \in URLs, NEW m \in 0 .. Len(u.tail), NEW part
  PROVE  /\ Upto(u, m) \in URLs
         /\ TrimSuffix(Upto(u, m), part) =
              IF m > 0 /\ u.tail[m] = part THEN Upto(u, m - 1) ELSE Upto(u, m)
<1> DEFINE v == Upto(u, m)
<1>1. u.tail \in Seq(STRING) /\ Len(u.tail) \in Nat
  BY DEF URLs
<1>2. v.tail = SubSeq(u.tail, 1, m) /\ v.host = u.host
  BY DEF Upto
<1>3. v.tail \in Seq(STRING) /\ Len(v.tail) = m /\ \A i \in 1 .. m : v.tail[i] = u.tail[i]
  BY <1>1, <1>2, Truncates
<1>4. v \in URLs
  BY <1>1, Truncates DEF Upto, URLs
<1> HIDE DEF v
<1>5. HasSuffix(v, part) <=> m > 0 /\ u.tail[m] = part
  <2>1. v.tail # << >> <=> m > 0
    BY <1>3
  <2>2. m > 0 => v.tail[Len(v.tail)] = u.tail[m]
    BY <1>3
  <2>3. QED
    BY <2>1, <2>2 DEF HasSuffix, Last
<1>6. ASSUME m > 0
      PROVE  [v EXCEPT !.tail = Front(@)] = Upto(u, m - 1)
  <2>1. Front(v.tail) = SubSeq(u.tail, 1, m - 1)
    BY <1>1, <1>2, <1>3, <1>6, Truncates DEF Front
  <2>2. [v EXCEPT !.tail = Front(v.tail)] = [host |-> v.host, tail |-> Front(v.tail)]
    BY <1>4, CutsTail
  <2>3. QED
    BY <1>2, <2>1, <2>2 DEF Upto
<1>7. TrimSuffix(v, part) = IF m > 0 /\ u.tail[m] = part THEN Upto(u, m - 1) ELSE v
  BY <1>5, <1>6 DEF TrimSuffix
<1>8. QED
  BY <1>4, <1>7 DEF v

\* What is left is the base.
LEMMA MeansBase ==
  ASSUME NEW u \in URLs, NEW m \in 0 .. Len(u.tail), NEW n \in 0 .. m,
         \A i \in 1 .. n : u.tail[i] \notin Marks,
         \A i \in n + 1 .. m : u.tail[i] \in Marks
  PROVE  Means(Upto(u, m)) = Upto(u, n)
<1> DEFINE v == Upto(u, m)
           ends == {j \in 0 .. Len(v.tail) : \A i \in j + 1 .. Len(v.tail) : v.tail[i] \in Marks}
<1>1. u.tail \in Seq(STRING) /\ Len(u.tail) \in Nat
  BY DEF URLs
<1>2. v.tail = SubSeq(u.tail, 1, m) /\ v.host = u.host
  BY DEF Upto
<1>3. Len(v.tail) = m /\ \A i \in 1 .. m : v.tail[i] = u.tail[i]
  BY <1>1, <1>2, Truncates
<1>4. v \in URLs
  BY Cuts
<1> HIDE DEF v
<1>5. n \in ends
  BY <1>3
<1>6. \A j \in ends : n <= j
  <2> SUFFICES ASSUME NEW j \in ends, j < n PROVE FALSE
    BY <1>3
  <2>1. n \in j + 1 .. Len(v.tail)
    BY <1>3
  <2>2. v.tail[n] \in Marks
    BY <2>1
  <2>3. QED
    BY <1>3, <2>2
<1>7. \A j \in ends : (\A l \in ends : j <= l) => j = n
  BY <1>3, <1>5, <1>6
<1>8. (CHOOSE j \in ends : \A l \in ends : j <= l) = n
  BY <1>5, <1>6, <1>7
<1>9. Means(v) = [v EXCEPT !.tail = SubSeq(v.tail, 1, n)]
  BY <1>8 DEF Means
<1>10. SubSeq(v.tail, 1, n) = SubSeq(u.tail, 1, n)
  BY <1>1, <1>2, Truncates
<1>11. QED
  BY <1>2, <1>4, <1>9, <1>10, CutsTail DEF Upto, v

\* The steps of start cut a URL to its base, whichever of them apply.
LEMMA Strips ==
  ASSUME NEW k \in Kinds, NEW u, Spelled(u, k)
  PROVE  /\ TrimSuffix(TrimSuffix(u, "/"), k) = Means(u)
         /\ TrimSuffix(TrimSuffix(normalizeEndpointURL(u, k), "/"), k) = Means(u)
         /\ ~HasSuffix(u, "/") => normalizeEndpointURL(u, k) = Means(u)
         /\ Means(Means(u)) = Means(u)
         /\ Means(u).host = u.host
         /\ u.host \in {"", "auto"} => Means(u) = u /\ normalizeEndpointURL(u, k) = u
         /\ normalizeEndpointURL(u, k).host = u.host
<1> DEFINE t == u.tail
           len == Len(t)
<1>0. u \in URLs
  BY DEF Spelled
<1>1. u \in URLs /\ t \in Seq(STRING) /\ len \in Nat
  BY <1>0 DEF URLs
<1>2. PICK n \in 0 .. len :
        /\ \A i \in 1 .. n : t[i] \notin Marks
        /\ SubSeq(t, n + 1, len) \in {<< >>, <<"/">>, <<k>>, <<k, "/">>}
  BY DEF Spelled
<1>3. \/ len = n
      \/ len = n + 1 /\ t[n + 1] \in {"/", k}
      \/ len = n + 2 /\ t[n + 1] = k /\ t[n + 2] = "/"
  <2> DEFINE s == SubSeq(t, n + 1, len)
  <2>1. Len(s) = len - n /\ \A i \in 1 .. len - n : s[i] = t[n + i]
    BY <1>1
  <2>0. s = << >> \/ s = <<"/">> \/ s = <<k>> \/ s = <<k, "/">>
    BY <1>2
  <2> HIDE DEF s
  <2>2. CASE s = << >>
    BY <1>1, <2>1, <2>2
  <2>3. CASE s = <<"/">> \/ s = <<k>>
    <3>1. Len(s) = 1 /\ s[1] \in {"/", k}
      BY <2>3
    <3>2. QED
      BY <1>1, <2>1, <3>1
  <2>4. CASE s = <<k, "/">>
    <3>0. Len(s) = 2
      BY <2>4
    <3>1. s[1] = k /\ s[2] = "/"
      BY <2>4
    <3>2. len = n + 2 /\ 1 \in 1 .. len - n /\ 2 \in 1 .. len - n
      <4>1. len - n = 2
        BY <2>1, <3>0
      <4>2. QED
        BY <1>1, <4>1
    <3>3. t[n + 1] = k /\ t[n + 2] = "/"
      BY <2>1, <3>1, <3>2
    <3>4. QED
      BY <3>2, <3>3
  <2>5. QED
    BY <2>0, <2>2, <2>3, <2>4
<1>4. k # "/" /\ k \in Marks /\ "/" \in Marks
  BY DEF Marks, Kinds
<1>5. \A i \in n + 1 .. len : t[i] \in Marks
  BY <1>1, <1>3, <1>4
<1>6. u = Upto(u, len)
  <2>1. SubSeq(t, 1, len) = t
    BY <1>1
  <2>2. QED
    BY <1>1, <2>1 DEF Upto, URLs
<1>7. \A part : \A m \in 0 .. len :
        TrimSuffix(Upto(u, m), part) =
          IF m > 0 /\ t[m] = part THEN Upto(u, m - 1) ELSE Upto(u, m)
  BY <1>1, Cuts
<1>8. Means(u) = Upto(u, n) /\ Means(Upto(u, n)) = Upto(u, n)
  <2>1. Means(Upto(u, len)) = Upto(u, n)
    BY <1>1, <1>2, <1>5, MeansBase
  <2>2. Means(Upto(u, n)) = Upto(u, n)
    BY <1>1, <1>2, MeansBase
  <2>3. QED
    BY <1>6, <2>1, <2>2
<1>9. n > 0 => t[n] # k /\ t[n] # "/"
  BY <1>2, <1>4
<1>10. \A m \in 0 .. len : Upto(u, m).host = u.host
  BY DEF Upto
<1>11. HasSuffix(u, "/") <=> len > 0 /\ t[len] = "/"
  BY <1>1 DEF HasSuffix, Last
<1> DEFINE cut(v) == TrimSuffix(TrimSuffix(v, "/"), k)
<1>12. cut(Upto(u, n)) = Upto(u, n)
  BY <1>2, <1>7, <1>9
<1>13. CASE len = n
  <2>1. TrimSuffix(u, k) = u
    BY <1>6, <1>7, <1>9, <1>13, <1>1
  <2>2. QED
    BY <1>6, <1>8, <1>10, <1>12, <1>13, <2>1 DEF normalizeEndpointURL
<1>14. CASE len > n
  <2>1. cut(u) = Upto(u, n)
    <3>1. CASE len = n + 1 /\ t[n + 1] = "/"
      <4>1. TrimSuffix(u, "/") = Upto(u, n)
        BY <1>1, <1>6, <1>7, <3>1
      <4>2. QED
        BY <1>2, <1>7, <1>9, <4>1
    <3>2. CASE len = n + 1 /\ t[n + 1] = k
      <4>1. TrimSuffix(u, "/") = u
        BY <1>1, <1>4, <1>6, <1>7, <3>2
      <4>2. TrimSuffix(u, k) = Upto(u, n)
        BY <1>1, <1>6, <1>7, <3>2
      <4>3. QED
        BY <4>1, <4>2
    <3>3. CASE len = n + 2 /\ t[n + 1] = k /\ t[n + 2] = "/"
      <4>1. TrimSuffix(u, "/") = Upto(u, n + 1)
        BY <1>1, <1>6, <1>7, <3>3
      <4>2. TrimSuffix(Upto(u, n + 1), k) = Upto(u, n)
        BY <1>1, <1>7, <3>3
      <4>3. QED
        BY <4>1, <4>2
    <3>4. QED
      BY <1>3, <1>14, <3>1, <3>2, <3>3
  <2>2. TrimSuffix(u, k) = IF t[len] = k THEN Upto(u, n) ELSE u
    <3>1. TrimSuffix(u, k) = IF t[len] = k THEN Upto(u, len - 1) ELSE u
      BY <1>1, <1>6, <1>7, <1>14
    <3>2. t[len] = k => len = n + 1
      BY <1>3, <1>4, <1>14
    <3>3. QED
      BY <1>1, <3>1, <3>2
  <2>3. cut(TrimSuffix(u, k)) = Upto(u, n)
    BY <1>12, <2>1, <2>2
  <2>4. ~HasSuffix(u, "/") => t[len] = k
    BY <1>1, <1>3, <1>11, <1>14
  <2>5. u.host \notin {"", "auto"}
    <3>1. t # << >>
      BY <1>1, <1>14
    <3>2. QED
      BY <3>1 DEF Spelled
  <2>6. QED
    BY <1>6, <1>8, <1>10, <2>1, <2>2, <2>3, <2>4, <2>5 DEF normalizeEndpointURL
<1>15. len = n \/ len > n
  BY <1>1
<1>16. QED
  BY <1>13, <1>14, <1>15

\* Each kind of lookup has one HTTP branch for each of its clients.
LEMMA Wires ==
  ASSUME NEW d, NEW hasBook, NEW cl, NEW A, NEW mode
  PROVE  LET W == Wiring(d, hasBook, cl, {Source("block", a) : a \in A}, mode)
         IN  /\ \A k \in Kinds : {b.url : b \in {c \in W[k] : c.at = "http"}} = cl[k]
             /\ {c \in W["closest"] : c.at = "http"} = {}
<1> DEFINE bl == {Source("block", a) : a \in A}
           dhtRouter == sanitizedDHTRouter(hasBook)
<1>1. \A c \in dhtRouter : c.at = "dht"
  BY DEF sanitizedDHTRouter, Wrap, Source
<1>2. ASSUME NEW R
      PROVE  /\ \A c \in withDNSAddrResolution(R, mode) : \E x \in R : c.at = x.at /\ c.url = x.url
             /\ \A u, l : [layers |-> l, at |-> "http", url |-> u] \in R =>
                  \E c \in withDNSAddrResolution(R, mode) : c.at = "http" /\ c.url = u
  <2>1. CASE mode = "never"
    BY <2>1 DEF withDNSAddrResolution
  <2>2. CASE mode # "never"
    <3> DEFINE wrap(x) == [x EXCEPT !.layers = <<"dnsaddr">> \o @]
    <3>1. withDNSAddrResolution(R, mode) = {wrap(x) : x \in R}
      BY <2>2 DEF withDNSAddrResolution, Wrap
    <3>2. \A x : wrap(x).at = x.at /\ wrap(x).url = x.url
      OBVIOUS
    <3>3. ASSUME NEW u, NEW l, [layers |-> l, at |-> "http", url |-> u] \in R
          PROVE  \E c \in withDNSAddrResolution(R, mode) : c.at = "http" /\ c.url = u
      <4> DEFINE x == [layers |-> l, at |-> "http", url |-> u]
      <4>1. x.at = "http" /\ x.url = u
        OBVIOUS
      <4> HIDE DEF x, wrap
      <4>2. wrap(x) \in withDNSAddrResolution(R, mode)
        BY <3>1, <3>3 DEF x
      <4>3. QED
        BY <3>2, <4>1, <4>2
    <3> HIDE DEF wrap
    <3>4. QED
      BY <3>1, <3>2, <3>3
  <2>3. QED
    BY <2>1, <2>2
<1>3. ASSUME NEW C, NEW B \in SUBSET bl
      PROVE  {b.url : b \in {c \in combineRouters(d, hasBook, C, B, mode) : c.at = "http"}} = C
  <2> DEFINE R == (IF d = {} THEN {} ELSE dhtRouter) \cup {Source("http", u) : u \in C} \cup B
             W == withDNSAddrResolution(R, mode)
  <2>1. \A x \in R : x.at = "http" => x.url \in C
    BY <1>1 DEF Source
  <2>2. \A u \in C : [layers |-> << >>, at |-> "http", url |-> u] \in R
    BY DEF Source
  <2>3. combineRouters(d, hasBook, C, B, mode) = W
    BY DEF combineRouters
  <2> HIDE DEF R
  <2>4. \A c \in W : c.at = "http" => c.url \in C
    BY <1>2, <2>1
  <2>5. \A u \in C : \E c \in W : c.at = "http" /\ c.url = u
    BY <1>2, <2>2
  <2> HIDE DEF W
  <2>6. QED
    BY <2>3, <2>4, <2>5
<1>4. ASSUME NEW k \in Kinds
      PROVE  {b.url : b \in {c \in Wiring(d, hasBook, cl, bl, mode)[k] : c.at = "http"}} = cl[k]
  <2>1. \E B \in SUBSET bl : Wiring(d, hasBook, cl, bl, mode)[k] = combineRouters(d, hasBook, cl[k], B, mode)
    <3>1. {} \in SUBSET bl /\ bl \in SUBSET bl
      OBVIOUS
    <3>2. CASE k = "providers"
      BY <3>1, <3>2 DEF Wiring
    <3>3. CASE k = "peers" \/ k = "ipns"
      BY <3>1, <3>3 DEF Wiring
    <3>4. QED
      BY <3>2, <3>3 DEF Kinds
  <2>2. PICK B \in SUBSET bl :
          Wiring(d, hasBook, cl, bl, mode)[k] = combineRouters(d, hasBook, cl[k], B, mode)
    BY <2>1
  <2>3. {b.url : b \in {c \in combineRouters(d, hasBook, cl[k], B, mode) : c.at = "http"}} = cl[k]
    BY <1>3
  <2>4. QED
    BY <2>2, <2>3
<1>5. \A c \in Wiring(d, hasBook, cl, bl, mode)["closest"] : c.at = "dht"
  <2>1. \A c \in withDNSAddrResolution(dhtRouter, mode) : c.at = "dht"
    BY <1>1, <1>2
  <2>2. Wiring(d, hasBook, cl, bl, mode)["closest"] =
          IF d = {} THEN {} ELSE withDNSAddrResolution(dhtRouter, mode)
    BY DEF Wiring
  <2>3. QED
    BY <2>1, <2>2
<1>6. QED
  BY <1>4, <1>5

\* What start makes of the configured URLs of a kind: their bases, each once.
LEMMA Expands ==
  ASSUME WellSpelled, ~ExpansionFails(cfg.urls, cfg.auto),
         cfg.dht \in {"accelerated", "standard", "disabled"},
         autoConf = "loaded" => cfg.auto,
         endpoints = expandDelegatedRoutingEndpoints(cfg.urls, cfg.auto, autoConf, cfg.dht),
         NEW k \in Kinds
  PROVE  /\ endpoints[k] \ {EmptyURL} = {Means(u) : u \in Given(k)}
         /\ \A u \in Given(k) : Means(Means(u)) = Means(u)
<1> DEFINE urls == cfg.urls[k]
           normalized == validateEndpointURLs(urls, k)
           norm(u) == normalizeEndpointURL(u, k)
           cut(u) == TrimSuffix(TrimSuffix(u, "/"), k)
           native == getNativeSystems(cfg.dht)
           known == IF AutoPlaceholder \in urls /\ autoConf = "loaded"
                    THEN {e.url : e \in {a \in AutoEndpoints : a.kind = k /\ a.system \notin native}}
                    ELSE {}
<1>1. \A u \in urls : Spelled(u, k) /\ (HasSuffix(u, "/") => cfg.auto)
  BY DEF WellSpelled
<1>2. ASSUME NEW u, Spelled(u, k)
      PROVE  /\ cut(u) = Means(u) /\ cut(norm(u)) = Means(u)
             /\ ~HasSuffix(u, "/") => norm(u) = Means(u)
             /\ Means(Means(u)) = Means(u) /\ Means(u).host = u.host
             /\ norm(u).host = u.host
             /\ u.host \in {"", "auto"} => Means(u) = u /\ norm(u) = u
             /\ u.host = "" => u = EmptyURL
             /\ u.host = "auto" => u = AutoPlaceholder
  <2>1. u \in URLs /\ (u.host \in {"", "auto"} => u.tail = << >>)
    BY <1>2 DEF Spelled
  <2>2. u = [host |-> u.host, tail |-> u.tail]
    BY <2>1 DEF URLs
  <2>3. /\ u.host = "" => u = EmptyURL
        /\ u.host = "auto" => u = AutoPlaceholder
    BY <2>1, <2>2 DEF EmptyURL, AutoPlaceholder
  <2>4. QED
    BY <1>2, <2>3, Strips
<1>3. EmptyURL.host = "" /\ AutoPlaceholder.host = "auto"
  BY DEF EmptyURL, AutoPlaceholder
<1>4. Given(k) = (urls \ {AutoPlaceholder, EmptyURL}) \cup known
  BY DEF Given, getNativeSystems
<1>5. \A u \in known : Spelled(u, k) /\ u.host \notin {"", "auto"}
  BY AutoEndpointsAssumption
<1>6. \A u \in Given(k) : Spelled(u, k) /\ u.host \notin {"", "auto"}
  BY <1>1, <1>2, <1>4, <1>5
<1>7. endpoints[k] =
        IF cfg.auto
        THEN {cut(u) : u \in ExpandDelegatedEndpoints(normalized, autoConf, native, k)}
        ELSE normalized
  BY DEF expandDelegatedRoutingEndpoints, stripRoutingPaths
<1>8. normalized = {norm(u) : u \in urls}
  BY DEF validateEndpointURLs
<1> HIDE DEF cut, norm
<1>9. AutoPlaceholder \in normalized <=> AutoPlaceholder \in urls
  <2>1. ASSUME NEW u \in urls
        PROVE  norm(u) = AutoPlaceholder <=> u = AutoPlaceholder
    <3>1. Spelled(u, k)
      BY <1>1
    <3>2. /\ norm(u).host = u.host
          /\ u.host = "auto" => u = AutoPlaceholder /\ norm(u) = u
      BY <1>2, <3>1
    <3>3. QED
      BY <1>3, <3>2
  <2>2. AutoPlaceholder \in urls => norm(AutoPlaceholder) = AutoPlaceholder
    BY <2>1
  <2>3. QED
    BY <1>8, <2>1, <2>2
<1>10. ExpandDelegatedEndpoints(normalized, autoConf, native, k) =
         (normalized \ {AutoPlaceholder}) \cup known
  BY <1>9 DEF ExpandDelegatedEndpoints
<1> HIDE DEF known, normalized, native
<1>11. endpoints[k] \ {EmptyURL} \subseteq {Means(u) : u \in Given(k)}
  <2> SUFFICES ASSUME NEW v \in endpoints[k], v # EmptyURL
               PROVE  \E u \in Given(k) : v = Means(u)
    OBVIOUS
  <2>1. CASE cfg.auto
    <3>1. PICK w \in (normalized \ {AutoPlaceholder}) \cup known : v = cut(w)
      BY <1>7, <1>10, <2>1
    <3>2. CASE w \in known
      BY <1>2, <1>4, <1>5, <3>1, <3>2
    <3>3. CASE w \notin known
      <4>1. PICK u \in urls : w = norm(u) /\ w # AutoPlaceholder
        BY <1>8, <3>1, <3>3
      <4>2. v = Means(u)
        BY <1>1, <1>2, <3>1, <4>1
      <4>3. u # AutoPlaceholder /\ u # EmptyURL
        BY <1>1, <1>2, <1>3, <4>1, <4>2
      <4>4. QED
        BY <1>4, <4>2, <4>3
    <3>4. QED
      BY <3>2, <3>3
  <2>2. CASE ~cfg.auto
    <3>1. PICK u \in urls : v = norm(u)
      BY <1>7, <1>8, <2>2
    <3>2. v = Means(u)
      BY <1>1, <1>2, <2>2, <3>1
    <3>3. u # AutoPlaceholder
      BY <2>2 DEF ExpansionFails
    <3>4. u # EmptyURL
      BY <1>1, <1>2, <1>3, <3>2
    <3>5. QED
      BY <1>4, <3>2, <3>3, <3>4
  <2>3. QED
    BY <2>1, <2>2
<1>12. ASSUME NEW u \in Given(k)
       PROVE  Means(u) \in endpoints[k] \ {EmptyURL}
  <2>0. /\ Means(u) # EmptyURL
        /\ cut(u) = Means(u) /\ cut(norm(u)) = Means(u)
        /\ ~HasSuffix(u, "/") => norm(u) = Means(u)
        /\ norm(u) # AutoPlaceholder
    BY <1>2, <1>3, <1>6
  <2>1. u \in known => cfg.auto
    BY DEF known
  <2>2. u \notin known => u \in urls /\ norm(u) \in normalized
    BY <1>4, <1>8
  <2>3. CASE cfg.auto
    <3>1. \A w \in (normalized \ {AutoPlaceholder}) \cup known : cut(w) \in endpoints[k]
      BY <1>7, <1>10, <2>3
    <3>2. CASE u \in known
      BY <2>0, <3>1, <3>2
    <3>3. CASE u \notin known
      BY <2>0, <2>2, <3>1, <3>3
    <3>4. QED
      BY <3>2, <3>3
  <2>4. CASE ~cfg.auto
    <3>1. u \in urls /\ norm(u) \in endpoints[k]
      BY <1>7, <2>1, <2>2, <2>4
    <3>2. ~HasSuffix(u, "/")
      BY <1>1, <2>4, <3>1
    <3>3. QED
      BY <2>0, <3>1, <3>2
  <2>5. QED
    BY <2>3, <2>4
<1>13. endpoints[k] \ {EmptyURL} = {Means(u) : u \in Given(k)}
  BY <1>11, <1>12
<1>14. \A u \in Given(k) : Means(Means(u)) = Means(u)
  BY <1>2, <1>6
<1>15. QED
  BY <1>13, <1>14

\* The clients of a kind are its endpoints without the empty ones.
LEMMA Clients ==
  ASSUME NEW urls, NEW k \in Kinds
  PROVE  createDelegatedHTTPRouters(urls)[k] = urls[k] \ {EmptyURL}
<1> DEFINE all == (UNION {urls[x] : x \in Kinds}) \ {EmptyURL}
           found == collectEndpoints(urls)
<1>1. found = [u \in all |-> {x \in Kinds : u \in urls[x]}]
  BY DEF collectEndpoints
<1>2. createDelegatedHTTPRouters(urls)[k] = {u \in DOMAIN found : k \in found[u]}
  BY DEF createDelegatedHTTPRouters
<1> HIDE DEF found
<1>3. QED
  BY <1>1, <1>2

-----------------------------------------------------------------------------
(* What is built stays as it was built.                                    *)

\* From here on the routers are there.
HasRouters == {"listen", "notify", "serve", "shutdown", "wait", "close"}
HasDHT == {"blocks", "clients", "wire"} \cup HasRouters

Wired ==
  /\ \E A \in SUBSET Address : blocks = {Source("block", a) : a \in A}
  /\ pc \in HasRouters =>
       \E d \in SUBSET {"standard", "fullRT"} :
         routers = Wiring(d, cached, clients, blocks, cfg.mode)

\* The endpoints are those of the configuration, and the clients theirs.
Configured ==
  /\ autoConf = "loaded" => cfg.auto
  /\ pc \in {"dht"} \cup HasDHT =>
       /\ ~ExpansionFails(cfg.urls, cfg.auto)
       /\ endpoints = expandDelegatedRoutingEndpoints(cfg.urls, cfg.auto, autoConf, cfg.dht)
  /\ pc \in HasDHT => cfg.dht \in {"accelerated", "standard", "disabled"}
  /\ pc \in {"wire"} \cup HasRouters => clients = createDelegatedHTTPRouters(endpoints)

\* A step that builds nothing, and stays on its side of the points above.
Keeps ==
  /\ UNCHANGED <<cfg, built>>
  /\ \/ pc' = pc
     \/ pc \in HasRouters /\ pc' \in HasRouters
     \/ pc \in {"flags", "host"} /\ pc' \in {"host", "autoconf"}

LEMMA Kept == Wired /\ Configured /\ Keeps => Wired' /\ Configured'
<1> SUFFICES ASSUME Wired, Configured, Keeps PROVE Wired' /\ Configured'
  OBVIOUS
<1>1. \/ pc' = pc
      \/ pc \in HasRouters /\ pc' \in HasRouters
      \/ pc \in {"flags", "host"} /\ pc' \in {"host", "autoconf"}
  BY DEF Keeps
<1>2. /\ cfg' = cfg /\ autoConf' = autoConf /\ endpoints' = endpoints /\ cached' = cached
      /\ blocks' = blocks /\ clients' = clients /\ routers' = routers
  BY DEF Keeps, built
<1>3. Wired'
  BY <1>1, <1>2 DEF Wired, HasRouters
<1>4. Configured'
  BY <1>1, <1>2 DEF Configured, HasDHT, HasRouters
<1>5. QED
  BY <1>3, <1>4

LEMMA StepsKeep ==
  IInv /\ [Next]_vars =>
    \/ StartAutoConf \/ ExpandEndpoints \/ NewDHT \/ NewBlockRouters \/ NewClients
    \/ CombineRouters \/ Keeps
<1> SUFFICES ASSUME IInv, [Next]_vars
             PROVE  \/ StartAutoConf \/ ExpandEndpoints \/ NewDHT \/ NewBlockRouters
                    \/ NewClients \/ CombineRouters \/ Keeps
  OBVIOUS
<1> USE DEF Goes, At, Keeps, HasRouters, built, request
<1>1. CASE UNCHANGED vars
  BY <1>1 DEF vars
<1>2. CASE StartStep
  BY <1>2 DEF StartStep, ParseFlags, NewHost, StartListener, NotifySignals, StartFails, Fails
<1>3. CASE ShutdownStep
  BY <1>3 DEF ShutdownStep, ReceivesSignal, ShutdownSucceeds, ShutdownTimesOut, WaitsForListener,
              ClosesDHT, Returns
<1>4. CASE Listens \/ ListenFails \/ ListenerReturns \/ ReadyChanges \/ Signal
  BY <1>4 DEF Listens, ListenFails, ListenerReturns, ReadyChanges, Signal
<1>5. ASSUME NEW r \in Requests, RequestStep(r) PROVE Keeps
  BY <1>5 DEF RequestStep, Accepts, Disconnects, RequestStarts, RecordIsSent, RequestEnds, OnlyRequests
<1>6. QED
  BY <1>1, <1>2, <1>3, <1>4, <1>5 DEF Next

LEMMA BuiltAsConfigured == Spec => [](Wired /\ Configured)
<1>1. Init => Wired /\ Configured
  <2> SUFFICES ASSUME Init PROVE Wired /\ Configured
    OBVIOUS
  <2>1. {} \in SUBSET Address /\ blocks = {Source("block", a) : a \in {}}
    BY DEF Init
  <2>2. QED
    BY <2>1 DEF Init, Wired, Configured, HasDHT, HasRouters
<1>2. IInv /\ Wired /\ Configured /\ [Next]_vars => Wired' /\ Configured'
  <2> SUFFICES ASSUME IInv, Wired, Configured, [Next]_vars PROVE Wired' /\ Configured'
    OBVIOUS
  <2> USE DEF Goes, At
  <2>1. CASE StartAutoConf
    BY <2>1 DEF StartAutoConf, Wired, Configured, HasDHT, HasRouters
  <2>2. CASE ExpandEndpoints
    BY <2>2 DEF ExpandEndpoints, Wired, Configured, HasDHT, HasRouters
  <2>3. CASE NewDHT
    BY <2>3 DEF NewDHT, Wired, Configured, HasDHT, HasRouters
  <2>4. CASE NewBlockRouters
    <3> DEFINE A == {cfg.blocks[i].addr : i \in DOMAIN cfg.blocks}
    <3>1. cfg \in Configs
      BY DEF IInv, TypeOK
    <3>2. A \in SUBSET Address
      BY <3>1, RecordsAssumption
    <3>3. blocks' = {Source("block", a) : a \in A}
      BY <2>4 DEF NewBlockRouters
    <3>4. Wired'
      BY <2>4, <3>2, <3>3 DEF NewBlockRouters, Wired, HasRouters
    <3>5. Configured'
      BY <2>4 DEF NewBlockRouters, Configured, HasDHT, HasRouters
    <3>6. QED
      BY <3>4, <3>5
  <2>5. CASE NewClients
    BY <2>5 DEF NewClients, Wired, Configured, HasDHT, HasRouters
  <2>6. CASE CombineRouters
    <3>1. dht \in SUBSET {"standard", "fullRT"}
      BY DEF IInv, TypeOK
    <3>2. /\ routers' = Wiring(dht, cached, clients, blocks, cfg.mode)
          /\ cfg' = cfg /\ cached' = cached /\ clients' = clients /\ blocks' = blocks
      BY <2>6 DEF CombineRouters
    <3>3. Wired'
      BY <3>1, <3>2 DEF Wired
    <3>4. Configured'
      BY <2>6 DEF CombineRouters, Configured, HasDHT, HasRouters
    <3>5. QED
      BY <3>3, <3>4
  <2>7. CASE Keeps
    BY <2>7, Kept
  <2>8. QED
    BY <2>1, <2>2, <2>3, <2>4, <2>5, <2>6, <2>7, StepsKeep
<1>3. QED
  BY <1>1, <1>2, Inductive, PTL DEF Spec

-----------------------------------------------------------------------------
\* For any configuration whose URLs are a base with, at most, the path of their
\* kind and a slash behind it: each kind of lookup asks exactly the endpoints that
\* it is given, and none of them under two spellings.
THEOREM EndpointsCorrect == Spec => []AskedAsConfigured
<1>1. IInv /\ Wired /\ Configured => AskedAsConfigured
  <2> SUFFICES ASSUME IInv, Wired, Configured, pc \in {"listen", "notify", "serve"}, WellSpelled
               PROVE  LET all == UNION {HTTPBranches(k) : k \in Kinds}
                      IN  /\ \A k \in Kinds : {Means(b.url) : b \in HTTPBranches(k)}
                                                = {Means(u) : u \in Given(k)}
                          /\ \A b, c \in all : Means(b.url) = Means(c.url) => b.url = c.url
                          /\ HTTPBranches("closest") = {}
    BY DEF AskedAsConfigured
  <2>1. PICK A \in SUBSET Address : blocks = {Source("block", a) : a \in A}
    BY DEF Wired
  <2>2. PICK d : routers = Wiring(d, cached, clients, blocks, cfg.mode)
    BY DEF Wired, HasRouters
  <2>4. /\ \A k \in Kinds : {b.url : b \in HTTPBranches(k)} = clients[k]
        /\ HTTPBranches("closest") = {}
    <3> DEFINE W == Wiring(d, cached, clients, {Source("block", a) : a \in A}, cfg.mode)
    <3>1. /\ \A k \in Kinds : {b.url : b \in {c \in W[k] : c.at = "http"}} = clients[k]
          /\ {c \in W["closest"] : c.at = "http"} = {}
      BY Wires
    <3>2. routers = W
      BY <2>1, <2>2
    <3> HIDE DEF W
    <3>3. QED
      BY <3>1, <3>2 DEF HTTPBranches
  <2>5. \A k \in Kinds : clients[k] = endpoints[k] \ {EmptyURL}
    BY Clients DEF Configured, HasRouters
  <2>6. \A k \in Kinds : /\ endpoints[k] \ {EmptyURL} = {Means(u) : u \in Given(k)}
                         /\ \A u \in Given(k) : Means(Means(u)) = Means(u)
    BY Expands DEF Configured, HasDHT, HasRouters
  <2>7. ASSUME NEW k \in Kinds, NEW b \in HTTPBranches(k)
        PROVE  \E u \in Given(k) : b.url = Means(u) /\ Means(b.url) = b.url
    BY <2>4, <2>5, <2>6
  <2>8. ASSUME NEW k \in Kinds
        PROVE  {Means(b.url) : b \in HTTPBranches(k)} = {Means(u) : u \in Given(k)}
    <3>1. \A u \in Given(k) : \E b \in HTTPBranches(k) : b.url = Means(u)
      BY <2>4, <2>5, <2>6
    <3>2. \A u \in Given(k) : \E b \in HTTPBranches(k) : Means(b.url) = Means(u)
      BY <2>7, <3>1
    <3>3. \A b \in HTTPBranches(k) : \E u \in Given(k) : Means(b.url) = Means(u)
      BY <2>7
    <3>4. QED
      BY <3>2, <3>3
  <2>9. \A b \in UNION {HTTPBranches(k) : k \in Kinds} : Means(b.url) = b.url
    BY <2>7
  <2>10. QED
    BY <2>4, <2>8, <2>9
<1>2. QED
  BY <1>1, Inductive, BuiltAsConfigured, PTL

-----------------------------------------------------------------------------
(* The records that are sent.                                              *)

Asking == \A r \in Requests : conn[r] = "running" => kind[r] \in Kinds \cup {"closest"}

\* The last record was sent to a request that still runs, with its filter; and
\* it is as its layers have left it.
SentAsRouted ==
  \/ sent = NoRecord
  \/ /\ sent.to \in Requests /\ conn[sent.to] = "running"
     /\ sent.at \in {"standard", "fullRT", "http", "block"}
     /\ \A a \in ToSet(sent.addrs) :
          a.private => sent.at \notin {"standard", "fullRT"} /\ a \in ToSet(sent.given)
     /\ cfg.mode # "never" /\ filter[sent.to] = "other" =>
          \A a \in ToSet(sent.addrs) : a \notin sent.whole /\ a.dnsaddr # "other"
     /\ Ordered(sent) => /\ sent.addrs \in Seq(Address)
                         /\ sent.addrs = sortedAddrs(ToSet(sent.addrs))

LEMMA CfgStays == [Next]_vars => cfg' = cfg
<1> SUFFICES ASSUME [Next]_vars PROVE cfg' = cfg
  OBVIOUS
<1>1. CASE UNCHANGED vars
  BY <1>1 DEF vars
<1>2. CASE StartStep
  BY <1>2 DEF StartStep, ParseFlags, NewHost, StartAutoConf, ExpandEndpoints, NewDHT, NewBlockRouters,
              NewClients, CombineRouters, StartListener, NotifySignals, StartFails, Fails
<1>3. CASE ShutdownStep
  BY <1>3 DEF ShutdownStep, ReceivesSignal, ShutdownSucceeds, ShutdownTimesOut, WaitsForListener,
              ClosesDHT, Returns
<1>4. CASE Listens \/ ListenFails \/ ListenerReturns \/ ReadyChanges \/ Signal
  BY <1>4 DEF Listens, ListenFails, ListenerReturns, ReadyChanges, Signal
<1>5. ASSUME NEW r \in Requests, RequestStep(r) PROVE cfg' = cfg
  BY <1>5 DEF RequestStep, Accepts, Disconnects, RequestStarts, RecordIsSent, RequestEnds, OnlyRequests
<1>6. QED
  BY <1>1, <1>2, <1>3, <1>4, <1>5 DEF Next

\* Sending: the record has gone through the layers around its source.
LEMMA SendsAsRouted ==
  ASSUME IInv, Wired, Asking, NEW r \in Requests, RecordIsSent(r)
  PROVE  SentAsRouted'
<1>1. pc \in HasRouters
  BY DEF RecordIsSent, IInv, Behind, HasRouters
<1>2. PICK A \in SUBSET Address, d \in SUBSET {"standard", "fullRT"} :
        routers = Wiring(d, cached, clients, {Source("block", a) : a \in A}, cfg.mode)
  BY <1>1 DEF Wired
<1> DEFINE W == Wiring(d, cached, clients, {Source("block", a) : a \in A}, cfg.mode)
           e == kind[r]
           action == Action(cfg.mode, filter[r])
<1>3. e \in Kinds \cup {"closest"}
  BY DEF RecordIsSent, Asking
<1> DEFINE BooksOf(b) == IF cached /\ b.at = "dht" THEN Books ELSE {<< >>}
           Names(given, book) == LooksUp(r, ToSet(given) \cup ToSet(book))
           Look(whole, part) == [action |-> action, whole |-> whole, part |-> part]
           Rec(b, given, book, whole, part) ==
             [to |-> r, at |-> Answers(b), given |-> given, whole |-> whole,
              addrs |-> Flow(b, given, e, book, Look(whole, part))]
           Parts(given, book, whole) == SUBSET Resolved(Names(given, book) \ whole)
<1>4a. \E b \in Asks(r) : \E given \in Yields(b) : \E book \in BooksOf(b) :
         \E whole \in SUBSET Names(given, book) : \E part \in Parts(given, book, whole) :
           sent' = Rec(b, given, book, whole, part)
  BY DEF RecordIsSent
<1> HIDE DEF BooksOf, Names, Parts, Rec
<1>4b. PICK b \in Asks(r) : \E given \in Yields(b) : \E book \in BooksOf(b) :
         \E whole \in SUBSET Names(given, book) : \E part \in Parts(given, book, whole) :
           sent' = Rec(b, given, book, whole, part)
  BY <1>4a
<1>4c. PICK given \in Yields(b) : \E book \in BooksOf(b) :
         \E whole \in SUBSET Names(given, book) : \E part \in Parts(given, book, whole) :
           sent' = Rec(b, given, book, whole, part)
  BY <1>4b
<1>4d. PICK book \in BooksOf(b) :
         \E whole \in SUBSET Names(given, book) : \E part \in Parts(given, book, whole) :
           sent' = Rec(b, given, book, whole, part)
  BY <1>4c
<1>4e. PICK whole \in SUBSET Names(given, book) : \E part \in Parts(given, book, whole) :
         sent' = Rec(b, given, book, whole, part)
  BY <1>4d
<1>4. PICK part \in Parts(given, book, whole) : sent' = Rec(b, given, book, whole, part)
  BY <1>4e
<1>5. b \in W[e]
  BY <1>2, <1>4b DEF Asks
<1> HIDE DEF W, e
<1>6. /\ b.at \in {"dht", "http", "block"}
      /\ b.layers = Layers(b.at, cached, cfg.mode)
      /\ b.at = "block" => b.url \in A
  <2>1. \A x \in W[e] : /\ x.at \in {"dht", "http", "block"}
                        /\ x.layers = Layers(x.at, cached, cfg.mode)
                        /\ x.at = "block" => x.url \in A
    BY <1>3, Layering DEF W
  <2>2. QED
    BY <1>5, <2>1
<1>7. given \in Seq(Address)
  <2>1. CASE b.at = "block"
    <3>1. given = <<b.url>> /\ b.url \in Address
      BY <1>2, <1>6, <2>1 DEF Yields
    <3>2. QED
      BY <3>1
  <2>2. CASE b.at # "block"
    BY <2>2, RecordsAssumption DEF Yields
  <2>3. QED
    BY <2>1, <2>2
<1>8. book \in Seq(Address)
  <2>1. << >> \in Seq(Address)
    OBVIOUS
  <2>2. QED
    BY <2>1, RecordsAssumption DEF BooksOf
<1> DEFINE look == Look(whole, part)
<1>9. look.whole = whole /\ look.action = action /\ \A a \in whole : IsDNSAddr(a)
  BY DEF Names, LooksUp, Expandable, IsDNSAddr
<1> DEFINE out == Flow(b, given, e, book, look)
<1>10. /\ out \in Seq(Address)
       /\ b.at = "dht" => \A a \in ToSet(out) : ~a.private
       /\ \A a \in ToSet(out) : a.private => a \in ToSet(given)
       /\ cfg.mode # "never" \/ b.at = "dht" => out = sortedAddrs(ToSet(out))
       /\ cfg.mode # "never" /\ action = "replace" =>
            \A a \in ToSet(out) : a \notin whole /\ a.dnsaddr # "other"
  <2>1. PICK k, l, m, hb : k = e /\ l = look /\ m = cfg.mode /\ hb = cached
    OBVIOUS
  <2> HIDE DEF look, action
  <2>2. b.layers = Layers(b.at, hb, m) /\ \A a \in l.whole : IsDNSAddr(a)
    BY <1>6, <1>9, <2>1
  <2>3. Delivered(b, m, given, l, Flow(b, given, k, book, l))
    BY <1>7, <1>8, <2>2, Flows
  <2>4. QED
    BY <1>9, <2>1, <2>3 DEF Delivered
<1>11. /\ sent'.to = r /\ sent'.given = given /\ sent'.addrs = out
       /\ sent'.at = Answers(b) /\ sent'.whole = whole
  BY <1>4 DEF Rec
<1> HIDE DEF out, look, action
<1>12. /\ conn' = conn /\ filter' = filter /\ cfg' = cfg /\ conn[r] = "running"
  BY DEF RecordIsSent, OnlyRequests
<1>13. /\ b.at = "dht" <=> Answers(b) \in {"standard", "fullRT"}
       /\ Answers(b) \in {"standard", "fullRT", "http", "block"}
  BY <1>6 DEF Answers, getDHT
<1>14. \A a \in ToSet(out) :
         a.private => Answers(b) \notin {"standard", "fullRT"} /\ a \in ToSet(given)
  BY <1>10, <1>13
<1>15. cfg.mode # "never" /\ filter[r] = "other" =>
         \A a \in ToSet(out) : a \notin whole /\ a.dnsaddr # "other"
  <2>1. cfg.mode # "never" /\ filter[r] = "other" => action = "replace"
    BY DEF Action, action
  <2>2. QED
    BY <1>10, <2>1
<1>16. Ordered(sent)' => out \in Seq(Address) /\ out = sortedAddrs(ToSet(out))
  BY <1>10, <1>11, <1>12, <1>13 DEF Ordered
<1>17. QED
  BY <1>11, <1>12, <1>13, <1>14, <1>15, <1>16 DEF SentAsRouted

LEMMA RecordsAsRouted == Spec => [](Asking /\ SentAsRouted)
<1>1. Init => Asking /\ SentAsRouted
  BY DEF Init, Asking, SentAsRouted
<1>2. IInv /\ Wired /\ Asking /\ SentAsRouted /\ [Next]_vars => Asking' /\ SentAsRouted'
  <2> SUFFICES ASSUME IInv, Wired, Asking, SentAsRouted, [Next]_vars
               PROVE  Asking' /\ SentAsRouted'
    OBVIOUS
  <2>0. /\ conn \in [Requests -> {"idle", "accepted", "running"}]
        /\ kind \in [Requests -> Kinds \cup {"closest", "none"}]
        /\ filter \in [Requests -> {"none", "dnsaddr", "other"}]
    BY DEF IInv, TypeOK
  <2>1. ASSUME UNCHANGED request PROVE Asking' /\ SentAsRouted'
    BY <2>1, CfgStays DEF request, Asking, SentAsRouted, Ordered
  <2>2. CASE UNCHANGED vars
    BY <2>1, <2>2 DEF vars
  <2>3. CASE StartStep
    BY <2>1, <2>3 DEF StartStep, ParseFlags, NewHost, StartAutoConf, ExpandEndpoints, NewDHT,
                      NewBlockRouters, NewClients, CombineRouters, StartListener, NotifySignals,
                      StartFails, Fails, OnlyMain
  <2>4. CASE ShutdownStep
    BY <2>1, <2>4 DEF ShutdownStep, ReceivesSignal, ShutdownSucceeds, ShutdownTimesOut,
                      WaitsForListener, ClosesDHT, Returns, OnlyMain
  <2>5. CASE Listens \/ ListenFails \/ ListenerReturns \/ ReadyChanges \/ Signal
    BY <2>1, <2>5 DEF Listens, ListenFails, ListenerReturns, ReadyChanges, Signal
  <2>6. ASSUME NEW r \in Requests, RequestStep(r) PROVE Asking' /\ SentAsRouted'
    <3> USE DEF OnlyRequests
    <3>1. CASE Accepts(r) \/ Disconnects(r)
      <4>1. /\ \A q \in Requests : conn'[q] = "running" <=> conn[q] = "running"
            /\ kind' = kind /\ filter' = filter /\ sent' = sent
        BY <2>0, <3>1 DEF Accepts, Disconnects
      <4>2. QED
        BY <4>1, CfgStays DEF Asking, SentAsRouted, Ordered
    <3>2. CASE RequestStarts(r)
      <4>1. /\ conn[r] = "accepted" /\ kind'[r] \in Kinds \cup {"closest"}
            /\ \A q \in Requests \ {r} :
                 conn'[q] = conn[q] /\ kind'[q] = kind[q] /\ filter'[q] = filter[q]
            /\ sent' = sent
        BY <2>0, <3>2 DEF RequestStarts
      <4>2. Asking'
        BY <4>1 DEF Asking
      <4>3. SentAsRouted'
        BY <4>1, CfgStays DEF SentAsRouted, Ordered
      <4>4. QED
        BY <4>2, <4>3
    <3>3. CASE RecordIsSent(r)
      <4>1. Asking'
        BY <3>3 DEF RecordIsSent, Asking
      <4>2. QED
        BY <3>3, <4>1, SendsAsRouted
    <3>4. CASE RequestEnds(r)
      <4>1. /\ conn'[r] # "running"
            /\ \A q \in Requests \ {r} :
                 conn'[q] = conn[q] /\ kind'[q] = kind[q] /\ filter'[q] = filter[q]
            /\ sent' = IF sent.to = r THEN NoRecord ELSE sent
        BY <2>0, <3>4 DEF RequestEnds
      <4>2. Asking'
        BY <4>1 DEF Asking
      <4>3. CASE sent.to = r
        BY <4>1, <4>2, <4>3 DEF SentAsRouted
      <4>4. CASE sent.to # r
        BY <4>1, <4>2, <4>4, CfgStays DEF SentAsRouted, Ordered
      <4>5. QED
        BY <4>3, <4>4
    <3>5. QED
      BY <2>6, <3>1, <3>2, <3>3, <3>4 DEF RequestStep
  <2>7. QED
    BY <2>2, <2>3, <2>4, <2>5, <2>6 DEF Next
<1>3. QED
  BY <1>1, <1>2, Inductive, BuiltAsConfigured, PTL DEF Spec

-----------------------------------------------------------------------------
\* No record of the DHT leaves with a private address, wherever it came from, and
\* no resolution adds one to any record.
THEOREM SanitizedCorrect == Spec => []Sanitized
<1>1. SentAsRouted => Sanitized
  BY DEF SentAsRouted, Sanitized, NoRecord, ToSet
<1>2. QED
  BY <1>1, RecordsAsRouted, PTL

\* A request whose filter cannot match a /dnsaddr is sent none that was expanded
\* in full, and none that names another peer.
THEOREM FilteredCorrect == Spec => []FilteredIsResolved
<1>1. SentAsRouted => FilteredIsResolved
  <2>1. CASE sent = NoRecord
    BY <2>1 DEF FilteredIsResolved, NoRecord
  <2>2. CASE sent # NoRecord
    BY <2>2 DEF SentAsRouted, FilteredIsResolved
  <2>3. QED
    BY <2>1, <2>2
<1>2. QED
  BY <1>1, RecordsAsRouted, PTL

\* The same addresses always leave in the same order, with the relays last.
THEOREM OrderCorrect == Spec => StableOrder
<1>1. ASSUME SentAsRouted, SentAsRouted', [Next]_vars, Ordered(sent')
      PROVE  /\ Ordered(sent) /\ ToSet(sent.addrs) = ToSet(sent'.addrs) => sent'.addrs = sent.addrs
             /\ \A i, j \in DOMAIN sent'.addrs :
                  i < j /\ sent'.addrs[i].relay => sent'.addrs[j].relay
  <2>1. Ordered(sent)'
    BY <1>1, CfgStays DEF Ordered
  <2>2. sent' # NoRecord
    BY <1>1 DEF Ordered, NoRecord
  <2>3. PICK s \in Seq(Address) : s = sent'.addrs /\ s = sortedAddrs(ToSet(s))
    BY <1>1, <2>1, <2>2 DEF SentAsRouted
  <2>4. Ordered(sent) => sent.addrs = sortedAddrs(ToSet(sent.addrs))
    BY <1>1 DEF SentAsRouted, Ordered, NoRecord
  <2>5. ToSet(s) \in SUBSET Address /\ IsFiniteSet(ToSet(s))
    BY ElementsFinite
  <2>6. \A i, j \in DOMAIN s : i < j => compareAddrs(s[i], s[j])
    BY <2>3, <2>5, Sorts
  <2>7. \A x, y \in Address : compareAddrs(x, y) /\ x.relay => y.relay
    BY DEF compareAddrs, addrSortRank
  <2>8. \A i \in DOMAIN s : s[i] \in Address
    OBVIOUS
  <2>9. QED
    BY <2>3, <2>4, <2>6, <2>7, <2>8
<1>2. SentAsRouted /\ SentAsRouted' /\ [Next]_vars =>
        [Ordered(sent') =>
           /\ Ordered(sent) /\ ToSet(sent.addrs) = ToSet(sent'.addrs) => sent'.addrs = sent.addrs
           /\ \A i, j \in DOMAIN sent'.addrs :
                i < j /\ sent'.addrs[i].relay => sent'.addrs[j].relay]_sent
  BY <1>1
<1>3. QED
  BY <1>2, RecordsAsRouted, PTL DEF Spec, StableOrder
=============================================================================
