------------------------ MODULE DNSAddrContents_proofs ------------------------
(***************************************************************************)
(* Proofs about DNSAddr: what becomes of the addresses of a record.  No    *)
(* expansion is lost half-way, nothing is gained that the record does not  *)
(* stand for, and no /dnsaddr is kept in spite of replacement without a    *)
(* cause, for every zone, cyclic ones included, every record, and every    *)
(* value of the limits.                                                    *)
(***************************************************************************)
EXTENDS DNSAddr_proofs

(* The inductive invariant.                                                *)

Current(r) == Head(todo[r])
Root(r) == CacheKey[Current(r).at]
Pid(r) == rec[r].pid
Called(r) == pc[r] \in {"expand", "lookup", "wait"}

\* A record in progress was taken up for resolution.
Working(r) == pc[r] = "addrs" \/ Expanding(r)

\* Keys that can be reached at all, by n hops.
Away(pid, k, n) == {j \in Reach(pid, k) : \E c \in Chains(pid, k, n) : c[n] = j}

\* Everything gained is a public address that the record's /dnsaddr stand for;
\* every /dnsaddr is kept, served, or still to come; one that is kept in spite
\* of replacement has a cause.
Contents(r) ==
  /\ Working(r) => Resolves(r, rec[r])
  /\ Working(r) \/ Served(r) =>
       /\ \A b \in out[r] \ Elements(rec[r].addrs) :
            b.kind = "plain" /\ Own(r, b) /\ (pc[r] = "served" => b.at \notin Private)
       /\ \A a \in Indirections(r) :
            a \in out[r] \/ Expanded(r, a) \/ (Working(r) /\ a \in Elements(todo[r]))
       /\ Action(mode, filter[r]) = "replace" =>
            \A a \in Indirections(r) \cap out[r] : Cause(r, a)

\* The frames on the stack are as many hops away from the /dnsaddr in work as
\* their depth says, ...
Frames(r) ==
  \A i \in DOMAIN stack[r] :
    \E j \in Away(Pid(r), Root(r), Len(stack[r]) - i) :
      Elements(stack[r][i]) \subseteq Elements(Zone[j])

\* ... and so is the call in progress.
Trail(r) ==
  /\ Called(r) /\ next[r].kind = "dnsaddr" =>
       CacheKey[next[r].at] \in Away(Pid(r), Root(r), Len(stack[r]))
  /\ Called(r) /\ next[r].kind = "suffixed" =>
       \E b \in Reached(Pid(r), Root(r)) : b.kind = "suffixed"
  /\ Called(r) => IsDNSAddr(next[r])
  /\ Frames(r)
  /\ resolved[r] \subseteq Named(Pid(r), Root(r))

\* What a lists behind a visited key has been, or is going to be.
Accounted(r, S, a) ==
  \/ \E i \in DOMAIN stack[r] : a \in Elements(stack[r][i])
  \/ Called(r) /\ next[r] = WithoutID(a)
  \/ a.kind = "plain" /\ a.at \in resolved[r]
  \/ a.kind = "dnsaddr" /\ CacheKey[a.at] \in S
  \/ a.kind = "empty"

\* S is the set of keys visited so far.
Visited(r, S) ==
  /\ Root(r) \in S \/ (Called(r) /\ next[r] = WithoutID(Current(r)))
  /\ \A j \in S : \A a \in Listed(Pid(r), j) : Accounted(r, S, a)

Expansion(r) ==
  /\ Current(r) \in Indirections(r)
  /\ Current(r).kind = "suffixed" =>
       /\ stack[r] = << >> /\ resolved[r] = {}
       /\ \/ pc[r] = "expand" /\ next[r].kind = "suffixed"
          \/ pc[r] = "loop" /\ ~complete[r]
  /\ Current(r).kind = "dnsaddr" =>
       /\ Trail(r)
       /\ complete[r] => \E S \in SUBSET Keys : Visited(r, S)
       /\ ~complete[r] => Cause(r, Current(r))

\* A failure that a lookup sees is one that a query had.
Failures ==
  /\ \A k \in Keys : cache[k] = "failed" \/ flight[k] = "failed" => k \in failed
  /\ \A r \in Requests :
       reply[r] = "failed" => pc[r] = "wait" /\ CacheKey[next[r].at] \in failed

Sound(r) ==
  /\ Contents(r)
  /\ Expanding(r) => Expansion(r)
  /\ ~Expanding(r) => complete[r] /\ stack[r] = << >>

ContentsInv == Failures /\ \A r \in Requests : Sound(r)

-----------------------------------------------------------------------------
(* The zone.                                                               *)

LEMMA Addresses ==
  ASSUME NEW a \in Address
  PROVE  /\ a.kind \in {"plain", "dnsaddr", "suffixed", "empty"}
         /\ IsDNSAddr(a) => /\ CacheKey[a.at] \in Keys
                            /\ WithoutID(a).kind = a.kind /\ WithoutID(a).at = a.at
                            /\ IsDNSAddr(WithoutID(a))
<1>1. a.kind \in {"plain", "dnsaddr", "suffixed", "empty"}
  BY DEF Address
<1>2. ASSUME IsDNSAddr(a)
      PROVE  /\ CacheKey[a.at] \in Keys
             /\ WithoutID(a).kind = a.kind /\ WithoutID(a).at = a.at
             /\ IsDNSAddr(WithoutID(a))
  <2>1. PICK k \in {"dnsaddr", "suffixed"}, h \in Hosts, i \in Peers \cup {NoPeer} :
          a = [kind |-> k, at |-> h, id |-> i]
    BY <1>2 DEF Address, IsDNSAddr
  <2>2. WithoutID(a) = [kind |-> k, at |-> h, id |-> NoPeer]
    BY <2>1 DEF WithoutID
  <2>3. CacheKey[h] \in Keys
    BY DEF Keys
  <2>4. QED
    BY <2>1, <2>2, <2>3 DEF IsDNSAddr
<1>3. QED
  BY <1>1, <1>2

LEMMA ZoneAddresses ==
  ASSUME NEW pid, NEW k \in Keys
  PROVE  Listed(pid, k) \subseteq Elements(Zone[k]) /\ Elements(Zone[k]) \subseteq Address
<1>1. Zone[k] \in Seq(Address)
  BY ConstantsAssumption
<1>2. Elements(Zone[k]) \subseteq Address
  BY <1>1, LenProperties, ElementOfSeq DEF Elements
<1>3. QED
  BY <1>2 DEF Listed

\* Reach holds its root, is closed, and lies within every closed set.
LEMMA Reaches ==
  ASSUME NEW pid, NEW k \in Keys
  PROVE  /\ k \in Reach(pid, k) /\ Reach(pid, k) \subseteq Keys
         /\ \A j \in Reach(pid, k) : \A a \in Listed(pid, j) :
              a.kind = "dnsaddr" => CacheKey[a.at] \in Reach(pid, k)
         /\ \A S \in SUBSET Keys :
              /\ k \in S
              /\ \A j \in S : \A a \in Listed(pid, j) :
                   a.kind = "dnsaddr" => CacheKey[a.at] \in S
              => Reach(pid, k) \subseteq S
<1>1. k \in Reach(pid, k) /\ Reach(pid, k) \subseteq Keys
  BY DEF Reach
<1>2. ASSUME NEW j \in Reach(pid, k), NEW a \in Listed(pid, j), a.kind = "dnsaddr"
      PROVE  CacheKey[a.at] \in Reach(pid, k)
  <2>1. CacheKey[a.at] \in Keys
    BY <1>1, <1>2, ZoneAddresses, Addresses DEF IsDNSAddr
  <2>2. ASSUME NEW S \in SUBSET Keys, k \in S, NestedKeys(pid, S) \subseteq S
        PROVE  CacheKey[a.at] \in S
    <3>1. j \in S
      BY <2>2 DEF Reach
    <3>2. CacheKey[a.at] \in NestedKeys(pid, S)
      BY <1>2, <3>1 DEF NestedKeys
    <3>3. QED
      BY <2>2, <3>2
  <2>3. QED
    BY <2>1, <2>2 DEF Reach
<1>3. ASSUME NEW S \in SUBSET Keys, k \in S,
             \A j \in S : \A a \in Listed(pid, j) : a.kind = "dnsaddr" => CacheKey[a.at] \in S
      PROVE  Reach(pid, k) \subseteq S
  <2>1. NestedKeys(pid, S) \subseteq S
    BY <1>3 DEF NestedKeys
  <2>2. QED
    BY <1>3, <2>1 DEF Reach
<1>4. QED
  BY <1>1, <1>2, <1>3

LEMMA AwayStarts ==
  ASSUME NEW pid, NEW k \in Keys
  PROVE  k \in Away(pid, k, 0)
<1> DEFINE c == [i \in 0 .. 0 |-> k]
<1>1. c \in Chains(pid, k, 0) /\ c[0] = k
  BY DEF Chains
<1>2. QED
  BY <1>1, Reaches DEF Away

LEMMA AwayGoesOn ==
  ASSUME NEW pid, NEW k \in Keys, NEW n \in Nat, NEW j \in Away(pid, k, n),
         NEW a \in Listed(pid, j), a.kind = "dnsaddr"
  PROVE  CacheKey[a.at] \in Away(pid, k, n + 1)
<1>1. j \in Reach(pid, k) /\ j \in Keys
  BY Reaches DEF Away
<1>2. CacheKey[a.at] \in Reach(pid, k) /\ CacheKey[a.at] \in Keys
  BY <1>1, Reaches
<1>3. CacheKey[a.at] \in NestedKeys(pid, {j})
  BY DEF NestedKeys
<1>4. PICK c \in Chains(pid, k, n) : c[n] = j
  BY DEF Away
<1>5. PICK l : l = CacheKey[a.at]
  OBVIOUS
<1> DEFINE d == [i \in 0 .. (n + 1) |-> IF i = n + 1 THEN l ELSE c[i]]
<1>6. /\ c \in [0 .. n -> Keys] /\ c[0] = k
      /\ \A i \in 1 .. n : c[i] \in NestedKeys(pid, {c[i - 1]})
  BY DEF Chains
<1>7. d \in [0 .. (n + 1) -> Keys] /\ d[0] = k /\ d[n + 1] = l
  BY <1>2, <1>5, <1>6
<1>8. ASSUME NEW i \in 1 .. (n + 1) PROVE d[i] \in NestedKeys(pid, {d[i - 1]})
  <2>1. CASE i = n + 1
    <3>1. d[i] = l /\ d[i - 1] = j
      BY <1>4, <2>1
    <3>2. QED
      BY <1>3, <1>5, <3>1
  <2>2. CASE i # n + 1
    <3>1. i \in 1 .. n /\ d[i] = c[i] /\ d[i - 1] = c[i - 1]
      BY <2>2
    <3>2. QED
      BY <1>6, <3>1
  <2>3. QED
    BY <2>1, <2>2
<1> HIDE DEF d
<1>9. d \in Chains(pid, k, n + 1)
  BY <1>7, <1>8 DEF Chains
<1>10. QED
  BY <1>2, <1>5, <1>7, <1>9 DEF Away

-----------------------------------------------------------------------------
(* The stack, frame by frame.                                              *)

LEMMA Pushed ==
  ASSUME NEW s \in Seq(Seq(Address)), NEW f \in Seq(Address)
  PROVE  LET t == <<f>> \o s IN
         /\ t # << >> /\ Len(t) = Len(s) + 1 /\ DOMAIN t = 1 .. Len(s) + 1
         /\ t[1] = f
         /\ \A i \in DOMAIN s : t[i + 1] = s[i]
         /\ \A i \in DOMAIN t : i = 1 \/ (i - 1 \in DOMAIN s /\ t[i] = s[i - 1])
OBVIOUS

LEMMA Popped ==
  ASSUME NEW s \in Seq(Seq(Address)), s # << >>
  PROVE  /\ Len(s) \in Nat \ {0} /\ 1 \in DOMAIN s /\ Head(s) = s[1]
         /\ Len(Tail(s)) = Len(s) - 1
         /\ \A i \in DOMAIN Tail(s) : i + 1 \in DOMAIN s /\ Tail(s)[i] = s[i + 1]
         /\ \A i \in DOMAIN s : i = 1 \/ (i - 1 \in DOMAIN Tail(s) /\ Tail(s)[i - 1] = s[i])
OBVIOUS

LEMMA Moved ==
  ASSUME NEW s \in Seq(Seq(Address)), s # << >>, s[1] # << >>
  PROVE  LET t == [s EXCEPT ![1] = Tail(s[1])] IN
         /\ Head(s) = s[1] /\ s[1] \in Seq(Address) /\ Len(t) = Len(s) /\ DOMAIN t = DOMAIN s
         /\ 1 \in DOMAIN s
         /\ t[1] = Tail(s[1]) /\ \A i \in DOMAIN s : i # 1 => t[i] = s[i]
         /\ Elements(s[1]) = Elements(t[1]) \cup {Head(s[1])}
<1>1. Head(s) = s[1] /\ s[1] \in Seq(Address) /\ 1 \in DOMAIN s
  OBVIOUS
<1> DEFINE t == [s EXCEPT ![1] = Tail(s[1])]
<1>2. /\ Len(t) = Len(s) /\ DOMAIN t = DOMAIN s
      /\ t[1] = Tail(s[1]) /\ \A i \in DOMAIN s : i # 1 => t[i] = s[i]
  BY <1>1
<1>3. Elements(s[1]) = Elements(Tail(s[1])) \cup {Head(s[1])}
  <2>1. PICK u \in Seq(Address) : u = s[1]
    BY <1>1
  <2>2. Elements(Tail(u)) \subseteq Elements(u) /\ Head(u) \in Elements(u)
    BY <2>1, TailElements
  <2>3. /\ u # << >> /\ Head(u) = u[1]
        /\ \A i \in DOMAIN u : i = 1 \/ (i - 1 \in DOMAIN Tail(u) /\ Tail(u)[i - 1] = u[i])
    BY <2>1
  <2>4. Elements(u) \subseteq Elements(Tail(u)) \cup {Head(u)}
    BY <2>3 DEF Elements
  <2>5. QED
    BY <2>1, <2>2, <2>4
<1>4. QED
  BY <1>1, <1>2, <1>3

-----------------------------------------------------------------------------
(* What a step leaves alone.                                               *)

Local(q) == <<filter[q], pc[q], budget[q], cancelled[q], rec[q], todo[q], out[q], room[q],
              next[q], stack[q], resolved[q], complete[q]>>

\* A cause stays one while its request and its record last.
LEMMA CauseStays ==
  ASSUME NEW r \in Requests, NEW a, Cause(r, a), rec'[r] = rec[r],
         cancelled[r] => cancelled'[r], budget[r] = 0 => budget'[r] = 0,
         room[r] = 0 => room'[r] = 0, failed \subseteq failed'
  PROVE  Cause(r, a)'
BY DEF Cause

\* Contents are about a record, its expansion aside.
LEMMA ContentsStay ==
  ASSUME NEW r \in Requests, Contents(r), mode' = mode, failed \subseteq failed',
         filter'[r] = filter[r], rec'[r] = rec[r], todo'[r] = todo[r], out'[r] = out[r],
         cancelled[r] => cancelled'[r], budget[r] = 0 => budget'[r] = 0,
         room[r] = 0 => room'[r] = 0,
         Working(r)' <=> Working(r), pc'[r] = "served" <=> pc[r] = "served"
  PROVE  Contents(r)'
<1>1. /\ Indirections(r)' = Indirections(r)
      /\ Resolves(r, rec[r])' <=> Resolves(r, rec[r])
      /\ Served(r)' <=> Served(r)
  BY DEF Indirections, Resolves, Served
<1>2. \A a \in Indirections(r) : Expanded(r, a) => Expanded(r, a)'
  BY DEF Expanded, ServedAt
<1>3. \A b \in out[r] : Own(r, b) => Own(r, b)'
  BY <1>1 DEF Own
<1>4. \A a \in Indirections(r) : Cause(r, a) => Cause(r, a)'
  BY CauseStays
<1>5. QED
  BY <1>1, <1>2, <1>3, <1>4 DEF Contents

\* The expansion of the same address goes on.
LEMMA SameWork ==
  ASSUME NEW r \in Requests, rec'[r] = rec[r], todo'[r] = todo[r]
  PROVE  /\ Current(r)' = Current(r) /\ Root(r)' = Root(r) /\ Pid(r)' = Pid(r)
         /\ Indirections(r)' = Indirections(r)
BY DEF Current, Root, Pid, Indirections

\* Only the budget is spent, or the context cancelled, or the program counter
\* moves within a lookup.
LEMMA ExpansionStays ==
  ASSUME NEW r \in Requests, Expansion(r), failed \subseteq failed',
         rec'[r] = rec[r], todo'[r] = todo[r], next'[r] = next[r], stack'[r] = stack[r],
         resolved'[r] = resolved[r], complete'[r] = complete[r],
         cancelled[r] => cancelled'[r], budget[r] = 0 => budget'[r] = 0,
         room[r] = 0 => room'[r] = 0,
         Called(r)' <=> Called(r), pc'[r] = "loop" <=> pc[r] = "loop",
         pc'[r] = pc[r] \/ next[r].kind # "suffixed"
  PROVE  Expansion(r)'
<1>1. /\ Current(r)' = Current(r) /\ Root(r)' = Root(r) /\ Pid(r)' = Pid(r)
      /\ Indirections(r)' = Indirections(r)
  BY SameWork
<1>2. Trail(r) => Trail(r)'
  BY <1>1 DEF Trail, Frames
<1>3. \A S \in SUBSET Keys : Visited(r, S) => Visited(r, S)'
  BY <1>1 DEF Visited, Accounted
<1>4. Cause(r, Current(r)) => Cause(r, Current(r))'
  <2>1. PICK cur : cur = Current(r)
    OBVIOUS
  <2>2. Cause(r, cur) => Cause(r, cur)'
    BY CauseStays
  <2>3. QED
    BY <1>1, <2>1, <2>2
<1>5. QED
  BY <1>1, <1>2, <1>3, <1>4 DEF Expansion

LEMMA SoundStays ==
  ASSUME NEW q \in Requests, Sound(q), Local(q)' = Local(q), mode' = mode,
         failed \subseteq failed'
  PROVE  Sound(q)'
<1>1. /\ filter'[q] = filter[q] /\ pc'[q] = pc[q] /\ budget'[q] = budget[q]
      /\ cancelled'[q] = cancelled[q] /\ rec'[q] = rec[q] /\ todo'[q] = todo[q]
      /\ out'[q] = out[q] /\ room'[q] = room[q] /\ next'[q] = next[q]
      /\ stack'[q] = stack[q] /\ resolved'[q] = resolved[q] /\ complete'[q] = complete[q]
  BY DEF Local
<1>2. /\ Working(q)' <=> Working(q)
      /\ Expanding(q)' <=> Expanding(q)
      /\ Called(q)' <=> Called(q)
  BY <1>1 DEF Working, Expanding, Called
<1>3. Contents(q)'
  BY <1>1, <1>2, ContentsStay DEF Sound
<1>4. Expansion(q) => Expansion(q)'
  BY <1>1, <1>2, ExpansionStays
<1>5. QED
  BY <1>1, <1>2, <1>3, <1>4 DEF Sound

\* Requests do not interfere.
LEMMA Elsewhere ==
  ASSUME IInv, NEW r \in Requests, RequestStep(r), NEW q \in Requests \ {r}
  PROVE  Local(q)' = Local(q) /\ mode' = mode /\ failed' = failed
<1> SUFFICES
      /\ filter'[q] = filter[q] /\ pc'[q] = pc[q] /\ budget'[q] = budget[q]
      /\ cancelled'[q] = cancelled[q] /\ rec'[q] = rec[q] /\ todo'[q] = todo[q]
      /\ out'[q] = out[q] /\ room'[q] = room[q] /\ next'[q] = next[q]
      /\ stack'[q] = stack[q] /\ resolved'[q] = resolved[q] /\ complete'[q] = complete[q]
      /\ mode' = mode /\ failed' = failed
  BY DEF Local
<1> USE DEF Goes, request, record, expansion, dns
<1>0. /\ q \in Requests /\ q # r
      /\ q \in DOMAIN filter /\ q \in DOMAIN pc /\ q \in DOMAIN served /\ q \in DOMAIN budget
      /\ q \in DOMAIN cancelled /\ q \in DOMAIN rec /\ q \in DOMAIN todo /\ q \in DOMAIN out
      /\ q \in DOMAIN room /\ q \in DOMAIN next /\ q \in DOMAIN stack
      /\ q \in DOMAIN resolved /\ q \in DOMAIN complete
  BY DEF IInv, RequestTypes, RecordTypes, ExpansionTypes
<1>1. CASE CopyAddr(r) \/ DropAddr(r) \/ ExpandAddr(r)
  BY <1>0, <1>1 DEF CopyAddr, DropAddr, ExpandAddr
<1>2. CASE AddrExpanded(r)
  BY <1>0, <1>2 DEF AddrExpanded
<1>3. CASE RecordResolved(r)
  BY <1>0, <1>3 DEF RecordResolved
<1>4. CASE ExpandDeclines(r) \/ LookupDeclined(r) \/ LookupAbandoned(r)
  BY <1>0, <1>4 DEF ExpandDeclines, LookupDeclined, LookupAbandoned, ReturnsNothing
<1>5. CASE CacheHit(r) \/ LookupReceives(r)
  BY <1>0, <1>5 DEF CacheHit, LookupReceives, HasResults
<1>6. CASE CacheMiss(r) \/ LookupJoins(r)
  BY <1>0, <1>6 DEF CacheMiss, LookupJoins, Spends
<1>7. CASE CallReturns(r) \/ CallTruncated(r)
  BY <1>0, <1>7 DEF CallReturns, CallTruncated
<1>8. CASE VisitSkips(r) \/ VisitAdds(r) \/ VisitExpands(r)
  <2>1. /\ stack'[q] = stack[q] /\ rec'[q] = rec[q] /\ todo'[q] = todo[q]
        /\ out'[q] = out[q] /\ complete'[q] = complete[q]
        /\ UNCHANGED <<mode, filter, budget, cancelled, failed>>
    <3>1. Visits(r)
      BY <1>8 DEF VisitSkips, VisitAdds, VisitExpands
    <3>2. QED
      BY <1>0, <3>1 DEF Visits
  <2>2. /\ pc'[q] = pc[q] /\ next'[q] = next[q] /\ room'[q] = room[q]
        /\ resolved'[q] = resolved[q]
    BY <1>0, <1>8 DEF VisitSkips, VisitAdds, VisitExpands
  <2>3. QED
    BY <2>1, <2>2
<1>9. CASE RequestStarts(r) \/ RequestEnds(r) \/ CtxDone(r)
  BY <1>0, <1>9 DEF RequestStarts, RequestEnds, CtxDone
<1>10. CASE RecordArrives(r) \/ RecordPasses(r)
  BY <1>0, <1>10 DEF RecordArrives, RecordPasses
<1>11. QED
  BY <1>1, <1>2, <1>3, <1>4, <1>5, <1>6, <1>7, <1>8, <1>9, <1>10 DEF RequestStep, ResolveStep

-----------------------------------------------------------------------------
(* The steps of an expansion.                                              *)

LEMMA AtWork ==
  ASSUME IInv, NEW r \in Requests, Sound(r), Expanding(r)
  PROVE  /\ todo[r] \in Seq(Address) /\ todo[r] # << >>
         /\ stack[r] \in Seq(Seq(Address)) /\ Len(stack[r]) \in Nat
         /\ DOMAIN stack[r] = 1 .. Len(stack[r])
         /\ Current(r) \in Address /\ Current(r) \in Indirections(r)
         /\ Current(r).kind \in {"dnsaddr", "suffixed"} /\ Root(r) \in Keys
         /\ Working(r)
<1>1. todo[r] \in Seq(Address) /\ todo[r] # << >> /\ stack[r] \in Seq(Seq(Address))
  BY DEF IInv, RecordTypes, ExpansionTypes, Placed, Expanding
<1>2. Current(r) \in Address
  BY <1>1 DEF Current
<1>3. Current(r) \in Indirections(r)
  BY DEF Sound, Expansion
<1>4. IsDNSAddr(Current(r))
  BY <1>3 DEF Indirections
<1>5. Current(r).kind \in {"dnsaddr", "suffixed"} /\ Root(r) \in Keys
  BY <1>2, <1>4, Addresses DEF Root, IsDNSAddr
<1>6. QED
  BY <1>1, <1>2, <1>3, <1>5 DEF Working

\* Within an expansion only the expansion needs a look.
LEMMA SoundInExpansion ==
  ASSUME NEW r \in Requests, Sound(r), Expanding(r), Expanding(r)', mode' = mode,
         filter'[r] = filter[r], rec'[r] = rec[r], todo'[r] = todo[r], out'[r] = out[r],
         failed \subseteq failed', cancelled[r] => cancelled'[r],
         budget[r] = 0 => budget'[r] = 0, room[r] = 0 => room'[r] = 0,
         Expansion(r)'
  PROVE  Sound(r)'
<1>1. /\ Working(r) /\ Working(r)'
      /\ pc[r] # "served" /\ pc'[r] # "served"
  BY DEF Working, Expanding
<1>2. Contents(r)'
  BY <1>1, ContentsStay DEF Sound
<1>3. QED
  BY <1>2 DEF Sound

Kept == UNCHANGED <<mode, filter, budget, cancelled, rec, todo, out, room, failed>>

\* A call that skips its part of the expansion has a cause.
LEMMA ReturnsSound ==
  ASSUME IInv, NEW r \in Requests, Sound(r), Called(r), ReturnsNothing(r), Kept,
         Current(r).kind = "dnsaddr" => Cause(r, Current(r))
  PROVE  Sound(r)'
<1>1. /\ pc'[r] = "loop" /\ complete'[r] = FALSE
      /\ next'[r] = next[r] /\ stack'[r] = stack[r] /\ resolved'[r] = resolved[r]
  BY DEF ReturnsNothing, IInv, RequestTypes, ExpansionTypes
<1>2. /\ Expanding(r) /\ Expanding(r)' /\ ~Called(r)' /\ Expansion(r)
  BY <1>1 DEF Expanding, Called, Sound
<1>3. /\ Current(r)' = Current(r) /\ Root(r)' = Root(r) /\ Pid(r)' = Pid(r)
      /\ Indirections(r)' = Indirections(r)
  BY SameWork DEF Kept
<1>4. Trail(r) => Trail(r)'
  BY <1>1, <1>2, <1>3 DEF Trail, Frames
<1>5. PICK cur : cur = Current(r)
  OBVIOUS
<1>6. cur.kind = "dnsaddr" => Cause(r, cur)'
  BY <1>5, CauseStays DEF Kept
<1>7. Expansion(r)'
  BY <1>1, <1>2, <1>3, <1>4, <1>5, <1>6 DEF Expansion
<1>8. QED
  BY <1>2, <1>7, SoundInExpansion DEF Kept

\* A call that gets results puts them on the trail; a failure is a cause.
LEMMA ResultsSound ==
  ASSUME IInv, NEW r \in Requests, Sound(r), Called(r), next[r].kind = "dnsaddr",
         NEW outcome \in Outcome, outcome = "failed" => CacheKey[next[r].at] \in failed,
         HasResults(r, outcome), Kept
  PROVE  Sound(r)'
<1>1. Expanding(r) /\ Expansion(r)
  BY DEF Expanding, Called, Sound
<1>2. Current(r).kind = "dnsaddr" /\ Trail(r)
  BY <1>1, AtWork DEF Expansion, Called
<1>3. PICK key : key = CacheKey[next[r].at]
  OBVIOUS
<1>4. PICK pid, root, depth : pid = Pid(r) /\ root = Root(r) /\ depth = Len(stack[r])
  OBVIOUS
<1>5. /\ root \in Keys /\ depth \in Nat /\ stack[r] \in Seq(Seq(Address))
      /\ DOMAIN stack[r] = 1 .. depth
  BY <1>1, <1>4, AtWork
<1>6. key \in Away(pid, root, depth) /\ key \in Reach(pid, root) /\ key \in Keys
  BY <1>2, <1>3, <1>4, <1>5, Reaches DEF Trail, Away
<1>7. PICK f : f = Results(key, outcome)
  OBVIOUS
<1>8. f \in Seq(Address) /\ Elements(f) \subseteq Elements(Zone[key])
  BY <1>6, <1>7, ResultsType DEF Results, Elements
<1>9. /\ pc'[r] = "loop" /\ next'[r] = next[r] /\ resolved'[r] = resolved[r]
      /\ complete'[r] = (complete[r] /\ outcome = "resolved")
      /\ stack'[r] = <<f>> \o stack[r]
  BY <1>3, <1>7 DEF HasResults, IInv, RequestTypes, ExpansionTypes
<1>10. /\ Len(stack'[r]) = depth + 1 /\ DOMAIN stack'[r] = 1 .. depth + 1
       /\ stack'[r][1] = f
       /\ \A i \in DOMAIN stack[r] : i + 1 \in DOMAIN stack'[r] /\ stack'[r][i + 1] = stack[r][i]
       /\ \A i \in DOMAIN stack'[r] :
            i = 1 \/ (i - 1 \in DOMAIN stack[r] /\ stack'[r][i] = stack[r][i - 1])
  <2>1. PICK s \in Seq(Seq(Address)) : s = stack[r]
    BY <1>5
  <2>2. PICK t : t = <<f>> \o s
    OBVIOUS
  <2>3. /\ Len(t) = Len(s) + 1 /\ DOMAIN t = 1 .. Len(s) + 1 /\ t[1] = f
        /\ \A i \in DOMAIN s : t[i + 1] = s[i]
        /\ \A i \in DOMAIN t : i = 1 \/ (i - 1 \in DOMAIN s /\ t[i] = s[i - 1])
    BY <1>8, <2>2, Pushed
  <2>4. \A i \in DOMAIN s : i + 1 \in DOMAIN t
    BY <1>4, <1>5, <2>1, <2>3
  <2>5. stack'[r] = t
    BY <1>9, <2>1, <2>2
  <2>6. QED
    BY <1>4, <2>1, <2>3, <2>4, <2>5
<1>11. /\ Expanding(r)' /\ ~Called(r)'
  BY <1>9 DEF Expanding, Called
<1>12. /\ Current(r)' = Current(r) /\ Root(r)' = root /\ Pid(r)' = pid
       /\ Indirections(r)' = Indirections(r)
  BY <1>4, SameWork DEF Kept
<1>13. Trail(r)'
  <2>1. ASSUME NEW i \in DOMAIN stack'[r]
        PROVE  \E j \in Away(pid, root, depth + 1 - i) :
                 Elements(stack'[r][i]) \subseteq Elements(Zone[j])
    <3>1. CASE i = 1
      <4>1. depth + 1 - i = depth
        BY <1>5, <3>1
      <4>2. QED
        BY <1>6, <1>8, <1>10, <3>1, <4>1
    <3>2. CASE i # 1
      <4>1. i - 1 \in DOMAIN stack[r] /\ stack'[r][i] = stack[r][i - 1]
        BY <1>10, <3>2
      <4>2. \E j \in Away(pid, root, depth - (i - 1)) :
              Elements(stack[r][i - 1]) \subseteq Elements(Zone[j])
        BY <1>2, <1>4, <4>1 DEF Trail, Frames
      <4>3. depth - (i - 1) = depth + 1 - i
        BY <1>5, <1>10
      <4>4. QED
        BY <4>1, <4>2, <4>3
    <3>3. QED
      BY <3>1, <3>2
  <2>2. resolved'[r] \subseteq Named(pid, root)
    BY <1>2, <1>4, <1>9 DEF Trail
  <2>3. \A i \in DOMAIN stack'[r] :
          \E j \in Away(Pid(r)', Root(r)', Len(stack'[r]) - i) :
            Elements(stack'[r][i]) \subseteq Elements(Zone[j])
    <3>1. Len(stack'[r]) = depth + 1 /\ Pid(r)' = pid /\ Root(r)' = root
      BY <1>10, <1>12
    <3>2. ASSUME NEW i \in DOMAIN stack'[r]
          PROVE  \E j \in Away(Pid(r)', Root(r)', Len(stack'[r]) - i) :
                   Elements(stack'[r][i]) \subseteq Elements(Zone[j])
      <4>1. PICK j \in Away(pid, root, depth + 1 - i) :
              Elements(stack'[r][i]) \subseteq Elements(Zone[j])
        BY <2>1
      <4>2. j \in Away(Pid(r)', Root(r)', Len(stack'[r]) - i)
        BY <1>5, <1>10, <3>1
      <4>3. QED
        BY <4>1, <4>2
    <3>3. QED
      BY <3>2
  <2>4. resolved'[r] \subseteq Named(Pid(r)', Root(r)')
    BY <1>12, <2>2
  <2>5. QED
    BY <1>11, <2>3, <2>4 DEF Trail, Frames
<1>14. complete'[r] => \E S \in SUBSET Keys : Visited(r, S)'
  <2> SUFFICES ASSUME complete'[r] PROVE \E S \in SUBSET Keys : Visited(r, S)'
    OBVIOUS
  <2>1. PICK S \in SUBSET Keys : Visited(r, S)
    BY <1>1, <1>2, <1>9 DEF Expansion
  <2>2. PICK T : T = S \cup {key}
    OBVIOUS
  <2>3. \A a \in Address : IsDNSAddr(a) /\ next[r] = WithoutID(a) => a.kind = "dnsaddr" /\ CacheKey[a.at] = key
    BY <1>3, Addresses
  <2>4. root \in T
    BY <1>1, <1>4, <2>1, <2>2, <2>3, AtWork DEF Visited, Root, Indirections
  <2>5. ASSUME NEW j \in T, NEW a \in Listed(pid, j) PROVE Accounted(r, T, a)'
    <3>1. a \in Address
      BY <1>6, <2>2, <2>5, ZoneAddresses
    <3>2. CASE j \in S
      <4>1. Accounted(r, S, a)
        BY <1>4, <2>1, <2>5, <3>2 DEF Visited
      <4>2. CASE \E i \in DOMAIN stack[r] : a \in Elements(stack[r][i])
        BY <1>10, <4>2 DEF Accounted
      <4>3. CASE next[r] = WithoutID(a)
        <5>1. a.kind = "dnsaddr"
          BY <4>3, <3>1 DEF WithoutID, Address
        <5>2. CacheKey[a.at] \in T
          BY <2>2, <2>3, <3>1, <4>3, <5>1 DEF IsDNSAddr
        <5>3. QED
          BY <5>1, <5>2 DEF Accounted
      <4>4. QED
        BY <1>9, <2>2, <4>1, <4>2, <4>3 DEF Accounted
    <3>3. CASE j = key
      <4>1. outcome = "resolved"
        BY <1>9
      <4>2. f = Zone[key]
        BY <1>7, <4>1 DEF Results
      <4>3. a \in Elements(stack'[r][1]) /\ 1 \in DOMAIN stack'[r]
        BY <1>5, <1>6, <1>10, <3>3, <4>2, ZoneAddresses
      <4>4. QED
        BY <4>3 DEF Accounted
    <3>4. QED
      BY <2>2, <3>2, <3>3
  <2>6. Visited(r, T)'
    BY <1>12, <2>4, <2>5 DEF Visited
  <2>7. QED
    BY <1>6, <2>2, <2>6
<1>15. ~complete'[r] => Cause(r, Current(r))'
  <2>1. PICK cur : cur = Current(r)
    OBVIOUS
  <2>2. CASE ~complete[r]
    <3>1. Cause(r, cur)
      BY <1>1, <1>2, <2>1, <2>2 DEF Expansion
    <3>2. Cause(r, cur)'
      BY <3>1, CauseStays DEF Kept
    <3>3. QED
      BY <1>12, <2>1, <3>2
  <2>3. CASE outcome = "failed"
    <3>1. key \in Reach(pid, root) \cap failed'
      BY <1>3, <1>6, <2>3 DEF Kept
    <3>2. rec'[r].pid = pid /\ CacheKey[cur.at] = root
      BY <1>4, <2>1 DEF Kept, Pid, Root
    <3>3. Cause(r, cur)'
      BY <3>1, <3>2 DEF Cause
    <3>4. QED
      BY <1>12, <2>1, <3>3
  <2>4. QED
    BY <1>9, <2>2, <2>3 DEF Outcome
<1>16. Expansion(r)'
  <2>1. Current(r) \in Indirections(r) /\ Current(r).kind # "suffixed"
    BY <1>1, <1>2 DEF Expansion
  <2>2. QED
    BY <1>12, <1>13, <1>14, <1>15, <2>1 DEF Expansion
<1>17. QED
  BY <1>1, <1>11, <1>16, SoundInExpansion DEF Kept

\* A loop goes on in a frame, or returns to the one below.
LEMMA FramesShrink ==
  ASSUME NEW r \in Requests, Frames(r), rec'[r] = rec[r], todo'[r] = todo[r],
         \A i \in DOMAIN stack'[r] :
           \E m \in DOMAIN stack[r] :
             /\ Len(stack[r]) - m = Len(stack'[r]) - i
             /\ Elements(stack'[r][i]) \subseteq Elements(stack[r][m])
  PROVE  Frames(r)'
<1>1. Root(r)' = Root(r) /\ Pid(r)' = Pid(r)
  BY SameWork
<1>2. ASSUME NEW i \in DOMAIN stack'[r]
      PROVE  \E j \in Away(Pid(r)', Root(r)', Len(stack'[r]) - i) :
               Elements(stack'[r][i]) \subseteq Elements(Zone[j])
  <2>1. PICK m \in DOMAIN stack[r] :
          /\ Len(stack[r]) - m = Len(stack'[r]) - i
          /\ Elements(stack'[r][i]) \subseteq Elements(stack[r][m])
    OBVIOUS
  <2>2. PICK j \in Away(Pid(r), Root(r), Len(stack[r]) - m) :
          Elements(stack[r][m]) \subseteq Elements(Zone[j])
    BY DEF Frames
  <2>3. QED
    BY <1>1, <2>1, <2>2
<1>3. QED
  BY <1>2 DEF Frames

\* Only the expansion of a host name gets as far as a loop.
LEMMA Looping ==
  ASSUME IInv, NEW r \in Requests, Sound(r), InLoop(r)
  PROVE  /\ Expanding(r) /\ ~Called(r) /\ Expansion(r) /\ pc[r] = "loop"
         /\ Current(r).kind = "dnsaddr" /\ Trail(r)
         /\ stack[r] # << >> /\ Top(r) = stack[r][1]
<1>1. Expanding(r) /\ ~Called(r) /\ Expansion(r) /\ stack[r] # << >> /\ pc[r] = "loop"
  BY DEF InLoop, Expanding, Called, Sound
<1>2. Current(r).kind = "dnsaddr"
  BY <1>1, AtWork DEF Expansion
<1>3. stack[r] \in Seq(Seq(Address))
  BY <1>1, AtWork
<1>4. QED
  BY <1>1, <1>2, <1>3 DEF Expansion, Top

LEMMA CallEndsSound ==
  ASSUME IInv, NEW r \in Requests, Sound(r), CallReturns(r) \/ CallTruncated(r)
  PROVE  Sound(r)'
<1>1. InLoop(r) /\ stack' = [stack EXCEPT ![r] = Tail(stack[r])]
  BY DEF CallReturns, CallTruncated
<1>2. /\ Expanding(r) /\ ~Called(r) /\ Expansion(r) /\ pc[r] = "loop"
      /\ Current(r).kind = "dnsaddr" /\ Trail(r)
      /\ stack[r] # << >> /\ Top(r) = stack[r][1]
  BY <1>1, Looping
<1>3. PICK s \in Seq(Seq(Address)) : s = stack[r] /\ s # << >>
  BY <1>2, AtWork
<1>4. /\ Len(s) \in Nat \ {0} /\ Len(Tail(s)) = Len(s) - 1
      /\ \A i \in DOMAIN Tail(s) : i + 1 \in DOMAIN s /\ Tail(s)[i] = s[i + 1]
      /\ \A i \in DOMAIN s : i = 1 \/ (i - 1 \in DOMAIN Tail(s) /\ Tail(s)[i - 1] = s[i])
      /\ DOMAIN Tail(s) = 1 .. Len(s) - 1
  BY <1>3, Popped
<1>5. stack'[r] = Tail(s)
  BY <1>1, <1>3 DEF IInv, ExpansionTypes
<1>6. UNCHANGED <<mode, filter, budget, cancelled, rec, todo, out, room, failed, pc, next, resolved>>
  BY DEF CallReturns, CallTruncated, request, record, dns
<1>7. /\ Current(r)' = Current(r) /\ Root(r)' = Root(r) /\ Pid(r)' = Pid(r)
      /\ Indirections(r)' = Indirections(r)
  BY <1>6, SameWork
<1>8. Expanding(r)' /\ ~Called(r)'
  BY <1>2, <1>6 DEF Expanding, Called
<1>9. Frames(r)'
  <2>1. ASSUME NEW i \in DOMAIN Tail(s)
        PROVE  i + 1 \in DOMAIN s /\ Len(s) - (i + 1) = Len(Tail(s)) - i /\ Tail(s)[i] = s[i + 1]
    BY <1>4
  <2>2. \A i \in DOMAIN stack'[r] :
          \E m \in DOMAIN stack[r] :
            /\ Len(stack[r]) - m = Len(stack'[r]) - i
            /\ Elements(stack'[r][i]) \subseteq Elements(stack[r][m])
    BY <1>3, <1>5, <2>1
  <2>3. QED
    BY <1>2, <1>6, <2>2, FramesShrink DEF Trail
<1>10. Trail(r)'
  BY <1>2, <1>6, <1>7, <1>8, <1>9 DEF Trail
<1>11. complete'[r] => \E S \in SUBSET Keys : Visited(r, S)'
  <2> SUFFICES ASSUME complete'[r] PROVE \E S \in SUBSET Keys : Visited(r, S)'
    OBVIOUS
  <2>1. CallReturns(r) /\ complete[r]
    BY DEF CallReturns, CallTruncated, IInv, ExpansionTypes
  <2>2. s[1] = << >>
    BY <1>2, <1>3, <2>1 DEF CallReturns
  <2>3. PICK S \in SUBSET Keys : Visited(r, S)
    BY <1>2, <2>1 DEF Expansion
  <2>4. ASSUME NEW a, NEW i \in DOMAIN stack[r], a \in Elements(stack[r][i])
        PROVE  \E m \in DOMAIN stack'[r] : a \in Elements(stack'[r][m])
    <3>1. i # 1
      BY <1>3, <2>2, <2>4 DEF Elements
    <3>2. i - 1 \in DOMAIN Tail(s) /\ Tail(s)[i - 1] = s[i]
      BY <1>3, <1>4, <2>4, <3>1
    <3>3. i - 1 \in DOMAIN stack'[r] /\ a \in Elements(stack'[r][i - 1])
      BY <1>3, <1>5, <2>4, <3>2
    <3>4. QED
      BY <3>3
  <2>5. \A a : Accounted(r, S, a) => Accounted(r, S, a)'
    BY <1>2, <1>6, <2>4 DEF Accounted
  <2>6. Visited(r, S)'
    BY <1>2, <1>7, <2>3, <2>5 DEF Visited
  <2>7. QED
    BY <2>6
<1>12. ~complete'[r] => Cause(r, Current(r))'
  <2>1. PICK cur : cur = Current(r)
    OBVIOUS
  <2>2. CASE CallTruncated(r)
    <3>1. room'[r] = 0
      BY <1>6, <2>2, ConstantsAssumption DEF CallTruncated, IInv, RecordTypes
    <3>2. Cause(r, cur)'
      BY <3>1 DEF Cause
    <3>3. QED
      BY <1>7, <2>1, <3>2
  <2>3. CASE CallReturns(r)
    <3>1. ~complete'[r] => Cause(r, cur)
      BY <1>2, <2>1, <2>3 DEF CallReturns, Expansion
    <3>2. Cause(r, cur) => Cause(r, cur)'
      BY <1>6, CauseStays
    <3>3. QED
      BY <1>7, <2>1, <3>1, <3>2
  <2>4. QED
    BY <2>2, <2>3
<1>13. Expansion(r)'
  BY <1>2, <1>7, <1>10, <1>11, <1>12 DEF Expansion
<1>14. QED
  BY <1>2, <1>6, <1>8, <1>13, SoundInExpansion

\* What is at the head of the innermost loop comes from a key on the trail.
LEMMA HeadListed ==
  ASSUME IInv, NEW r \in Requests, Sound(r), Visits(r)
  PROVE  LET a == Head(Top(r)) IN
         /\ a \in Address
         /\ ~NamesAnother(a, Pid(r)) =>
              \E j \in Away(Pid(r), Root(r), Len(stack[r]) - 1) : a \in Listed(Pid(r), j)
<1>1. InLoop(r) /\ Top(r) # << >>
  BY DEF Visits
<1>2. Trail(r) /\ Top(r) = stack[r][1] /\ Expanding(r) /\ stack[r] # << >>
  BY <1>1, Looping
<1>3. PICK s \in Seq(Seq(Address)) : s = stack[r] /\ s # << >>
  BY <1>2, AtWork
<1>4. PICK f \in Seq(Address) : f = s[1] /\ f = Top(r) /\ f # << >>
  BY <1>1, <1>2, <1>3
<1>5. Head(f) \in Elements(f) /\ Head(f) \in Address
  <2>1. Head(f) \in Elements(f)
    BY <1>4, TailElements
  <2>2. Head(f) \in Address
    BY <1>4, HeadTailProperties
  <2>3. QED
    BY <2>1, <2>2
<1>6. PICK j \in Away(Pid(r), Root(r), Len(stack[r]) - 1) : Elements(f) \subseteq Elements(Zone[j])
  <2>1. 1 \in DOMAIN stack[r] /\ f = stack[r][1]
    BY <1>3, <1>4
  <2>2. QED
    BY <1>2, <2>1 DEF Trail, Frames
<1>7. ~NamesAnother(Head(f), Pid(r)) => Head(f) \in Listed(Pid(r), j)
  BY <1>5, <1>6 DEF Listed
<1>8. QED
  BY <1>4, <1>5, <1>6, <1>7

\* The results that a loop has not visited stay on the stack.
LEMMA VisitMoves ==
  ASSUME IInv, NEW r \in Requests, Sound(r), Visits(r), rec'[r] = rec[r], todo'[r] = todo[r]
  PROVE  /\ Frames(r)' /\ Len(stack'[r]) = Len(stack[r])
         /\ \A a : (\E i \in DOMAIN stack[r] : a \in Elements(stack[r][i])) =>
                     \/ a = Head(Top(r))
                     \/ \E i \in DOMAIN stack'[r] : a \in Elements(stack'[r][i])
<1>1. InLoop(r) /\ Top(r) # << >> /\ stack' = [stack EXCEPT ![r][1] = Tail(stack[r][1])]
  BY DEF Visits
<1>2. Trail(r) /\ Top(r) = stack[r][1] /\ Expanding(r) /\ stack[r] # << >>
  BY <1>1, Looping
<1>3. PICK s \in Seq(Seq(Address)) : s = stack[r] /\ s # << >> /\ s[1] # << >>
  BY <1>1, <1>2, AtWork
<1>4. PICK t : t = [s EXCEPT ![1] = Tail(s[1])]
  OBVIOUS
<1>5. /\ Len(t) = Len(s) /\ DOMAIN t = DOMAIN s
      /\ t[1] = Tail(s[1]) /\ \A i \in DOMAIN s : i # 1 => t[i] = s[i]
      /\ Elements(s[1]) = Elements(t[1]) \cup {Head(s[1])}
  BY <1>3, <1>4, Moved
<1>6. stack'[r] = t
  BY <1>1, <1>3, <1>4 DEF IInv, ExpansionTypes
<1>7. \A i \in DOMAIN s : Elements(t[i]) \subseteq Elements(s[i])
  BY <1>5
<1>8. Frames(r)'
  <2>1. \A i \in DOMAIN stack'[r] :
          \E m \in DOMAIN stack[r] :
            /\ Len(stack[r]) - m = Len(stack'[r]) - i
            /\ Elements(stack'[r][i]) \subseteq Elements(stack[r][m])
    BY <1>3, <1>5, <1>6, <1>7
  <2>2. QED
    BY <1>2, <2>1, FramesShrink DEF Trail
<1>9. ASSUME NEW a, NEW i \in DOMAIN stack[r], a \in Elements(stack[r][i]), a # Head(Top(r))
      PROVE  \E m \in DOMAIN stack'[r] : a \in Elements(stack'[r][m])
  <2>1. i \in DOMAIN t /\ a \in Elements(t[i])
    BY <1>2, <1>3, <1>5, <1>9
  <2>2. QED
    BY <1>6, <2>1
<1>10. QED
  BY <1>3, <1>5, <1>6, <1>8, <1>9

LEMMA VisitSound ==
  ASSUME IInv, NEW r \in Requests, Sound(r),
         VisitSkips(r) \/ VisitAdds(r) \/ VisitExpands(r)
  PROVE  Sound(r)'
<1>1. /\ Visits(r) /\ InLoop(r) /\ Top(r) # << >> /\ room[r] > 0
      /\ UNCHANGED <<mode, filter, budget, cancelled, rec, todo, out, failed, complete>>
  BY DEF VisitSkips, VisitAdds, VisitExpands, Visits, request, dns
<1>2. /\ Expanding(r) /\ ~Called(r) /\ Expansion(r) /\ pc[r] = "loop"
      /\ Current(r).kind = "dnsaddr" /\ Trail(r)
  BY <1>1, Looping
<1>3. PICK a, pid, root, depth :
        /\ a = Head(Top(r)) /\ pid = Pid(r) /\ root = Root(r) /\ depth = Len(stack[r])
  OBVIOUS
<1>4. root \in Keys /\ depth \in Nat \ {0} /\ Current(r) \in Indirections(r)
  <2>1. /\ root \in Keys /\ depth \in Nat /\ Current(r) \in Indirections(r)
        /\ stack[r] \in Seq(Seq(Address))
    BY <1>2, <1>3, AtWork
  <2>2. stack[r] # << >>
    BY <1>1 DEF InLoop
  <2>3. QED
    BY <1>3, <2>1, <2>2
<1>5. /\ a \in Address
      /\ ~NamesAnother(a, pid) => \E j \in Away(pid, root, depth - 1) : a \in Listed(pid, j)
  BY <1>1, <1>3, HeadListed
<1>6. /\ Frames(r)' /\ Len(stack'[r]) = depth
      /\ \A b : (\E i \in DOMAIN stack[r] : b \in Elements(stack[r][i])) =>
                  b = a \/ \E i \in DOMAIN stack'[r] : b \in Elements(stack'[r][i])
  BY <1>1, <1>3, VisitMoves
<1>7. /\ Current(r)' = Current(r) /\ Root(r)' = root /\ Pid(r)' = pid
      /\ Indirections(r)' = Indirections(r)
  BY <1>1, <1>3, SameWork
<1>8. room[r] = 0 => room'[r] = 0
  BY <1>1
<1>9. ~complete'[r] => Cause(r, Current(r))'
  <2>1. PICK cur : cur = Current(r)
    OBVIOUS
  <2>2. ~complete'[r] => Cause(r, cur)
    BY <1>1, <1>2, <2>1 DEF Expansion
  <2>3. Cause(r, cur) => Cause(r, cur)'
    BY <1>1, <1>8, CauseStays
  <2>4. QED
    BY <1>7, <2>1, <2>2, <2>3
\* It remains that a is accounted for, and that the trail leads on.
<1>10. ASSUME Trail(r)', Expanding(r)', resolved[r] \subseteq resolved'[r],
              \A S \in SUBSET Keys : \A j \in S : a \in Listed(pid, j) => Accounted(r, S, a)'
       PROVE  Sound(r)'
  <2>1. complete'[r] => \E S \in SUBSET Keys : Visited(r, S)'
    <3> SUFFICES ASSUME complete'[r] PROVE \E S \in SUBSET Keys : Visited(r, S)'
      OBVIOUS
    <3>1. PICK S \in SUBSET Keys : Visited(r, S)
      BY <1>1, <1>2 DEF Expansion
    <3>2. ASSUME NEW j \in S, NEW b \in Listed(pid, j) PROVE Accounted(r, S, b)'
      <4>1. Accounted(r, S, b)
        BY <1>3, <3>1 DEF Visited
      <4>2. CASE b = a
        BY <1>10, <3>2, <4>2
      <4>3. CASE b # a
        BY <1>2, <1>6, <1>10, <4>1, <4>3 DEF Accounted
      <4>4. QED
        BY <4>2, <4>3
    <3>3. root \in S
      BY <1>2, <1>3, <3>1 DEF Visited
    <3>4. Visited(r, S)'
      BY <1>7, <3>2, <3>3 DEF Visited
    <3>5. QED
      BY <3>4
  <2>2. Expansion(r)'
    BY <1>2, <1>4, <1>7, <1>9, <1>10, <2>1 DEF Expansion
  <2>3. QED
    BY <1>1, <1>2, <1>8, <1>10, <2>2, SoundInExpansion
<1>11. CASE VisitSkips(r)
  <2>1. pc'[r] = "loop" /\ resolved' = resolved /\ (NamesAnother(a, pid) \/ a.kind = "empty")
    BY <1>2, <1>3, <1>11 DEF VisitSkips, Pid
  <2>2. Expanding(r)' /\ ~Called(r)'
    BY <2>1 DEF Expanding, Called
  <2>3. Trail(r)'
    BY <1>2, <1>3, <1>6, <1>7, <2>1, <2>2 DEF Trail
  <2>4. \A S \in SUBSET Keys : \A j \in S : a \in Listed(pid, j) => Accounted(r, S, a)'
    BY <2>1 DEF Accounted, Listed
  <2>5. QED
    BY <1>10, <2>1, <2>2, <2>3, <2>4
<1>12. CASE VisitAdds(r)
  <2>1. /\ pc'[r] = "loop" /\ resolved'[r] = resolved[r] \cup {a.at}
        /\ ~NamesAnother(a, pid) /\ a.kind = "plain"
    BY <1>2, <1>3, <1>12 DEF VisitAdds, Pid, IInv, ExpansionTypes
  <2>2. Expanding(r)' /\ ~Called(r)'
    BY <2>1 DEF Expanding, Called
  <2>3. a.at \in Named(pid, root)
    BY <1>5, <2>1 DEF Named, Reached, Away
  <2>4. Trail(r)'
    BY <1>2, <1>3, <1>6, <1>7, <2>1, <2>2, <2>3 DEF Trail
  <2>5. \A S \in SUBSET Keys : \A j \in S : a \in Listed(pid, j) => Accounted(r, S, a)'
    BY <2>1 DEF Accounted
  <2>6. QED
    BY <1>10, <2>1, <2>2, <2>4, <2>5
<1>13. CASE VisitExpands(r)
  <2>1. /\ pc'[r] = "expand" /\ resolved' = resolved /\ next'[r] = WithoutID(a)
        /\ ~NamesAnother(a, pid) /\ IsDNSAddr(a)
    BY <1>2, <1>3, <1>13 DEF VisitExpands, Pid, IInv, ExpansionTypes, RequestTypes
  <2>2. Expanding(r)' /\ Called(r)'
    BY <2>1 DEF Expanding, Called
  <2>3. PICK j \in Away(pid, root, depth - 1) : a \in Listed(pid, j)
    BY <1>5, <2>1
  <2>4. next'[r].kind = a.kind /\ CacheKey[next'[r].at] = CacheKey[a.at] /\ IsDNSAddr(next'[r])
    BY <1>5, <2>1, Addresses
  <2>5. a.kind = "dnsaddr" => CacheKey[a.at] \in Away(pid, root, depth)
    <3>1. a.kind = "dnsaddr" => CacheKey[a.at] \in Away(pid, root, (depth - 1) + 1)
      BY <1>4, <2>3, AwayGoesOn
    <3>2. (depth - 1) + 1 = depth
      BY <1>4
    <3>3. QED
      BY <3>1, <3>2
  <2>6. a \in Reached(pid, root)
    BY <2>3 DEF Reached, Away
  <2>7. Trail(r)'
    BY <1>2, <1>3, <1>6, <1>7, <2>1, <2>2, <2>4, <2>5, <2>6 DEF Trail
  <2>8. \A S \in SUBSET Keys : \A l \in S : a \in Listed(pid, l) => Accounted(r, S, a)'
    BY <2>1, <2>2 DEF Accounted
  <2>9. QED
    BY <1>10, <2>1, <2>2, <2>7, <2>8
<1>14. QED
  BY <1>11, <1>12, <1>13

\* A call that declines has a cause: a bound, its context, or a name that cannot
\* be resolved.
LEMMA DeclineSound ==
  ASSUME IInv, NEW r \in Requests, Sound(r),
         ExpandDeclines(r) \/ LookupDeclined(r) \/ LookupAbandoned(r)
  PROVE  Sound(r)'
<1>1. Called(r) /\ ReturnsNothing(r) /\ Kept
  BY DEF ExpandDeclines, LookupDeclined, LookupAbandoned, Called, Kept, request, record, dns
<1>2. Expanding(r) /\ Expansion(r)
  BY <1>1 DEF Expanding, Called, Sound
<1>3. ASSUME Current(r).kind = "dnsaddr" PROVE Cause(r, Current(r))
  <2>1. Trail(r)
    BY <1>2, <1>3 DEF Expansion
  <2>2. CASE cancelled[r] \/ budget[r] = 0 \/ room[r] = 0
    BY <2>2 DEF Cause
  <2>3. CASE ExpandDeclines(r) /\ room[r] # 0 /\ ~cancelled[r]
    <3>1. /\ room[r] \in Nat /\ DNSAddrRecursionLimit \in Nat
          /\ Len(stack[r]) <= DNSAddrRecursionLimit /\ Len(stack[r]) \in Nat
      BY <1>2, AtWork, ConstantsAssumption DEF IInv, RecordTypes, ExpansionTypes
    <3>2. Len(stack[r]) = DNSAddrRecursionLimit \/ ~Resolvable(next[r])
      BY <2>3, <3>1 DEF ExpandDeclines, MayExpand
    <3>3. CASE next[r].kind = "suffixed"
      <4>1. \E b \in Reached(Pid(r), Root(r)) : b.kind = "suffixed"
        BY <1>1, <2>1, <3>3 DEF Trail
      <4>2. QED
        BY <4>1 DEF Cause, Pid, Root
    <3>4. CASE next[r].kind = "dnsaddr"
      <4>1. CacheKey[next[r].at] \in Away(Pid(r), Root(r), DNSAddrRecursionLimit)
        BY <1>1, <2>1, <3>2, <3>4 DEF Trail, Resolvable
      <4>2. Chains(Pid(r), Root(r), DNSAddrRecursionLimit) # {}
        BY <4>1 DEF Away
      <4>3. QED
        BY <4>2 DEF Cause, Pid, Root
    <3>5. QED
      BY <1>1, <2>1, <3>3, <3>4 DEF Trail, IsDNSAddr
  <2>4. QED
    BY <2>2, <2>3 DEF ExpandDeclines, LookupDeclined, LookupAbandoned
<1>4. QED
  BY <1>1, <1>3, ReturnsSound

LEMMA LookupSound ==
  ASSUME IInv, Failures, NEW r \in Requests, Sound(r),
         CacheHit(r) \/ LookupReceives(r) \/ CacheMiss(r) \/ LookupJoins(r)
  PROVE  Sound(r)'
<1>1. /\ Called(r) /\ Expanding(r) /\ Expansion(r) /\ next[r].kind = "dnsaddr"
      /\ next[r] \in Address \cup {NoHost}
  <2>1. Called(r) /\ Expanding(r)
    BY DEF CacheHit, LookupReceives, CacheMiss, LookupJoins, Goes, Called, Expanding
  <2>2. next[r].kind = "dnsaddr"
    BY DEF CacheHit, LookupReceives, CacheMiss, LookupJoins, Goes, MayExpand, Resolvable,
           IInv, Placed
  <2>3. QED
    BY <2>1, <2>2 DEF Sound, IInv, ExpansionTypes
<1>2. CacheKey[next[r].at] \in Keys
  BY <1>1, KeyType
<1>3. CASE CacheHit(r)
  <2>1. PICK outcome : outcome = cache[CacheKey[next[r].at]]
    OBVIOUS
  <2>2. /\ outcome \in Outcome /\ HasResults(r, outcome) /\ Kept
        /\ outcome = "failed" => CacheKey[next[r].at] \in failed
    BY <1>2, <1>3, <2>1 DEF CacheHit, Kept, IInv, DNSTypes, Failures, request, record, dns
  <2>3. QED
    BY <1>1, <2>2, ResultsSound
<1>4. CASE LookupReceives(r)
  <2>1. PICK outcome : outcome = reply[r]
    OBVIOUS
  <2>2. /\ outcome \in Outcome /\ HasResults(r, outcome) /\ Kept
        /\ outcome = "failed" => CacheKey[next[r].at] \in failed
    BY <1>2, <1>4, <2>1 DEF LookupReceives, Kept, IInv, DNSTypes, Failures, request, record, dns
  <2>3. QED
    BY <1>1, <2>2, ResultsSound
<1>5. CASE CacheMiss(r) \/ LookupJoins(r)
  <2>1. /\ pc[r] \in {"expand", "lookup"} /\ pc'[r] \in {"lookup", "wait"}
        /\ UNCHANGED <<mode, filter, cancelled, rec, todo, out, room, failed,
                       next, stack, resolved, complete>>
        /\ budget[r] = 0 => budget'[r] = 0
    BY <1>5 DEF CacheMiss, LookupJoins, Goes, Spends, IInv, RequestTypes,
                request, record, expansion, dns
  <2>2. Called(r)' /\ Expanding(r)'
    BY <2>1 DEF Called, Expanding
  <2>3. Expansion(r)'
    BY <1>1, <2>1, <2>2, ExpansionStays
  <2>4. QED
    BY <1>1, <2>1, <2>2, <2>3, SoundInExpansion
<1>6. QED
  BY <1>3, <1>4, <1>5

-----------------------------------------------------------------------------
(* The steps between expansions.                                           *)

LEMMA HeadOrTail ==
  ASSUME NEW s \in Seq(Address), s # << >>
  PROVE  Elements(s) = Elements(Tail(s)) \cup {Head(s)}
<1>1. Elements(Tail(s)) \subseteq Elements(s) /\ Head(s) \in Elements(s)
  BY TailElements
<1>2. /\ Head(s) = s[1]
      /\ \A i \in DOMAIN s : i = 1 \/ (i - 1 \in DOMAIN Tail(s) /\ Tail(s)[i - 1] = s[i])
  OBVIOUS
<1>3. Elements(s) \subseteq Elements(Tail(s)) \cup {Head(s)}
  BY <1>2 DEF Elements
<1>4. QED
  BY <1>1, <1>3

\* What is served stays served as the record grows.
LEMMA Grows ==
  ASSUME NEW r \in Requests, rec'[r] = rec[r], out[r] \subseteq out'[r]
  PROVE  /\ Indirections(r)' = Indirections(r)
         /\ \A a : Expanded(r, a) => Expanded(r, a)'
         /\ \A b : Own(r, b) => Own(r, b)'
<1>1. Indirections(r)' = Indirections(r)
  BY DEF Indirections
<1>2. \A a : Expanded(r, a) => Expanded(r, a)'
  BY DEF Expanded, ServedAt
<1>3. \A b : Own(r, b) => Own(r, b)'
  BY <1>1 DEF Own
<1>4. QED
  BY <1>1, <1>2, <1>3

LEMMA PassSound ==
  ASSUME IInv, RoomInv, NEW r \in Requests, Sound(r), CopyAddr(r) \/ DropAddr(r)
  PROVE  Sound(r)'
<1>1. /\ pc[r] = "addrs" /\ todo[r] \in Seq(Address) /\ todo[r] # << >>
      /\ todo'[r] = Tail(todo[r]) /\ out[r] \subseteq out'[r]
      /\ UNCHANGED <<mode, filter, budget, cancelled, rec, room, failed, pc, stack, complete>>
  BY DEF CopyAddr, DropAddr, IInv, RecordTypes, request, expansion, dns
<1>2. PICK h : h = Head(todo[r])
  OBVIOUS
<1>3. h \notin Indirections(r) /\ out'[r] \subseteq out[r] \cup {h}
  BY <1>2 DEF CopyAddr, DropAddr, Indirections, IInv, RecordTypes
<1>4. Elements(todo[r]) = Elements(todo'[r]) \cup {h}
  BY <1>1, <1>2, HeadOrTail
<1>5. h \in Elements(rec[r].addrs)
  BY <1>1, <1>4 DEF RoomInv
<1>6. /\ Working(r) /\ Working(r)' /\ ~Expanding(r) /\ ~Expanding(r)' /\ pc'[r] # "served"
  BY <1>1 DEF Working, Expanding
<1>7. /\ Indirections(r)' = Indirections(r)
      /\ \A a : Expanded(r, a) => Expanded(r, a)'
      /\ \A b : Own(r, b) => Own(r, b)'
  BY <1>1, Grows
<1>8. Resolves(r, rec[r])' <=> Resolves(r, rec[r])
  BY <1>1 DEF Resolves
<1>9. \A a \in Indirections(r) : Cause(r, a) => Cause(r, a)'
  BY <1>1, CauseStays
<1>10. Contents(r)'
  <2>1. \A b \in out'[r] \ Elements(rec'[r].addrs) : b.kind = "plain" /\ Own(r, b)'
    BY <1>1, <1>3, <1>5, <1>6, <1>7 DEF Sound, Contents
  <2>2. \A a \in Indirections(r) : a \in out'[r] \/ Expanded(r, a)' \/ a \in Elements(todo'[r])
    BY <1>1, <1>3, <1>4, <1>6, <1>7 DEF Sound, Contents
  <2>3. Action(mode, filter[r]) = "replace" => \A a \in Indirections(r) \cap out'[r] : Cause(r, a)'
    BY <1>3, <1>6, <1>9 DEF Sound, Contents
  <2>4. QED
    BY <1>1, <1>6, <1>7, <1>8, <2>1, <2>2, <2>3 DEF Sound, Contents
<1>11. QED
  BY <1>1, <1>6, <1>10 DEF Sound

\* The first call of an expansion is at the root.
LEMMA ExpandSound ==
  ASSUME IInv, RoomInv, NEW r \in Requests, Sound(r), ExpandAddr(r)
  PROVE  Sound(r)'
<1>1. /\ pc[r] = "addrs" /\ pc'[r] = "expand" /\ todo[r] \in Seq(Address) /\ todo[r] # << >>
      /\ IsDNSAddr(Current(r)) /\ ~NamesAnother(Current(r), rec[r].pid)
      /\ next'[r] = WithoutID(Current(r))
      /\ UNCHANGED <<mode, filter, budget, cancelled, rec, todo, out, room, failed,
                     stack, resolved, complete>>
  BY DEF ExpandAddr, Goes, Current, IInv, RequestTypes, RecordTypes, ExpansionTypes,
         request, record, dns
<1>2. /\ Working(r) /\ Working(r)' /\ ~Expanding(r) /\ Expanding(r)' /\ Called(r)'
  BY <1>1 DEF Working, Expanding, Called
<1>3. stack[r] = << >> /\ complete[r] /\ resolved[r] = {}
  BY <1>2 DEF Sound, RoomInv
<1>4. Contents(r)'
  BY <1>1, <1>2, ContentsStay DEF Sound
<1>5. /\ Current(r)' = Current(r) /\ Root(r)' = Root(r) /\ Pid(r)' = Pid(r)
      /\ Indirections(r)' = Indirections(r)
  BY <1>1, SameWork
<1>6. PICK cur, pid, root : cur = Current(r) /\ pid = Pid(r) /\ root = Root(r)
  OBVIOUS
<1>7. cur \in Address /\ cur \in Indirections(r)
  <2>1. cur \in Elements(todo[r]) /\ cur \in Address
    BY <1>1, <1>6, TailElements DEF Current
  <2>2. cur \in Elements(rec[r].addrs)
    BY <1>1, <2>1 DEF RoomInv
  <2>3. QED
    BY <1>1, <1>6, <2>1, <2>2 DEF Indirections
<1>8. /\ CacheKey[cur.at] \in Keys /\ root = CacheKey[cur.at]
      /\ next'[r].kind = cur.kind /\ next'[r].at = cur.at /\ IsDNSAddr(next'[r])
  BY <1>1, <1>6, <1>7, Addresses DEF Root
<1>9. root \in Away(pid, root, 0)
  BY <1>8, AwayStarts
<1>10. cur.kind = "dnsaddr" => Trail(r)'
  <2>1. stack'[r] = << >> /\ Len(stack'[r]) = 0 /\ DOMAIN stack'[r] = {}
    BY <1>1, <1>3
  <2>2. Frames(r)'
    BY <2>1 DEF Frames
  <2>3. QED
    BY <1>1, <1>2, <1>3, <1>5, <1>6, <1>8, <1>9, <2>1, <2>2 DEF Trail
<1>11. Visited(r, {})'
  BY <1>1, <1>2, <1>5 DEF Visited
<1>12. Expansion(r)'
  BY <1>1, <1>3, <1>5, <1>6, <1>7, <1>8, <1>10, <1>11 DEF Expansion
<1>13. QED
  BY <1>2, <1>4, <1>12 DEF Sound

\* An expansion that comes out complete has visited everything in reach.
LEMMA WholeExpansion ==
  ASSUME IInv, NEW r \in Requests, Sound(r), pc[r] = "loop", stack[r] = << >>, complete[r]
  PROVE  /\ Current(r).kind = "dnsaddr"
         /\ \A b \in Reached(Pid(r), Root(r)) : b.kind # "suffixed"
         /\ Named(Pid(r), Root(r)) \subseteq resolved[r]
<1>1. Expanding(r) /\ ~Called(r) /\ Expansion(r)
  BY DEF Expanding, Called, Sound
<1>2. Current(r).kind = "dnsaddr" /\ Root(r) \in Keys
  BY <1>1, AtWork DEF Expansion
<1>3. PICK S \in SUBSET Keys : Visited(r, S)
  BY <1>1, <1>2 DEF Expansion
<1>4. PICK pid, root : pid = Pid(r) /\ root = Root(r)
  OBVIOUS
<1>5. \A j \in S : \A a \in Listed(pid, j) :
        \/ a.kind = "plain" /\ a.at \in resolved[r]
        \/ a.kind = "dnsaddr" /\ CacheKey[a.at] \in S
        \/ a.kind = "empty"
  BY <1>1, <1>3, <1>4 DEF Visited, Accounted
<1>6. root \in S /\ root \in Keys
  BY <1>1, <1>2, <1>3, <1>4 DEF Visited
<1>7. Reach(pid, root) \subseteq S
  <2>1. \A j \in S : \A a \in Listed(pid, j) : a.kind = "dnsaddr" => CacheKey[a.at] \in S
    BY <1>5
  <2>2. QED
    BY <1>6, <2>1, Reaches
<1>8. \A b \in Reached(pid, root) :
        b.kind # "suffixed" /\ (b.kind = "plain" => b.at \in resolved[r])
  BY <1>5, <1>7 DEF Reached
<1>9. QED
  BY <1>2, <1>4, <1>8 DEF Named

LEMMA ExpandedSound ==
  ASSUME IInv, RoomInv, NEW r \in Requests, Sound(r), AddrExpanded(r)
  PROVE  Sound(r)'
<1>1. /\ pc[r] = "loop" /\ pc'[r] = "addrs" /\ todo'[r] = Tail(todo[r])
      /\ stack[r] = << >> /\ stack'[r] = << >> /\ complete'[r] = TRUE
      /\ UNCHANGED <<mode, filter, budget, cancelled, rec, room, failed>>
  BY DEF AddrExpanded, Goes, IInv, RequestTypes, RecordTypes, ExpansionTypes,
         request, dns
<1>2. /\ Working(r) /\ Working(r)' /\ Expanding(r) /\ ~Expanding(r)' /\ ~Called(r)
      /\ Expansion(r) /\ pc[r] # "served" /\ pc'[r] # "served"
  BY <1>1 DEF Working, Expanding, Called, Sound
<1>3. PICK cur, pid, root : cur = Current(r) /\ pid = Pid(r) /\ root = Root(r)
  OBVIOUS
<1>4. /\ cur \in Indirections(r) /\ cur.kind \in {"dnsaddr", "suffixed"}
      /\ todo[r] \in Seq(Address) /\ todo[r] # << >> /\ cur = Head(todo[r])
      /\ pid = rec[r].pid /\ root = CacheKey[cur.at]
  BY <1>2, <1>3, AtWork DEF Current, Pid, Root
<1>5. Elements(todo[r]) = Elements(todo'[r]) \cup {cur}
  BY <1>1, <1>4, HeadOrTail
<1>6. out'[r] = out[r] \cup FromResolved(r) \cup
        IF Action(mode, filter[r]) = "append" \/ ~complete[r] \/ resolved[r] = {}
        THEN {cur} ELSE {}
  BY <1>4 DEF AddrExpanded, IInv, RecordTypes
<1>7. /\ Indirections(r)' = Indirections(r)
      /\ \A a : Expanded(r, a) => Expanded(r, a)'
      /\ \A b : Own(r, b) => Own(r, b)'
  BY <1>1, <1>6, Grows
<1>8. Resolves(r, rec[r])' <=> Resolves(r, rec[r])
  BY <1>1 DEF Resolves
<1>9. \A a : Cause(r, a) => Cause(r, a)'
  BY <1>1, CauseStays
<1>10. ASSUME NEW b \in FromResolved(r) PROVE b.kind = "plain" /\ Own(r, b) /\ ~IsDNSAddr(b)
  <2>1. b.kind = "plain" /\ b.at \in resolved[r]
    BY DEF FromResolved
  <2>2. cur.kind = "dnsaddr"
    BY <1>2, <1>3, <1>4, <2>1 DEF Expansion
  <2>3. b.at \in Named(pid, root)
    BY <1>2, <1>3, <2>1, <2>2 DEF Expansion, Trail
  <2>4. QED
    BY <1>4, <2>1, <2>2, <2>3 DEF Own, IsDNSAddr
<1>11. cur \in out'[r] \/ Expanded(r, cur)'
  <2> SUFFICES ASSUME complete[r] PROVE cur \in out'[r] \/ Expanded(r, cur)'
    BY <1>6
  <2>1. /\ cur.kind = "dnsaddr" /\ \A b \in Reached(pid, root) : b.kind # "suffixed"
        /\ Named(pid, root) \subseteq resolved[r]
    BY <1>1, <1>3, WholeExpansion
  <2>2. ASSUME NEW at \in resolved[r] PROVE \E b \in out'[r] : b.kind = "plain" /\ b.at = at
    <3> DEFINE b == [kind |-> "plain", at |-> at, id |-> NoPeer]
    <3>1. b \in out'[r] /\ b.kind = "plain" /\ b.at = at
      BY <1>6 DEF FromResolved
    <3>2. QED
      BY <3>1
  <2>3. resolved[r] \subseteq ServedAt(r)'
    BY <2>2 DEF ServedAt
  <2>4. rec'[r].pid = pid
    BY <1>1, <1>4
  <2>5. Expanded(r, cur)'
    BY <1>4, <2>1, <2>3, <2>4 DEF Expanded
  <2>6. QED
    BY <2>5
<1>12. Action(mode, filter[r]) = "replace" /\ cur \in out'[r] => Cause(r, cur)
  <2> SUFFICES ASSUME Action(mode, filter[r]) = "replace", cur \in out'[r] PROVE Cause(r, cur)
    OBVIOUS
  <2>1. CASE cur \in out[r]
    BY <1>2, <1>4, <2>1 DEF Sound, Contents
  <2>2. CASE ~complete[r]
    <3>1. CASE cur.kind = "dnsaddr"
      BY <1>2, <1>3, <2>2, <3>1 DEF Expansion
    <3>2. CASE cur.kind = "suffixed"
      BY <3>2 DEF Cause
    <3>3. QED
      BY <1>4, <3>1, <3>2
  <2>3. CASE complete[r] /\ resolved[r] = {}
    <3>1. Named(pid, root) = {}
      BY <1>1, <1>3, <2>3, WholeExpansion
    <3>2. QED
      BY <1>4, <3>1 DEF Cause
  <2>4. cur \notin FromResolved(r)
    BY <1>4, <1>10 DEF Indirections
  <2>5. QED
    BY <1>6, <2>1, <2>2, <2>3, <2>4
<1>13. Contents(r)'
  <2>1. \A b \in out'[r] \ Elements(rec'[r].addrs) : b.kind = "plain" /\ Own(r, b)'
    <3>1. cur \in Elements(rec'[r].addrs)
      BY <1>1, <1>4 DEF Indirections
    <3>2. ASSUME NEW b \in out'[r] \ Elements(rec'[r].addrs) PROVE b.kind = "plain" /\ Own(r, b)
      <4>1. b \in out[r] \/ b \in FromResolved(r)
        BY <1>6, <3>1, <3>2
      <4>2. b \in out[r] => b.kind = "plain" /\ Own(r, b)
        BY <1>1, <1>2, <3>2 DEF Sound, Contents
      <4>3. QED
        BY <1>10, <4>1, <4>2
    <3>3. QED
      BY <1>7, <3>2
  <2>2. \A a \in Indirections(r) : a \in out'[r] \/ Expanded(r, a)' \/ a \in Elements(todo'[r])
    BY <1>2, <1>5, <1>6, <1>7, <1>11 DEF Sound, Contents
  <2>3. ASSUME Action(mode, filter[r]) = "replace", NEW a \in Indirections(r) \cap out'[r]
        PROVE  Cause(r, a)
    <3>1. a \notin FromResolved(r)
      BY <1>10 DEF Indirections
    <3>2. a = cur \/ a \in out[r]
      BY <1>6, <3>1
    <3>3. QED
      BY <1>2, <1>12, <2>3, <3>2 DEF Sound, Contents
  <2>4. QED
    BY <1>1, <1>2, <1>7, <1>8, <1>9, <2>1, <2>2, <2>3 DEF Sound, Contents
<1>14. QED
  BY <1>1, <1>2, <1>13 DEF Sound

\* The second filter takes away private addresses only.
LEMMA ResolvedSound ==
  ASSUME IInv, NEW r \in Requests, Sound(r), RecordResolved(r)
  PROVE  Sound(r)'
<1>1. /\ pc[r] = "addrs" /\ pc'[r] = "served" /\ todo[r] = << >>
      /\ out'[r] = FilterPrivate(out[r])
      /\ UNCHANGED <<mode, filter, budget, cancelled, rec, room, failed, todo, stack, complete>>
  BY DEF RecordResolved, Goes, IInv, RequestTypes, RecordTypes, request, expansion, dns
<1>2. /\ Working(r) /\ ~Working(r)' /\ ~Expanding(r) /\ ~Expanding(r)'
  BY <1>1 DEF Working, Expanding
<1>3. /\ Indirections(r)' = Indirections(r)
      /\ Resolves(r, rec[r])' <=> Resolves(r, rec[r])
  BY <1>1 DEF Indirections, Resolves
<1>4. \A b : Own(r, b) => Own(r, b)'
  BY <1>1, <1>3 DEF Own
<1>5. \A a : Cause(r, a) => Cause(r, a)'
  BY <1>1, CauseStays
<1>6. out'[r] \subseteq out[r] /\ \A b \in out'[r] : ~(b.kind = "plain" /\ b.at \in Private)
  BY <1>1 DEF FilterPrivate
<1>7. \A a \in Indirections(r) : a \in out[r] => a \in out'[r]
  BY <1>1 DEF Indirections, IsDNSAddr, FilterPrivate
<1>8. \A a : Expanded(r, a) => Expanded(r, a)'
  <2>1. ServedAt(r) \ Private \subseteq ServedAt(r)'
    BY <1>1 DEF ServedAt, FilterPrivate
  <2>2. QED
    BY <1>1, <2>1 DEF Expanded
<1>9. Elements(todo[r]) = {}
  BY <1>1 DEF Elements
<1>10. Contents(r)'
  <2>1. \A b \in out'[r] \ Elements(rec'[r].addrs) :
          b.kind = "plain" /\ Own(r, b)' /\ b.at \notin Private
    BY <1>1, <1>2, <1>4, <1>6 DEF Sound, Contents
  <2>2. \A a \in Indirections(r) : a \in out'[r] \/ Expanded(r, a)'
    BY <1>2, <1>7, <1>8, <1>9 DEF Sound, Contents
  <2>3. Action(mode, filter[r]) = "replace" => \A a \in Indirections(r) \cap out'[r] : Cause(r, a)'
    BY <1>2, <1>5, <1>6 DEF Sound, Contents
  <2>4. QED
    BY <1>1, <1>2, <1>3, <2>1, <2>2, <2>3 DEF Contents
<1>11. QED
  BY <1>1, <1>2, <1>10 DEF Sound

\* The steps of a request outside the resolution of a record.
LEMMA RequestSound ==
  ASSUME IInv, NEW r \in Requests, Sound(r),
         \/ RequestStarts(r) \/ RequestEnds(r) \/ CtxDone(r)
         \/ RecordArrives(r) \/ RecordPasses(r)
  PROVE  Sound(r)'
<1> USE DEF Goes, request, record, expansion, dns
<1>1. CASE CtxDone(r)
  <2>1. /\ UNCHANGED <<mode, filter, budget, rec, todo, out, room, failed, pc,
                       next, stack, resolved, complete>>
        /\ cancelled'[r]
    BY <1>1 DEF CtxDone, IInv, RequestTypes
  <2>2. Contents(r)'
    BY <2>1, ContentsStay DEF Sound, Working, Expanding
  <2>3. Expansion(r) => Expansion(r)'
    BY <2>1, ExpansionStays DEF Called
  <2>4. QED
    BY <2>1, <2>2, <2>3 DEF Sound, Expanding
<1>2. CASE RequestStarts(r) \/ RequestEnds(r) \/ RecordPasses(r)
  <2>1. /\ pc[r] \in {"idle", "served"} /\ pc'[r] \in {"idle", "served"}
        /\ UNCHANGED <<stack, complete>>
    BY <1>2 DEF RequestStarts, RequestEnds, RecordPasses, IInv, RequestTypes
  <2>2. ~Working(r)' /\ ~Expanding(r) /\ ~Expanding(r)'
    BY <2>1 DEF Working, Expanding
  <2>3. ~Served(r)'
    <3>1. CASE RequestStarts(r)
      BY <3>1 DEF RequestStarts, Served, Resolves, NoRecord, IInv, Placed
    <3>2. CASE RequestEnds(r)
      BY <3>2 DEF RequestEnds, Served, IInv, RequestTypes
    <3>3. CASE RecordPasses(r)
      <4>1. PICK v \in Records : ~Resolves(r, v) /\ rec'[r] = v
        BY <3>3 DEF RecordPasses, IInv, RecordTypes
      <4>2. UNCHANGED <<mode, filter>>
        BY <3>3 DEF RecordPasses
      <4>3. QED
        BY <4>1, <4>2 DEF Served, Resolves
    <3>4. QED
      BY <1>2, <3>1, <3>2, <3>3
  <2>4. QED
    BY <2>1, <2>2, <2>3 DEF Sound, Contents
<1>3. CASE RecordArrives(r)
  <2>1. PICK v \in Records : Resolves(r, v) /\ rec'[r] = v /\ todo'[r] = v.addrs
    BY <1>3 DEF RecordArrives, IInv, RecordTypes
  <2>2. /\ pc[r] = "served" /\ pc'[r] = "addrs" /\ out'[r] = {}
        /\ UNCHANGED <<mode, filter, stack, complete>>
    BY <1>3 DEF RecordArrives, IInv, RequestTypes, RecordTypes
  <2>3. Working(r)' /\ ~Expanding(r) /\ ~Expanding(r)'
    BY <2>2 DEF Working, Expanding
  <2>4. Resolves(r, rec[r])'
    BY <2>1, <2>2 DEF Resolves
  <2>5. Indirections(r)' \subseteq Elements(todo'[r])
    BY <2>1 DEF Indirections
  <2>6. Contents(r)'
    BY <2>2, <2>3, <2>4, <2>5 DEF Contents
  <2>7. QED
    BY <2>2, <2>3, <2>6 DEF Sound
<1>4. QED
  BY <1>1, <1>2, <1>3

-----------------------------------------------------------------------------
(* All together.                                                           *)

LEMMA FailuresRequest ==
  ASSUME IInv, Failures, NEW r \in Requests, RequestStep(r)
  PROVE  Failures'
<1> USE DEF Goes, request, record, expansion, dns
<1>1. cache' = cache /\ failed' = failed
  BY DEF RequestStep, ResolveStep, RequestStarts, RequestEnds, CtxDone, RecordArrives,
         RecordPasses, CopyAddr, DropAddr, ExpandAddr, AddrExpanded, RecordResolved,
         ExpandDeclines, CacheHit, CacheMiss, LookupDeclined, LookupJoins, LookupReceives,
         LookupAbandoned, CallReturns, CallTruncated, VisitSkips, VisitAdds, VisitExpands,
         Visits
<1>2. \A k \in Keys : flight'[k] = "failed" => flight[k] = "failed"
  <2>1. CASE LookupJoins(r)
    BY <2>1 DEF LookupJoins, IInv, DNSTypes
  <2>2. CASE ~LookupJoins(r)
    BY <2>2 DEF RequestStep, ResolveStep, RequestStarts, RequestEnds, CtxDone, RecordArrives,
         RecordPasses, CopyAddr, DropAddr, ExpandAddr, AddrExpanded, RecordResolved,
         ExpandDeclines, CacheHit, CacheMiss, LookupDeclined, LookupReceives,
         LookupAbandoned, CallReturns, CallTruncated, VisitSkips, VisitAdds, VisitExpands,
         Visits
  <2>3. QED
    BY <2>1, <2>2
<1>3. ASSUME NEW q \in Requests, reply'[q] = "failed"
      PROVE  pc'[q] = "wait" /\ CacheKey[next'[q].at] \in failed
  <2>1. CASE LookupReceives(r) \/ LookupAbandoned(r)
    <3>1. q # r /\ reply'[q] = reply[q]
      BY <1>3, <2>1 DEF LookupReceives, LookupAbandoned, IInv, DNSTypes
    <3>2. pc'[q] = pc[q] /\ next'[q] = next[q]
      BY <3>1, Elsewhere DEF Local
    <3>3. QED
      BY <3>1, <3>2, <1>3 DEF Failures
  <2>2. CASE ~(LookupReceives(r) \/ LookupAbandoned(r))
    <3>1. reply' = reply /\ (pc[r] = "wait" => pc' = pc /\ next' = next)
      BY <2>2 DEF RequestStep, ResolveStep, RequestStarts, RequestEnds, CtxDone, RecordArrives,
         RecordPasses, CopyAddr, DropAddr, ExpandAddr, AddrExpanded, RecordResolved,
         ExpandDeclines, CacheHit, CacheMiss, LookupDeclined, LookupJoins,
         CallReturns, CallTruncated, VisitSkips, VisitAdds, VisitExpands,
         Visits, InLoop
    <3>2. CASE q = r
      BY <1>3, <3>1, <3>2 DEF Failures
    <3>3. CASE q # r
      <4>1. pc'[q] = pc[q] /\ next'[q] = next[q]
        BY <3>3, Elsewhere DEF Local
      <4>2. QED
        BY <1>3, <3>1, <4>1 DEF Failures
    <3>4. QED
      BY <3>2, <3>3
  <2>3. QED
    BY <2>1, <2>2
<1>4. QED
  BY <1>1, <1>2, <1>3 DEF Failures

LEMMA ContentsRequest ==
  ASSUME IInv, RoomInv, ContentsInv, NEW r \in Requests, RequestStep(r)
  PROVE  ContentsInv'
<1>1. Sound(r) /\ Failures
  BY DEF ContentsInv
<1>2. Sound(r)'
  BY <1>1, PassSound, ExpandSound, ExpandedSound, ResolvedSound, DeclineSound, LookupSound,
     CallEndsSound, VisitSound, RequestSound DEF RequestStep, ResolveStep
<1>3. \A q \in Requests \ {r} : Sound(q)'
  <2> SUFFICES ASSUME NEW q \in Requests \ {r} PROVE Sound(q)'
    OBVIOUS
  <2>1. Local(q)' = Local(q) /\ mode' = mode /\ failed' = failed
    BY Elsewhere
  <2>2. Sound(q)
    BY DEF ContentsInv
  <2>3. QED
    BY <2>1, <2>2, SoundStays
<1>4. QED
  BY <1>1, <1>2, <1>3, FailuresRequest DEF ContentsInv

LEMMA ContentsDNS ==
  ASSUME IInv, ContentsInv, NEW k \in Keys, DNSStep(k)
  PROVE  ContentsInv'
<1> USE DEF request, record, expansion
<1>1. /\ UNCHANGED <<mode, request, pc, record, expansion>> /\ failed \subseteq failed'
  BY DEF DNSStep, OthersLookUp, QueryAnswers, FlightEnds, CacheForgets
<1>2. \A q \in Requests : Sound(q)'
  <2> SUFFICES ASSUME NEW q \in Requests PROVE Sound(q)'
    OBVIOUS
  <2>1. Local(q)' = Local(q)
    BY <1>1 DEF Local
  <2>2. Sound(q)
    BY DEF ContentsInv
  <2>3. QED
    BY <1>1, <2>1, <2>2, SoundStays
<1>3. Failures'
  <2>1. Failures /\ cache \in [Keys -> Outcome \cup {"absent"}]
                 /\ flight \in [Keys -> Outcome \cup {"none", "query"}]
    BY DEF ContentsInv, IInv, DNSTypes
  <2>2. CASE OthersLookUp(k)
    BY <1>1, <2>1, <2>2 DEF OthersLookUp, Failures
  <2>3. CASE QueryAnswers(k)
    BY <1>1, <2>1, <2>3 DEF QueryAnswers, Failures, Outcome
  <2>4. CASE FlightEnds(k)
    BY <1>1, <2>1, <2>4 DEF FlightEnds, Failures
  <2>5. CASE CacheForgets(k)
    BY <1>1, <2>1, <2>5 DEF CacheForgets, Failures
  <2>6. QED
    BY <2>2, <2>3, <2>4, <2>5 DEF DNSStep
<1>4. QED
  BY <1>2, <1>3 DEF ContentsInv

LEMMA ContentsInvariance == Spec => [](IInv /\ RoomInv /\ ContentsInv)
<1>1. Init => RoomInv
  BY DEF Init, RoomInv, Expanding, Resolves, NoRecord
<1>2. Init => ContentsInv
  <2> SUFFICES ASSUME Init PROVE ContentsInv
    OBVIOUS
  <2>1. Failures
    BY DEF Init, Failures
  <2>2. ASSUME NEW r \in Requests PROVE Sound(r)
    <3>1. ~Working(r) /\ ~Expanding(r) /\ ~Served(r) /\ complete[r] /\ stack[r] = << >>
      BY DEF Init, Working, Expanding, Served
    <3>2. QED
      BY <3>1 DEF Sound, Contents
  <2>3. QED
    BY <2>1, <2>2 DEF ContentsInv
<1>3. IInv /\ RoomInv /\ [Next]_vars => RoomInv'
  BY RoomStep
<1>4. IInv /\ RoomInv /\ ContentsInv /\ [Next]_vars => ContentsInv'
  <2> SUFFICES ASSUME IInv, RoomInv, ContentsInv, [Next]_vars PROVE ContentsInv'
    OBVIOUS
  <2>1. CASE UNCHANGED vars
    <3>1. \A q \in Requests : Sound(q)'
      BY <2>1, SoundStays DEF vars, request, record, expansion, dns, ContentsInv, Local
    <3>2. Failures'
      BY <2>1 DEF vars, request, record, expansion, dns, ContentsInv, Failures
    <3>3. QED
      BY <3>1, <3>2 DEF ContentsInv
  <2>2. QED
    BY <2>1, ContentsRequest, ContentsDNS DEF Next
<1>5. QED
  BY <1>1, <1>2, <1>3, <1>4, Invariance, PTL DEF Spec

-----------------------------------------------------------------------------
\* A record that loses a /dnsaddr has the public addresses of its expansion, all
\* of them, whatever the zone looks like and whatever happened to the lookups.
THEOREM NothingLostCorrect == Spec => []NothingLost
<1>1. ContentsInv => NothingLost
  BY DEF ContentsInv, Sound, Contents, Served, NothingLost, Working, Expanding
<1>2. QED
  BY <1>1, ContentsInvariance, PTL

\* Whatever a record gains is public, and some /dnsaddr of the record stands for
\* it, for the peer of the record, be it over any number of hops.
THEOREM OnlyOwnCorrect == Spec => []OnlyOwnAddrs
<1>1. ContentsInv => OnlyOwnAddrs
  BY DEF ContentsInv, Sound, Contents, Served, OnlyOwnAddrs
<1>2. QED
  BY <1>1, ContentsInvariance, PTL

\* A /dnsaddr survives replacement only for a cause of its own record or request.
THEOREM KeptCorrect == Spec => []KeptForCause
<1>1. ContentsInv => KeptForCause
  BY DEF ContentsInv, Sound, Contents, KeptForCause
<1>2. QED
  BY <1>1, ContentsInvariance, PTL
=============================================================================
