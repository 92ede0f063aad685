------------------------------- MODULE Routers -------------------------------
(***************************************************************************)
(* How routers are composed and what a composition does to the addresses   *)
(* of a record: combineRouters and withDNSAddrResolution of server.go, and *)
(* sanitizeRouter, dnsAddrRouter and compareAddrs of server_routers.go.    *)
(*                                                                         *)
(* A router is the set of its branches, one for each source that it asks   *)
(* in parallel: the source, "dht", "http" with the URL of its client, or   *)
(* "block", and the layers around it, the outermost first.  A nil router   *)
(* and an empty composableRouter have no branch.                           *)
(***************************************************************************)
EXTENDS Integers, Sequences, FiniteSets, SequencesExt

CONSTANTS Address,  \* [proto, dnsaddr, relay, private, bytes, names]
          None

\* proto is the first component.  dnsaddr says whether any component is a
\* /dnsaddr, and if so whether it is for the record's "own" peer or names an
\* "other" one.  names is what its expansion yields in full, by their bytes:
\* none of them a /dnsaddr, and nothing if more than a host is in it.  The bytes
\* identify an address.
ASSUME AddressAssumption ==
  \A a \in Address :
    /\ a.bytes \in Int
    /\ \A b \in Address : a.bytes = b.bytes => a = b
    /\ IsFiniteSet(a.names)
    /\ \A n \in a.names : \E b \in Address : b.bytes = n /\ b.dnsaddr = "none"

AddressAt(n) == CHOOSE a \in Address : a.bytes = n
IsDNSAddr(a) == a.dnsaddr # "none"
Expandable(A) == {a \in A : a.dnsaddr = "own" /\ a.names # {}}
Resolved(A) == UNION {{AddressAt(n) : n \in a.names} : a \in Expandable(A)}

-----------------------------------------------------------------------------
(* The order of addresses.                                                 *)

addrSortRank(a) ==
  IF a.relay THEN 4
  ELSE CASE a.proto \in {"ip4", "ip6"} -> 0
         [] a.proto \in {"dns", "dns4", "dns6"} -> 1
         [] a.proto = "dnsaddr" -> 2
         [] OTHER -> 3

compareAddrs(x, y) ==
  \/ addrSortRank(x) < addrSortRank(y)
  \/ addrSortRank(x) = addrSortRank(y) /\ x.bytes < y.bytes

\* Each address comes behind as many as are below it.
sortedAddrs(A) ==
  [i \in 1 .. Cardinality(A) |->
    CHOOSE a \in A : Cardinality({b \in A : compareAddrs(b, a)}) = i - 1]
filterPrivateMultiaddr(A) == sortedAddrs({a \in A : ~a.private})

-----------------------------------------------------------------------------
(* The layers: what each makes of the addresses of a record.               *)

\* DNSAddrResolution.action, for a request whose filter-addrs names dnsaddr,
\* does not ("other"), or is not there ("none").
Action(mode, filter) ==
  IF mode = "never" THEN "skip"
  ELSE CASE filter = "dnsaddr" -> "append"
         [] filter = "other" -> "replace"
         [] filter = "none" -> IF mode = "filtered" THEN "skip" ELSE mode

\* What the lookups for a record come to: those in look.whole were expanded in
\* full, and of what the others name look.part was found.
Gained(A, look) == Resolved(A \cap look.whole) \cup (Resolved(A \ look.whole) \cap look.part)

\* One that names another peer is dropped, and one that was expanded in full
\* makes way for what it names, unless the action is to append.
Remaining(A, look) ==
  {a \in A : a.dnsaddr # "other" /\ (look.action = "append" \/ a \notin look.whole)}

\* Variant for StableOrder: what needs no resolution passes through untouched.
resolveOnly(addrs, look) ==
  LET A == ToSet(addrs)
  IN  IF look.action = "skip" \/ ~\E a \in A : IsDNSAddr(a)
      THEN addrs
      ELSE filterPrivateMultiaddr(Remaining(A, look) \cup Gained(A, look))

resolveRecordAddrs(addrs, look) ==
  LET A == ToSet(addrs)
  IN  IF look.action = "skip" \/ ~\E a \in A : IsDNSAddr(a)
      THEN sortedAddrs(A)
      ELSE filterPrivateMultiaddr(Remaining(A, look) \cup Gained(A, look))

\* cachedRouter fills in a record without addresses from the address book or
\* the host's peerstore; FindPeers asks them first.
fromCache(addrs, kind, book) ==
  IF addrs = << >> \/ (kind = "peers" /\ book # << >>) THEN book ELSE addrs

Through(layer, addrs, kind, book, look) ==
  CASE layer = "sanitize" -> filterPrivateMultiaddr(ToSet(addrs))
    [] layer = "cached" -> fromCache(addrs, kind, book)
    [] layer = "dnsaddr" -> resolveRecordAddrs(addrs, look)

\* A record on its way from the source of a branch, through its layers, of
\* which there are three at most, to the handler.
Flow(branch, addrs, kind, book, look) ==
  LET Layer(i, as) == IF i \notin DOMAIN branch.layers THEN as
                      ELSE Through(branch.layers[i], as, kind, book, look)
  IN  Layer(1, Layer(2, Layer(3, addrs)))

-----------------------------------------------------------------------------
(* The composition.                                                        *)

Source(at, url) == [layers |-> << >>, at |-> at, url |-> url]
Wrap(layer, R) == {[b EXCEPT !.layers = <<layer>> \o @] : b \in R}

\* Variant for Sanitized: the address book is consulted behind the filter.
cachedDHTRouter(cached) ==
  LET libp2pRouter == Wrap("sanitize", {Source("dht", None)})
  IN  IF cached THEN Wrap("cached", libp2pRouter) ELSE libp2pRouter

sanitizedDHTRouter(cached) ==
  LET libp2pRouter == {Source("dht", None)}
  IN  Wrap("sanitize", IF cached THEN Wrap("cached", libp2pRouter) ELSE libp2pRouter)

withDNSAddrResolution(R, mode) == IF mode = "never" THEN R ELSE Wrap("dnsaddr", R)

\* Variant for FilteredIsResolved: only what the DHT yields is resolved.
combineUnresolved(dht, cached, clients, blocks, mode) ==
  (IF dht = {} THEN {} ELSE withDNSAddrResolution(sanitizedDHTRouter(cached), mode))
    \cup {Source("http", u) : u \in clients} \cup blocks

combineRouters(dht, cached, clients, blocks, mode) ==
  withDNSAddrResolution(
    (IF dht = {} THEN {} ELSE sanitizedDHTRouter(cached))
      \cup {Source("http", u) : u \in clients} \cup blocks, mode)

\* The routers of each endpoint of /routing/v1; GetClosestPeers is for the DHT
\* alone, and without one answered with 501.
Wiring(dht, cached, clients, blocks, mode) ==
  [providers |-> combineRouters(dht, cached, clients.providers, blocks, mode),
   peers |-> combineRouters(dht, cached, clients.peers, {}, mode),
   ipns |-> combineRouters(dht, cached, clients.ipns, {}, mode),
   closest |-> IF dht = {} THEN {}
               ELSE withDNSAddrResolution(sanitizedDHTRouter(cached), mode)]

\* bundledDHT.getDHT: the accelerated client once it is ready.
getDHT(dht, ready) == IF "fullRT" \in dht /\ ready THEN "fullRT" ELSE "standard"
=============================================================================
