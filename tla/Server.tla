-------------------------------- MODULE Server --------------------------------
(***************************************************************************)
(* The life of the process: start of server.go, with what main.go does     *)
(* before it.  The main goroutine builds the routers from the              *)
(* configuration, waits for a signal and shuts down; the listener is a     *)
(* goroutine of its own, and requests run on the connections.  What goes   *)
(* on inside the routers is the subject of other modules; here it is which *)
(* of them a request reaches, and what becomes of the addresses of records.*)
(***************************************************************************)
EXTENDS Endpoints, Routers

CONSTANTS Requests,      \* connections, each with one request at a time
          Configs,       \* the configurations considered
          Records,       \* addresses of a record that the DHT or a client yields
          Books,         \* addresses that are known of a peer without any
          QuitCapacity

ASSUME QuitAssumption == QuitCapacity \in Nat \ {0}

ASSUME RecordsAssumption ==
  /\ Records \subseteq Seq(Address) /\ Books \subseteq Seq(Address)
  /\ \A c \in Configs : \A i \in DOMAIN c.blocks : c.blocks[i].addr \in Address

VARIABLES cfg,          \* the configuration
          pc,           \* where the main goroutine is
          exit,         \* how the process ended
          autoConf,     \* "loaded" if startAutoConf returned a configuration
          endpoints,    \* the endpoints of each kind, expanded
          dht,          \* the DHT clients that are open
          cached,       \* there is a cachedAddrBook
          blocks,       \* the routers of the block providers
          clients,      \* the HTTP clients of each kind
          routers,      \* the routers of each kind of request
          ready,        \* FullRT.Ready
          listener,     \* the goroutine of ListenAndServe
          quit,         \* signals in the channel
          conn,         \* the connections
          kind, filter, \* what the request asks for
          sent          \* the last record that a running request was sent

built == <<autoConf, endpoints, cached, blocks, clients, routers>>
request == <<conn, kind, filter, sent>>
vars == <<cfg, pc, exit, built, dht, ready, listener, quit, request>>

NoRecord == [to |-> None, at |-> "none", given |-> << >>, whole |-> {}, addrs |-> << >>]

TypeOK ==
  /\ cfg \in Configs
  /\ pc \in {"flags", "host", "autoconf", "endpoints", "dht", "blocks", "clients",
             "wire", "listen", "notify", "serve", "shutdown", "wait", "close"}
  /\ exit \in {"none", "ok", "error", "fatal", "killed"}
  /\ autoConf \in {"none", "loaded"}
  /\ dht \subseteq {"standard", "fullRT"}
  /\ cached \in BOOLEAN /\ ready \in BOOLEAN
  /\ DOMAIN endpoints = Kinds /\ DOMAIN clients = Kinds
  /\ DOMAIN routers = Kinds \cup {"closest"}
  /\ listener \in {"none", "starting", "listening", "returned"}
  /\ quit \in 0 .. QuitCapacity
  /\ conn \in [Requests -> {"idle", "accepted", "running"}]
  /\ kind \in [Requests -> Kinds \cup {"closest", "none"}]
  /\ filter \in [Requests -> {"none", "dnsaddr", "other"}]
  /\ sent.to \in Requests \cup {None}

Init ==
  /\ cfg \in Configs
  /\ pc = "flags"
  /\ exit = "none"
  /\ autoConf = "none"
  /\ endpoints = [k \in Kinds |-> {}]
  /\ dht = {}
  /\ cached = FALSE
  /\ blocks = {}
  /\ clients = [k \in Kinds |-> {}]
  /\ routers = [k \in Kinds \cup {"closest"} |-> {}]
  /\ ready = FALSE
  /\ listener = "none"
  /\ quit = 0
  /\ conn = [r \in Requests |-> "idle"]
  /\ kind = [r \in Requests |-> "none"]
  /\ filter = [r \in Requests |-> "none"]
  /\ sent = NoRecord

-----------------------------------------------------------------------------
(* Start-up.  Each step can end the process.                               *)

Alive == exit = "none"
At(step) == Alive /\ pc = step
Goes(from, to) == At(from) /\ pc' = to
Ends(how) == exit' = how
OnlyMain == UNCHANGED <<ready, listener, quit, request>>

\* main returns the error of start.
Fails ==
  /\ Ends("error")
  /\ UNCHANGED <<cfg, pc, built, dht>>
  /\ OnlyMain

FlagsValid == cfg.limits /\ cfg.mode # "invalid"

\* main generates the missing peer IDs of block providers.
PeerIDs ==
  IF cfg.peerIDs = << >> THEN [i \in DOMAIN cfg.blocks |-> "valid"] ELSE cfg.peerIDs

ParseFlags ==
  /\ Goes("flags", "host")
  /\ FlagsValid
  /\ UNCHANGED <<cfg, exit, built, dht>> /\ OnlyMain

NewHost ==
  /\ Goes("host", "autoconf")
  /\ UNCHANGED <<cfg, exit, built, dht>> /\ OnlyMain

\* An error is only logged; start goes on without an autoconf configuration.
StartAutoConf ==
  /\ Goes("autoconf", "endpoints")
  /\ autoConf' \in IF cfg.auto THEN {"none", "loaded"} ELSE {"none"}
  /\ UNCHANGED <<cfg, exit, endpoints, cached, blocks, clients, routers, dht>> /\ OnlyMain

ExpandEndpoints ==
  /\ Goes("endpoints", "dht")
  /\ ~ExpansionFails(cfg.urls, cfg.auto)
  /\ endpoints' = expandDelegatedRoutingEndpoints(cfg.urls, cfg.auto, autoConf, cfg.dht)
  /\ UNCHANGED <<cfg, exit, autoConf, cached, blocks, clients, routers, dht>> /\ OnlyMain

DHTClients ==
  CASE cfg.dht = "accelerated" -> {"standard", "fullRT"}
    [] cfg.dht = "standard" -> {"standard"}
    [] cfg.dht = "disabled" -> {}

NewDHT ==
  /\ Goes("dht", "blocks")
  /\ cfg.dht \in {"accelerated", "standard", "disabled"}
  /\ dht' = DHTClients
  /\ cached' = (cfg.cached /\ DHTClients # {})
  /\ UNCHANGED <<cfg, exit, autoConf, endpoints, blocks, clients, routers>> /\ OnlyMain

\* newHTTPBlockRouter: http only for debugging, and no path.
IsBlockProvider(b) ==
  /\ b.scheme = "https" \/ (b.scheme = "http" /\ cfg.debug)
  /\ ~b.path

BlocksValid ==
  cfg.blocks # << >> =>
    /\ Len(PeerIDs) = Len(cfg.blocks)
    /\ \A i \in DOMAIN cfg.blocks : PeerIDs[i] = "valid" /\ IsBlockProvider(cfg.blocks[i])

NewBlockRouters ==
  /\ Goes("blocks", "clients")
  /\ BlocksValid
  /\ blocks' = {Source("block", cfg.blocks[i].addr) : i \in DOMAIN cfg.blocks}
  /\ UNCHANGED <<cfg, exit, autoConf, endpoints, cached, clients, routers, dht>> /\ OnlyMain

NewClients ==
  /\ Goes("clients", "wire")
  /\ clients' = createDelegatedHTTPRouters(endpoints)
  /\ UNCHANGED <<cfg, exit, autoConf, endpoints, cached, blocks, routers, dht>> /\ OnlyMain

CombineRouters ==
  /\ Goes("wire", "listen")
  /\ routers' = Wiring(dht, cached, clients, blocks, cfg.mode)
  /\ UNCHANGED <<cfg, exit, autoConf, endpoints, cached, blocks, clients, dht>> /\ OnlyMain

\* SplitHostPort, tracing and compression; then the listener is started.
StartListener ==
  /\ Goes("listen", "notify")
  /\ cfg.port
  /\ listener' = "starting"
  /\ UNCHANGED <<cfg, exit, built, dht, ready, quit, request>>

NotifySignals ==
  /\ Goes("notify", "serve")
  /\ UNCHANGED <<cfg, exit, built, dht>> /\ OnlyMain

\* Any step may fail in a library, some fail by the configuration.
StartFails ==
  \/ At("flags") /\ ~FlagsValid /\ Fails
  \/ At("endpoints") /\ ExpansionFails(cfg.urls, cfg.auto) /\ Fails
  \/ At("blocks") /\ ~BlocksValid /\ Fails
  \/ (At("host") \/ At("dht") \/ At("clients") \/ At("wire") \/ At("listen")) /\ Fails

-----------------------------------------------------------------------------
(* The listener, the requests and the rest of the world.                   *)

OnlyRequests == UNCHANGED <<cfg, pc, exit, built, dht, ready, listener, quit>>

\* Serve refuses once Shutdown has been called.
Listens ==
  /\ Alive /\ listener = "starting" /\ pc \in {"notify", "serve"}
  /\ listener' = "listening"
  /\ UNCHANGED <<cfg, pc, exit, built, dht, ready, quit, request>>

\* The address is in use: log.Fatalf.
ListenFails ==
  /\ Alive /\ listener = "starting"
  /\ listener' = "returned"
  /\ Ends("fatal")
  /\ UNCHANGED <<cfg, pc, built, dht, ready, quit, request>>

\* ListenAndServe returns as soon as Shutdown has been called.
ListenerReturns ==
  /\ Alive /\ listener \in {"starting", "listening"}
  /\ pc \in {"shutdown", "wait"}
  /\ listener' = "returned"
  /\ UNCHANGED <<cfg, pc, exit, built, dht, ready, quit, request>>

Accepts(r) ==
  /\ Alive /\ listener = "listening" /\ conn[r] = "idle"
  /\ conn' = [conn EXCEPT ![r] = "accepted"]
  /\ OnlyRequests /\ UNCHANGED <<kind, filter, sent>>

\* The client goes, or Shutdown closes a connection that sends no request.
Disconnects(r) ==
  /\ Alive /\ conn[r] = "accepted"
  /\ conn' = [conn EXCEPT ![r] = "idle"]
  /\ OnlyRequests /\ UNCHANGED <<kind, filter, sent>>

\* withAddrFilter notes the filter of providers and peers requests only.
RequestStarts(r) ==
  /\ Alive /\ conn[r] = "accepted"
  /\ conn' = [conn EXCEPT ![r] = "running"]
  /\ \E k \in Kinds \cup {"closest"} :
       /\ kind' = [kind EXCEPT ![r] = k]
       /\ \E f \in IF k \in {"providers", "peers"} THEN {"none", "dnsaddr", "other"}
                   ELSE {"none"} :
            filter' = [filter EXCEPT ![r] = f]
  /\ OnlyRequests /\ UNCHANGED sent

\* The source of a branch: bundledDHT chooses a client for each call.
Answers(b) == IF b.at = "dht" THEN getDHT(dht, ready) ELSE b.at

\* composableRouter: the router for the kind of request; a nil one has nothing.
Asks(r) == routers[kind[r]]

\* httpBlockRouter has one record, if the gateway answers 200.
Yields(b) == IF b.at = "block" THEN {<<b.url>>} ELSE Records

\* The /dnsaddr that lookups may expand: each in full, in part, or not at all.
LooksUp(r, A) == IF Action(cfg.mode, filter[r]) = "skip" THEN {} ELSE Expandable(A)

RecordIsSent(r) ==
  /\ Alive /\ conn[r] = "running" /\ kind[r] # "ipns"
  /\ \E b \in Asks(r) : \E given \in Yields(b) :
     \E book \in IF cached /\ b.at = "dht" THEN Books ELSE {<< >>} :
     LET names == LooksUp(r, ToSet(given) \cup ToSet(book))
     IN  \E whole \in SUBSET names : \E part \in SUBSET Resolved(names \ whole) :
           sent' = [to |-> r, at |-> Answers(b), given |-> given, whole |-> whole,
                    addrs |-> Flow(b, given, kind[r], book,
                                   [action |-> Action(cfg.mode, filter[r]),
                                    whole |-> whole, part |-> part])]
  /\ OnlyRequests /\ UNCHANGED <<conn, kind, filter>>

\* The handler returns; nothing bounds the time that a slow client takes.
RequestEnds(r) ==
  /\ Alive /\ conn[r] = "running"
  /\ \/ conn' = [conn EXCEPT ![r] = "idle"]
     \/ conn' = [conn EXCEPT ![r] = "accepted"] /\ pc # "shutdown"
  /\ kind' = [kind EXCEPT ![r] = "none"]
  /\ filter' = [filter EXCEPT ![r] = "none"]
  /\ sent' = IF sent.to = r THEN NoRecord ELSE sent
  /\ OnlyRequests

\* The routing table of the accelerated client fills, or gets too old.
ReadyChanges ==
  /\ Alive /\ "fullRT" \in dht
  /\ ready' = ~ready
  /\ UNCHANGED <<cfg, pc, exit, built, dht, listener, quit, request>>

\* Variant for TypeOK: the channel takes every signal.
SignalUnbounded ==
  /\ Alive
  /\ IF pc \in {"serve", "shutdown", "wait", "close"}
     THEN quit' = quit + 1 /\ UNCHANGED exit
     ELSE Ends("killed") /\ UNCHANGED quit
  /\ UNCHANGED <<cfg, pc, built, dht, ready, listener, request>>

\* A signal kills the process until it is asked for; then the channel takes
\* it, or drops it when it is full.
Signal ==
  /\ Alive
  /\ IF pc \in {"serve", "shutdown", "wait", "close"}
     THEN quit' = (IF quit < QuitCapacity THEN quit + 1 ELSE quit) /\ UNCHANGED exit
     ELSE Ends("killed") /\ UNCHANGED quit
  /\ UNCHANGED <<cfg, pc, built, dht, ready, listener, request>>

-----------------------------------------------------------------------------
(* Shutdown.                                                               *)

ReceivesSignal ==
  /\ Goes("serve", "shutdown")
  /\ quit > 0
  /\ quit' = quit - 1
  /\ UNCHANGED <<cfg, exit, built, dht, ready, listener, request>>

\* Variant for ServiceSpec: only connections without a request are waited for.
ShutdownCutsRequests ==
  /\ Goes("shutdown", "wait")
  /\ listener # "listening"
  /\ \A r \in Requests : conn[r] # "accepted"
  /\ UNCHANGED <<cfg, exit, built, dht>> /\ OnlyMain

\* server.Shutdown has closed the listener and waits for the connections ...
ShutdownSucceeds ==
  /\ Goes("shutdown", "wait")
  /\ listener # "listening"
  /\ \A r \in Requests : conn[r] = "idle"
  /\ UNCHANGED <<cfg, exit, built, dht>> /\ OnlyMain

\* Variant for ProcessEnds: the time limit does not apply to running requests.
ShutdownTimesOutIdle ==
  /\ At("shutdown")
  /\ \E r \in Requests : conn[r] = "accepted"
  /\ Ends("fatal")
  /\ UNCHANGED <<cfg, pc, built, dht>> /\ OnlyMain

\* ... for 5 seconds at most; log.Fatalf runs no deferred call.
ShutdownTimesOut ==
  /\ At("shutdown")
  /\ \E r \in Requests : conn[r] # "idle"
  /\ Ends("fatal")
  /\ UNCHANGED <<cfg, pc, built, dht>> /\ OnlyMain

WaitsForListener ==
  /\ Goes("wait", "close")
  /\ listener = "returned"
  /\ UNCHANGED <<cfg, exit, built, dht>> /\ OnlyMain

\* bundledDHT.Close closes both, the accelerated one first, whatever the
\* errors, which are only logged.
ClosesDHT ==
  /\ At("close") /\ dht # {}
  /\ dht' = dht \ {IF "fullRT" \in dht THEN "fullRT" ELSE "standard"}
  /\ UNCHANGED <<cfg, pc, exit, built>> /\ OnlyMain

Returns ==
  /\ At("close") /\ dht = {}
  /\ Ends("ok")
  /\ UNCHANGED <<cfg, pc, built, dht>> /\ OnlyMain

-----------------------------------------------------------------------------
StartStep ==
  \/ ParseFlags \/ NewHost \/ StartAutoConf \/ ExpandEndpoints \/ NewDHT
  \/ NewBlockRouters \/ NewClients \/ CombineRouters \/ StartListener
  \/ NotifySignals \/ StartFails

ShutdownStep ==
  \/ ReceivesSignal \/ ShutdownSucceeds \/ ShutdownTimesOut \/ WaitsForListener
  \/ ClosesDHT \/ Returns

RequestStep(r) ==
  \/ Accepts(r) \/ Disconnects(r) \/ RequestStarts(r)
  \/ RecordIsSent(r) \/ RequestEnds(r)

Next ==
  \/ StartStep \/ ShutdownStep
  \/ Listens \/ ListenFails \/ ListenerReturns
  \/ \E r \in Requests : RequestStep(r)
  \/ ReadyChanges \/ Signal

Spec == Init /\ [][Next]_vars

\* The main goroutine and the listener run on.  Requests need not end, and
\* nobody has to send a signal.
FairSpec == Spec /\ WF_vars(ShutdownStep) /\ WF_vars(ListenerReturns)

-----------------------------------------------------------------------------
(* Properties.                                                             *)

\* The URLs that the operator and autoconf give for a kind of lookup.
Given(k) ==
  (cfg.urls[k] \ {AutoPlaceholder, EmptyURL}) \cup
    IF AutoPlaceholder \in cfg.urls[k] /\ autoConf = "loaded"
    THEN {e.url : e \in {a \in AutoEndpoints :
            a.kind = k /\ (a.system # "AminoDHT" \/ cfg.dht = "disabled")}}
    ELSE {}

\* They end in the path of their kind, a slash, or both.  Without autoconf start
\* does not cut slashes.
WellSpelled ==
  \A k \in Kinds : \A u \in cfg.urls[k] : Spelled(u, k) /\ (HasSuffix(u, "/") => cfg.auto)

HTTPBranches(e) == {b \in routers[e] : b.at = "http"}

\* server_delegated_routing.go, "one client per unique base URL": once start has
\* wired its routers, each kind of lookup asks the endpoints that are configured
\* for it and no other, and none of them twice, however often and in whatever
\* spelling the lists name it; all kinds share its client.
AskedAsConfigured ==
  Alive /\ pc \in {"listen", "notify", "serve"} /\ WellSpelled =>
    LET all == UNION {HTTPBranches(k) : k \in Kinds}
    IN  /\ \A k \in Kinds : {Means(b.url) : b \in HTTPBranches(k)} = {Means(u) : u \in Given(k)}
        /\ \A b, c \in all : Means(b.url) = Means(c.url) => b.url = c.url
        /\ HTTPBranches("closest") = {}

\* sanitizeRouter and "a name that resolves to an RFC1918 address would
\* otherwise be served to clients": a record of the DHT has no private address,
\* were it from the address book or the peerstore, and no resolution adds one.
Sanitized ==
  \A a \in ToSet(sent.addrs) :
    a.private => sent.at \notin {"standard", "fullRT"} /\ a \in ToSet(sent.given)

\* docs/dnsaddr-resolution.md, "a filtered request is replaced in every
\* resolving mode", from every source, those outside sanitizeRouter included: a
\* /dnsaddr is left only if it was not expanded in full, and none that names
\* another peer than its record.
FilteredIsResolved ==
  sent.to # None /\ cfg.mode # "never" /\ filter[sent.to] = "other" =>
    \A a \in ToSet(sent.addrs) : a \notin sent.whole /\ a.dnsaddr # "other"

\* sortedAddrs, "every record in a response comes out ordered the same way": the
\* same addresses are not sent in two orders, to whomever and from wherever, and
\* relays are the last resort.  Without resolution only the DHT's are ordered.
Ordered(rec) ==
  rec.at # "none" /\ (cfg.mode # "never" \/ rec.at \in {"standard", "fullRT"})
StableOrder ==
  [][Ordered(sent') =>
       /\ Ordered(sent) /\ ToSet(sent.addrs) = ToSet(sent'.addrs) => sent'.addrs = sent.addrs
       /\ \A i, j \in DOMAIN sent'.addrs :
            i < j /\ sent'.addrs[i].relay => sent'.addrs[j].relay]_sent

Phase ==
  CASE exit = "ok" -> "stopped"
    [] exit \in {"error", "fatal", "killed"} -> "aborted"
    [] exit = "none" /\ pc \in {"notify", "serve", "shutdown"} -> "serving"
    [] exit = "none" /\ pc \in {"wait", "close"} -> "closing"
    [] OTHER -> "starting"

\* CHANGELOG.md, "closes both the standard and accelerated clients before
\* someguy exits", and no request is left with a closed one or cut off by a
\* regular exit; the exceptions are aborts.
Promise == INSTANCE Service WITH
  Backends <- {"standard", "fullRT"},
  phase <- Phase,
  backends <- dht,
  active <- {r \in Requests : conn[r] = "running"}

ServiceSpec == Promise!Spec

\* "Attempt a graceful shutdown": a signal that start receives ends the process,
\* though requests may take for ever, clients keep their connections and more
\* signals come.
ProcessEnds == (pc = "serve" /\ quit > 0) ~> ~Alive
=============================================================================
