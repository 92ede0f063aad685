------------------------------ MODULE Endpoints ------------------------------
(***************************************************************************)
(* From the endpoint URLs of the configuration to HTTP clients: the        *)
(* expansion of autoconf.go and the collection by base URL of              *)
(* server_delegated_routing.go.                                            *)
(*                                                                         *)
(* A URL is a host and what follows it: "/routing/v1/<kind>" (the kind),   *)
(* "/", or "custom" for any other path.  The lists of URLs are sets, for   *)
(* deduplicateEndpoints sorts and compacts them before they are used.      *)
(***************************************************************************)
EXTENDS FiniteSets, Sequences, SequencesExt

CONSTANT AutoEndpoints  \* what autoconf knows: [system, kind, url], the url
                        \* with its path; system is the one that it replaces

Kinds == {"providers", "peers", "ipns"}
AutoPlaceholder == [host |-> "auto", tail |-> << >>]
EmptyURL == [host |-> "", tail |-> << >>]

HasSuffix(url, part) == url.tail # << >> /\ Last(url.tail) = part

TrimSuffix(url, part) ==
  IF HasSuffix(url, part) THEN [url EXCEPT !.tail = Front(@)] ELSE url

\* normalizeEndpointURL refuses a URL that ends in the path of another kind,
\* and cuts the path of its own; "auto" ends in neither.
Mismatched(url, kind) == \E other \in Kinds \ {kind} : HasSuffix(url, other)
normalizeEndpointURL(url, kind) == TrimSuffix(url, kind)

validateEndpointURLs(urls, kind) == {normalizeEndpointURL(u, kind) : u \in urls}

getNativeSystems(routingType) ==
  IF routingType \in {"dht", "accelerated", "standard", "auto"} THEN {"AminoDHT"} ELSE {}

\* "auto" stands for the endpoints of the systems that are not native, and for
\* nothing without autoconf.
ExpandDelegatedEndpoints(urls, autoConf, native, kind) ==
  (urls \ {AutoPlaceholder}) \cup
    IF AutoPlaceholder \in urls /\ autoConf = "loaded"
    THEN {e.url : e \in {a \in AutoEndpoints : a.kind = kind /\ a.system \notin native}}
    ELSE {}

\* Variant for AskedAsConfigured: a trailing slash hides the path.
stripSlashedPaths(urls, kind) == {TrimSuffix(u, kind) : u \in urls}

stripRoutingPaths(urls, kind) == {TrimSuffix(TrimSuffix(u, "/"), kind) : u \in urls}

\* expandDelegatedRoutingEndpoints fails on a mismatched path, and on "auto" if
\* autoconf is disabled.
ExpansionFails(urls, enabled) ==
  \/ \E k \in Kinds : \E u \in urls[k] : Mismatched(u, k)
  \/ ~enabled /\ \E k \in Kinds : AutoPlaceholder \in urls[k]

expandDelegatedRoutingEndpoints(urls, enabled, autoConf, dhtType) ==
  [k \in Kinds |->
    LET normalized == validateEndpointURLs(urls[k], k)
    IN  IF enabled
        THEN stripRoutingPaths(ExpandDelegatedEndpoints(normalized, autoConf,
                                 getNativeSystems(dhtType), k), k)
        ELSE normalized]

\* One endpoint per base URL, with the kinds of lookups it is used for.
collectEndpoints(urls) ==
  [u \in (UNION {urls[k] : k \in Kinds}) \ {EmptyURL} |-> {k \in Kinds : u \in urls[k]}]

\* The client of an endpoint joins the routers of each of its kinds.
createDelegatedHTTPRouters(urls) ==
  LET endpoints == collectEndpoints(urls)
  IN  [k \in Kinds |-> {u \in DOMAIN endpoints : k \in endpoints[u]}]

-----------------------------------------------------------------------------
(* Reference: the base that a configured URL means, however it is spelled. *)

URLs == [host : STRING, tail : Seq(STRING)]
Marks == Kinds \cup {"/"}

\* What is left without the paths and slashes at its end.
Means(url) ==
  LET Ends == {n \in 0 .. Len(url.tail) : \A i \in n + 1 .. Len(url.tail) : url.tail[i] \in Marks}
  IN  [url EXCEPT !.tail = SubSeq(@, 1, CHOOSE n \in Ends : \A m \in Ends : n <= m)]

\* A base, then at most the path of its kind, then at most one slash.
Spelled(url, kind) ==
  /\ url \in URLs
  /\ url.host \in {"", "auto"} => url.tail = << >>
  /\ \E n \in 0 .. Len(url.tail) :
       /\ \A i \in 1 .. n : url.tail[i] \notin Marks
       /\ SubSeq(url.tail, n + 1, Len(url.tail)) \in {<< >>, <<"/">>, <<kind>>, <<kind, "/">>}

ASSUME AutoEndpointsAssumption ==
  \A e \in AutoEndpoints : e.kind \in Kinds /\ e.url.host \notin {"", "auto"} /\ Spelled(e.url, e.kind)
=============================================================================
