------------------------------- MODULE MCServer -------------------------------
(***************************************************************************)
(* Configurations, addresses and records for Server.  A configuration      *)
(* deviates from the default in a way that some step of start looks at.    *)
(***************************************************************************)
EXTENDS Server

URL(host, tail) == [host |-> host, tail |-> tail]
Addr(proto, relay, private, bytes) ==
  [proto |-> proto, dnsaddr |-> "none", relay |-> relay, private |-> private,
   bytes |-> bytes, names |-> {}]
Name(dnsaddr, bytes, names) ==
  [Addr("dnsaddr", FALSE, FALSE, bytes) EXCEPT !.dnsaddr = dnsaddr, !.names = names]

Relay == Addr("ip4", TRUE, FALSE, 1)
DNS == Addr("dns4", FALSE, FALSE, 3)
LAN == Addr("ip4", FALSE, TRUE, 4)
IP == Addr("ip6", FALSE, FALSE, 5)
Unix == Addr("unix", FALSE, FALSE, 6)
OwnName == Name("own", 2, {4, 6})
OtherName == Name("other", 7, {5})
\* /ip4/.../dnsaddr/... : more than a host, so that no lookup can expand it.
Suffixed == [Addr("ip4", FALSE, FALSE, 8) EXCEPT !.dnsaddr = "own"]

MCAddress == {Relay, DNS, LAN, IP, Unix, OwnName, OtherName, Suffixed}
MCRecords == {<< >>, <<Relay, IP>>, <<Suffixed, OwnName, LAN, OtherName>>}
MCBooks == {<< >>, <<LAN, Relay, Unix>>}

MCAutoEndpoints == {
  [system |-> "AminoDHT", kind |-> "peers", url |-> URL("amino", <<"peers">>)],
  [system |-> "IPNI", kind |-> "providers", url |-> URL("ipni", <<"providers">>)]}

Lists(providers, peers, ipns) ==
  [k \in Kinds |-> CASE k = "providers" -> providers [] k = "peers" -> peers
                     [] k = "ipns" -> ipns]

Default == [dht |-> "disabled", cached |-> TRUE, mode |-> "append", limits |-> TRUE,
            urls |-> Lists({}, {}, {}), auto |-> TRUE, blocks |-> << >>,
            peerIDs |-> << >>, debug |-> FALSE, port |-> TRUE]

A == URL("a", << >>)
Gateway == [scheme |-> "https", path |-> FALSE, addr |-> DNS]

With(d, c, m) ==
  [Default EXCEPT !.dht = d, !.cached = c, !.mode = m, !.blocks = <<Gateway>>,
                  !.urls = Lists({A}, {}, {A})]

Wirings == {With("accelerated", TRUE, "append"), With("accelerated", FALSE, "filtered"),
            With("standard", TRUE, "filtered"), With("standard", TRUE, "never"),
            With("disabled", TRUE, "replace")}

\* These end before they listen, once the routers are there.
Tails == {<< >>, <<"/">>, <<"providers">>, <<"providers", "/">>, <<"peers">>, <<"custom">>}
Spellings ==
  {[Default EXCEPT !.port = FALSE, !.auto = on, !.dht = d,
      !.urls = Lists({URL("a", t), URL("a", u)}, {URL("a", v), AutoPlaceholder},
                     {EmptyURL, AutoPlaceholder})] :
     on \in BOOLEAN, d \in {"disabled", "standard"}, t \in Tails, u \in Tails,
     v \in {<< >>, <<"peers", "/">>}}

Mistakes == {
  [Default EXCEPT !.limits = FALSE],
  [Default EXCEPT !.mode = "invalid"],
  [Default EXCEPT !.dht = "off"],
  [Default EXCEPT !.blocks = <<Gateway, Gateway>>, !.peerIDs = <<"valid">>],
  [Default EXCEPT !.blocks = <<Gateway>>, !.peerIDs = <<"invalid">>],
  [Default EXCEPT !.blocks = <<[Gateway EXCEPT !.scheme = "http"]>>],
  [Default EXCEPT !.blocks = <<[Gateway EXCEPT !.path = TRUE]>>]}

MCConfigs == Wirings \cup Spellings \cup Mistakes
===============================================================================
