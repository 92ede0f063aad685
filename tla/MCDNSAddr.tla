------------------------------ MODULE MCDNSAddr ------------------------------
(***************************************************************************)
(* A zone for DNSAddr.  For peer P "top" leads to "sub", which lists a     *)
(* private and a public address; for peer Q the two list each other, and   *)
(* more addresses than a record may gain.  Two spellings share a key.      *)
(***************************************************************************)
EXTENDS DNSAddr

At(kind, at, id) == [kind |-> kind, at |-> at, id |-> id]
Record(pid, addrs) == [pid |-> pid, addrs |-> addrs]

MCHosts == {"top", "TOP", "sub"}
MCCacheKey == [h \in MCHosts |-> IF h = "TOP" THEN "top" ELSE h]

MCZone == [k \in {"top", "sub"} |->
  IF k = "top" THEN <<At("plain", "a1", "Q"), At("dnsaddr", "sub", "none")>>
  ELSE <<At("dnsaddr", "TOP", "Q"), At("plain", "a2", "Q"), At("plain", "priv", "none"),
         At("plain", "a3", "P"), At("plain", "a4", "Q")>>]

MCRecords == {
  Record("P", <<At("plain", "a2", "none"), At("dnsaddr", "TOP", "P"),
                At("dnsaddr", "sub", "Q")>>),
  Record("Q", <<At("dnsaddr", "top", "none"), At("suffixed", "sub", "none")>>),
  Record("none", <<At("dnsaddr", "top", "none")>>)}
=============================================================================
