--------------------------- MODULE MCDataService ---------------------------
(* An instance of DataService for TLC: ADSL by PPP, ADSL routed with an    *)
(* address of the same interface, 3G, and the LAN renumbered.              *)
EXTENDS DataService

Access(infra, ifname, ipaddr, gateway, dns, lan) ==
  [infra |-> infra, ifname |-> ifname, ipaddr |-> ipaddr, gateway |-> gateway,
   dns |-> dns, lan |-> lan]

MCConfigs ==
  {Access("adsl/ppp", "ppp0", "ip1", "gw1", {"dns1"}, "lan1"),
   Access("adsl/routed", "nas0", "ip2", "gw1", {"dns1", "dns2"}, "lan1"),
   Access("gprs/ppp", "ppp1", "ip3", "gw2", {"dns2"}, "lan1"),
   Access("ftth", "nas0", "ip2", "gw2", {"dns1"}, "lan2")}
=============================================================================
