---------------------------- MODULE DataService ----------------------------
(***************************************************************************)
(* The data service, main/etc/init.d/data: the netfilter rules and routes  *)
(* of the internet access.  The wrapper program runs start when the access *)
(* comes and stop when it goes.  Both read what the access is from status  *)
(* keys (net_data_...) and from nvram, each time anew, one key at a time:  *)
(* stop undoes what start would do now, not what it did then.              *)
(***************************************************************************)
EXTENDS Naturals, Sequences, FiniteSets, Bags

CONSTANTS
  Configs,   \* what the keys may say: records of infra, ifname, ipaddr,
             \* gateway, dns (a set of servers) and lan
  MaxStarts, \* bounds the starts
  MaxMoves,  \* bounds the changes under the service
  NoGateway

Fields == <<"lan", "infra", "ifname", "ipaddr", "gateway", "dns">>

FieldNames == {"lan", "infra", "ifname", "ipaddr", "gateway", "dns"}

ASSUME ConfigsAssumption ==
  \A c \in Configs :
    /\ DOMAIN c = FieldNames /\ c.gateway # NoGateway
    /\ c.infra \in {"adsl/ppp", "gprs/ppp", "adsl/routed", "ftth"}
ASSUME BoundsAssumption == MaxStarts \in Nat /\ MaxMoves \in Nat

VARIABLES
  net,       \* the keys
  adsl,      \* the pid file of the wrapper of ppp on adsl exists
  rules,     \* bag of rules: netfilter and "ip rule" keep duplicates
  mss,       \* TCPMSS rules
  drops,     \* DROP rules on the voip interface
  via,       \* the gateway of the default routes of lan_t and data_t
  dnsroutes, \* routes to dns servers: pairs of a server and a gateway
  lanroutes, \* LANs with a route in data_t
  dhcpc,     \* dhcpc of the adsl interfaces runs, and with it ppp on adsl, whose
             \* wrapper is sent a HUP wherever dhcpc is stopped or started
  upnpd, yaddns, resolv,  \* what else runs, and resolv.conf.lan
  script, pc, val,  \* the script that runs, its place, the values read
  starts,
  moves      \* history: changes of the keys while the service was not down, and
             \* of the pid file after the first start

env == <<net, adsl>>
tables == <<rules, mss, drops, via, dnsroutes, lanroutes>>
daemons == <<dhcpc, upnpd, yaddns, resolv>>
vars == <<env, tables, daemons, script, pc, val, starts, moves>>

Ppp == {"adsl/ppp", "gprs/ppp"}

\* FORWARD, OUTPUT and PREROUTING of the interface, POSTROUTING of the
\* address, "ip rule" of the address
RuleSet(c) ==
  {<<"interface", c.ifname>>, <<"snat", c.ifname, c.lan, c.ipaddr>>,
   <<"from", c.ipaddr>>}
Rules(c) == SetToBag(RuleSet(c))

Init ==
  /\ net \in Configs /\ adsl \in BOOLEAN
  /\ rules = EmptyBag /\ mss = 0 /\ drops = 0 /\ via = NoGateway
  /\ dnsroutes = {} /\ lanroutes = {}
  /\ dhcpc = TRUE /\ upnpd = FALSE /\ yaddns = FALSE /\ resolv = FALSE
  /\ script = "down" /\ pc = 0 /\ val = net /\ starts = 0 /\ moves = 0

-----------------------------------------------------------------------------
(* nbd publishes another access, or ppp on adsl starts or stops.           *)

Move(under) ==
  moves' = (IF under THEN moves + 1 ELSE moves) /\ moves' <= MaxMoves

Publish(c) ==
  /\ c # net /\ net' = c
  /\ Move(script # "down")
  /\ UNCHANGED <<adsl, tables, daemons, script, pc, val, starts>>

Ppp_adsl ==
  /\ adsl' = ~adsl
  /\ Move(starts > 0)
  /\ UNCHANGED <<net, tables, daemons, script, pc, val, starts>>

-----------------------------------------------------------------------------
(* The script                                                              *)

start ==
  /\ script = "down" /\ starts < MaxStarts
  /\ script' = "start" /\ pc' = 1 /\ starts' = starts + 1
  /\ UNCHANGED <<env, tables, daemons, val, moves>>

stop ==
  /\ script = "up"
  /\ script' = "stop" /\ pc' = 1
  /\ UNCHANGED <<env, tables, daemons, val, starts, moves>>

Read ==
  /\ pc \in 1 .. 6
  /\ val' = [val EXCEPT ![Fields[pc]] = net[Fields[pc]]]
  /\ pc' = pc + 1
  /\ UNCHANGED <<env, tables, daemons, script, starts, moves>>

\* "to break establish connections": voip traffic is dropped from a stop to the
\* next start; on adsl/routed dhcpc and ppp pause while the service is up.
KludgeStart ==
  /\ pc = 7 /\ script = "start" /\ pc' = 8
  /\ drops' = IF adsl /\ drops > 0 THEN drops - 1 ELSE drops
  /\ dhcpc' = (dhcpc /\ ~(adsl /\ val.infra = "adsl/routed"))
  /\ UNCHANGED <<env, rules, mss, via, dnsroutes, lanroutes, upnpd, yaddns, resolv,
                 script, val, starts, moves>>

KludgeStop ==
  /\ pc = 7 /\ script = "stop" /\ pc' = 8
  /\ drops' = IF adsl THEN drops + 1 ELSE drops
  /\ dhcpc' = (dhcpc \/ (adsl /\ val.infra = "adsl/routed"))
  /\ UNCHANGED <<env, rules, mss, via, dnsroutes, lanroutes, upnpd, yaddns, resolv,
                 script, val, starts, moves>>

\* A route that exists is not added again, whatever its gateway.
SetUp ==
  /\ pc = 8 /\ script = "start"
  /\ rules' = rules (+) Rules(val)
  /\ mss' = IF val.infra \in Ppp THEN mss + 1 ELSE mss
  /\ via' = IF via = NoGateway THEN val.gateway ELSE via
  /\ dnsroutes' = dnsroutes \cup
       {<<d, val.gateway>> : d \in {d \in val.dns : \A e \in dnsroutes : e[1] # d}}
  /\ lanroutes' = lanroutes \cup {val.lan}
  /\ upnpd' = TRUE /\ resolv' = TRUE
  /\ yaddns' = (val.infra # "gprs/ppp")
  /\ script' = "up" /\ pc' = 0
  /\ UNCHANGED <<env, drops, dhcpc, val, starts, moves>>

\* Mistake: the TCPMSS rule is deleted on the condition that start has.
CleanUpPpp ==
  /\ pc = 8 /\ script = "stop"
  /\ rules' = rules (-) Rules(val)
  /\ mss' = IF val.infra \in Ppp /\ mss > 0 THEN mss - 1 ELSE mss
  /\ via' = IF via = val.gateway THEN NoGateway ELSE via
  /\ dnsroutes' = dnsroutes \ (val.dns \X {val.gateway})
  /\ lanroutes' = lanroutes \ {val.lan}
  /\ upnpd' = FALSE /\ resolv' = FALSE
  /\ script' = "down" /\ pc' = 0
  /\ UNCHANGED <<env, drops, dhcpc, yaddns, val, starts, moves>>

\* Mistake: the routes are left to the next start.
CleanUpRules ==
  /\ pc = 8 /\ script = "stop"
  /\ rules' = rules (-) Rules(val)
  /\ mss' = IF mss > 0 THEN mss - 1 ELSE 0
  /\ upnpd' = FALSE /\ resolv' = FALSE
  /\ script' = "down" /\ pc' = 0
  /\ UNCHANGED <<env, drops, via, dnsroutes, lanroutes, dhcpc, yaddns, val, starts, moves>>

\* Mistake: the rules are left to go with the interface.
CleanUpRoutes ==
  /\ pc = 8 /\ script = "stop"
  /\ mss' = IF mss > 0 THEN mss - 1 ELSE 0
  /\ via' = IF via = val.gateway THEN NoGateway ELSE via
  /\ dnsroutes' = dnsroutes \ (val.dns \X {val.gateway})
  /\ lanroutes' = lanroutes \ {val.lan}
  /\ upnpd' = FALSE /\ resolv' = FALSE
  /\ script' = "down" /\ pc' = 0
  /\ UNCHANGED <<env, rules, drops, dhcpc, yaddns, val, starts, moves>>

\* A rule or route that does not exist as named is not deleted.
CleanUp ==
  /\ pc = 8 /\ script = "stop"
  /\ rules' = rules (-) Rules(val)
  /\ mss' = IF mss > 0 THEN mss - 1 ELSE 0
  /\ via' = IF via = val.gateway THEN NoGateway ELSE via
  /\ dnsroutes' = dnsroutes \ (val.dns \X {val.gateway})
  /\ lanroutes' = lanroutes \ {val.lan}
  /\ upnpd' = FALSE /\ resolv' = FALSE
  /\ script' = "down" /\ pc' = 0
  /\ UNCHANGED <<env, drops, dhcpc, yaddns, val, starts, moves>>

Next ==
  \/ \E c \in Configs : Publish(c)
  \/ Ppp_adsl
  \/ start \/ stop \/ Read \/ KludgeStart \/ KludgeStop \/ SetUp \/ CleanUp

Spec == Init /\ [][Next]_vars

-----------------------------------------------------------------------------
(* Properties *)

TypeOK ==
  /\ net \in Configs /\ adsl \in BOOLEAN /\ IsABag(rules) /\ mss \in Nat
  /\ drops \in 0 .. MaxStarts
  /\ via \in {c.gateway : c \in Configs} \cup {NoGateway}
  /\ \A e \in dnsroutes : e[2] \in {c.gateway : c \in Configs}
  /\ lanroutes \subseteq {c.lan : c \in Configs}
  /\ {dhcpc, upnpd, yaddns, resolv} \subseteq BOOLEAN
  /\ script \in {"down", "start", "up", "stop"} /\ pc \in 0 .. 8
  /\ starts \in 0 .. MaxStarts /\ moves \in 0 .. MaxMoves
  /\ DOMAIN val = FieldNames
  /\ \A f \in FieldNames : val[f] \in {c[f] : c \in Configs}

\* Where the script may be: a service that was never started is down.
PlaceInv ==
  /\ pc = 0 <=> script \in {"down", "up"}
  /\ starts = 0 => script = "down"

\* However the access changes under the service, segments are clamped by one
\* rule while start set up an access by PPP, and by none when the service is
\* down: start inserts the rule for PPP only, stop deletes it in any case.
ClampedOnce ==
  /\ mss <= 1
  /\ script = "up" => (mss = 1 <=> val.infra \in Ppp)
  /\ script \in {"down", "start"} => mss = 0

\* The kludge of the last start is through, that of its stop is to come.
Broken ==
  \/ script = "start" /\ pc = 8
  \/ script = "up"
  \/ script = "stop" /\ pc < 8

\* A change under the service leaves behind no more than one DROP rule.
DropsInv ==
  /\ drops <= 1 + moves
  /\ Broken => drops <= moves \/ ~adsl
  /\ drops <= starts
  /\ script \in {"start", "up"} \/ Broken => drops < starts

SetUpFor(c) ==
  /\ rules = Rules(c) /\ via = c.gateway
  /\ dnsroutes = c.dns \X {c.gateway} /\ lanroutes = {c.lan}
  /\ upnpd /\ resolv
  /\ yaddns <=> c.infra # "gprs/ppp"

NotSetUp ==
  /\ rules = EmptyBag /\ via = NoGateway /\ dnsroutes = {} /\ lanroutes = {}
  /\ ~upnpd /\ ~resolv

Routed(c) == adsl /\ c.infra = "adsl/routed"

\* With no change under the service: what was read is what the keys say, and
\* the tables are those of the last script that is through.
SpacedInv ==
  moves = 0 =>
    /\ script \in {"down", "start"} => NotSetUp
    /\ script \in {"up", "stop"} => SetUpFor(net)
    /\ script = "start" => \A i \in 1 .. 6 : i < pc => val[Fields[i]] = net[Fields[i]]
    /\ script \in {"up", "stop"} => \A f \in FieldNames : val[f] = net[f]
    /\ Broken => drops = 0 /\ (dhcpc <=> ~Routed(net))
    /\ ~Broken => dhcpc
    /\ script = "down" \/ (script = "stop" /\ pc = 8) =>
         drops = IF adsl /\ starts > 0 THEN 1 ELSE 0
    /\ script = "start" /\ pc < 8 => drops = IF adsl /\ starts > 1 THEN 1 ELSE 0

ServiceInv == TypeOK /\ PlaceInv /\ ClampedOnce /\ DropsInv /\ SpacedInv

\* The rules with their copies numbered; copies counts them.
Copies(B) == UNION {{r} \X (1 .. B[r]) : r \in BagToSet(B)}
copies == Cardinality(Copies(rules))

\* Either a change came since the service was last down, and pays for the rules
\* of this start, or the rules in place are those that stop will name.
LeftInv ==
  /\ IsFiniteSet(Copies(rules))
  /\ script = "down" => copies <= 3 * moves
  /\ script = "start" =>
       \/ copies + 3 <= 3 * moves
       \/ /\ copies <= 3 * moves
          /\ \A i \in 1 .. 6 : i < pc => val[Fields[i]] = net[Fields[i]]
  /\ script \in {"up", "stop"} =>
       \/ copies <= 3 * moves
       \/ /\ copies <= 3 * moves + 3
          /\ RuleSet(net) \subseteq BagToSet(rules)
          /\ \A f \in FieldNames : val[f] = net[f]

IInv == ServiceInv /\ LeftInv

\* A change under the service leaves behind no more than the rules of one
\* start: iptables keeps duplicates, but stop deletes a copy of what it names.
Contained == script = "down" => copies <= 3 * moves

\* If the keys change only while the service is down, and ppp on adsl does not
\* come or go, stop undoes exactly what start did, and what start does is for
\* the access of now.
SpacedData ==
  moves = 0 =>
    /\ script = "up" => SetUpFor(net) /\ drops = 0 /\ (dhcpc <=> ~Routed(net))
    /\ script = "down" =>
         NotSetUp /\ dhcpc /\ drops = IF adsl /\ starts > 0 THEN 1 ELSE 0
=============================================================================
