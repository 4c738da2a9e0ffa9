---------------------------- MODULE DefaultRoute ----------------------------
(***************************************************************************)
(* The default route of the box.  The scripts of the links (DHCP on wan    *)
(* and voip, PPP on adsl and gprs) publish each link's access, gateway and *)
(* status as keys of the nbd daemon and notify an event; for every event   *)
(* the daemon starts main/usr/sbin/defaultroute, which elects the best     *)
(* link under a lock, publishes net_autoconf_* and installs the route.     *)
(*                                                                         *)
(* Every "status get" and "status set" is a query of its own to the        *)
(* daemon: the link scripts, which do not take the lock, change the keys   *)
(* between two reads of defaultroute.                                      *)
(***************************************************************************)
EXTENDS Naturals, FiniteSets

CONSTANTS
  Links,     \* the links of this box, a subset of wan, voip, adsl, gprs
  Gateways,  \* the gateways a link may be given
  Scripts,   \* instances of defaultroute, one per event (bounds the events)
  None       \* no lock holder

ASSUME LinksAssumption ==
  /\ Links \subseteq {"wan", "voip", "adsl", "gprs"} /\ Links # {}
  /\ "none" \notin Gateways
ASSUME NoneAssumption == None \notin Scripts

VARIABLES
  status,    \* ..._status is up
  access,    \* ..._access
  gateway,   \* ..._gateway
  addr,      \* the links whose interface has an address
  lpc,       \* where the script of each link is
  net,       \* net_autoconf_status, _infra, _gateway
  route,     \* the kernel's default route: link and gateway
  lock,      \* /var/lock/defaultroute.lock
  pc,        \* where each instance of defaultroute is
  why,       \* the link whose event started it
  via,       \* the link it tests or has elected
  racc, rgw, \* $access and $gateway
  mustreboot,  \* autoconf's answer
  hasty      \* history: links that came up before their last event was handled,
             \* or were given another gateway while up

linkVars == <<status, access, gateway, addr, lpc>>
scriptVars == <<pc, why, via, racc, rgw>>
vars == <<linkVars, net, route, lock, scriptVars, mustreboot, hasty>>

Ppp       == {"adsl", "gprs"}
Accesses  == {"adsl", "ftth", "gprs", ""}
NoGateway == "none"
NoRoute   == [link |-> "none", gw |-> NoGateway]
\* the infra is named after the access and the kind of link
Unknown   == [access |-> "unknown", link |-> "none"]
Active(s) == pc[s] \notin {"idle", "done"}

----------------------------------------------------------------------------
(* The scripts of the links                                                *)

\* A script is started when an instance is left for the event it may notify.
MayStart(l) ==
  /\ lpc[l] = "idle"
  /\ Cardinality({m \in Links : lpc[m] # "idle"})
       < Cardinality({s \in Scripts : pc[s] = "idle"})

\* net_setup, ip-up, 3g-up: the fields; pppd has set the address before
Bound(l, g) ==
  /\ MayStart(l)
  /\ l \in Ppp => ~status[l]
  /\ gateway' = [gateway EXCEPT ![l] = g]
  /\ addr' = IF l \in Ppp THEN addr \cup {l} ELSE addr
  /\ lpc' = [lpc EXCEPT ![l] = IF l \in Ppp THEN "up" ELSE "address"]
  /\ hasty' = IF \/ status[l] /\ gateway[l] # g
                 \/ ~status[l] /\ \E s \in Scripts : Active(s) /\ why[s] = l
              THEN hasty \cup {l} ELSE hasty
  /\ UNCHANGED <<status, access, net, route, lock, scriptVars, mustreboot>>

\* ifconfig, and the test of the status: a lease that is renewed ends here
SetAddress(l) ==
  /\ lpc[l] = "address"
  /\ addr' = addr \cup {l}
  /\ lpc' = [lpc EXCEPT ![l] = IF status[l] THEN "idle"
                               ELSE IF l = "wan" THEN "access" ELSE "up"]
  /\ UNCHANGED <<status, access, gateway, net, route, lock, scriptVars, mustreboot, hasty>>

\* wan.script: the access follows from the domain of the lease, which is on the
\* list of one access (adsl_nisdomain, ftth_nisdomain) or of none
SetAccess(l) ==
  /\ lpc[l] = "access"
  /\ \/ /\ \E a \in {"adsl", "ftth"} : access' = [access EXCEPT ![l] = a]
        /\ lpc' = [lpc EXCEPT ![l] = "up"]
     \/ lpc' = [lpc EXCEPT ![l] = "idle"] /\ UNCHANGED access
  /\ UNCHANGED <<status, gateway, addr, net, route, lock, scriptVars, mustreboot, hasty>>

StatusUp(l) ==
  /\ lpc[l] = "up"
  /\ status' = [status EXCEPT ![l] = TRUE]
  /\ lpc' = [lpc EXCEPT ![l] = "notify"]
  /\ UNCHANGED <<access, gateway, addr, net, route, lock, scriptVars, mustreboot, hasty>>

\* what the kernel drops with the address of a link
Drop(l) ==
  /\ addr' = addr \ {l}
  /\ route' = IF route.link = l THEN NoRoute ELSE route

\* net_setdown, ip-down, 3g-down: the access first; pppd's interface is gone
\* before its script runs
Down(l) ==
  /\ MayStart(l)
  /\ l \in Ppp => status[l]
  /\ access' = IF l = "wan" THEN [access EXCEPT ![l] = ""] ELSE access
  /\ lpc' = [lpc EXCEPT ![l] = "clear"]
  /\ IF l \in Ppp THEN Drop(l) ELSE UNCHANGED <<addr, route>>
  /\ UNCHANGED <<status, gateway, net, lock, scriptVars, mustreboot, hasty>>

ClearGateway(l) ==
  /\ lpc[l] = "clear"
  /\ gateway' = [gateway EXCEPT ![l] = NoGateway]
  /\ lpc' = [lpc EXCEPT ![l] = IF status[l] THEN "down" ELSE "idle"]
  /\ UNCHANGED <<status, access, addr, net, route, lock, scriptVars, mustreboot, hasty>>

StatusDown(l) ==
  /\ lpc[l] = "down"
  /\ IF l \in Ppp THEN UNCHANGED <<addr, route>> ELSE Drop(l)
  /\ status' = [status EXCEPT ![l] = FALSE]
  /\ lpc' = [lpc EXCEPT ![l] = "notify"]
  /\ UNCHANGED <<access, gateway, net, lock, scriptVars, mustreboot, hasty>>

\* event notify: the daemon starts defaultroute
Notify(l) ==
  /\ lpc[l] = "notify"
  /\ \E s \in Scripts :
       /\ pc[s] = "idle"
       /\ pc' = [pc EXCEPT ![s] = "start"]
       /\ why' = [why EXCEPT ![s] = l]
  /\ lpc' = [lpc EXCEPT ![l] = "idle"]
  /\ UNCHANGED <<status, access, gateway, addr, net, route, lock, via, racc, rgw,
                 mustreboot, hasty>>

LinkStep(l) ==
  \/ SetAddress(l) \/ SetAccess(l) \/ StatusUp(l) \/ ClearGateway(l) \/ StatusDown(l) \/ Notify(l)

----------------------------------------------------------------------------
(* defaultroute                                                            *)

Prior(l) == CASE l = "wan" -> 1 [] l = "voip" -> 2 [] l = "adsl" -> 3 [] l = "gprs" -> 4

\* the link of this box tested first, and the one tested after l
BestOf(S) == CHOOSE l \in S : \A m \in S : Prior(l) <= Prior(m)
After(l)  == {m \in Links : Prior(m) > Prior(l)}

\* autoconf get mustreboot
Start(s) ==
  /\ pc[s] = "start"
  /\ pc' = [pc EXCEPT ![s] = IF mustreboot THEN "done" ELSE "lock"]
  /\ UNCHANGED <<linkVars, net, route, lock, why, via, racc, rgw, mustreboot, hasty>>

\* Mistake: the lock is not waited for
LockNoWait(s) ==
  /\ pc[s] = "lock"
  /\ lock' = s
  /\ via' = [via EXCEPT ![s] = BestOf(Links)]
  /\ pc' = [pc EXCEPT ![s] = "test"]
  /\ UNCHANGED <<linkVars, net, route, why, racc, rgw, mustreboot, hasty>>

Lock(s) ==
  /\ pc[s] = "lock" /\ lock = None
  /\ lock' = s
  /\ via' = [via EXCEPT ![s] = BestOf(Links)]
  /\ pc' = [pc EXCEPT ![s] = "test"]
  /\ UNCHANGED <<linkVars, net, route, why, racc, rgw, mustreboot, hasty>>

\* one of the tests of the status of a link
Test(s) ==
  /\ pc[s] = "test"
  /\ \/ status[via[s]] /\ pc' = [pc EXCEPT ![s] = "access"] /\ UNCHANGED via
     \/ /\ ~status[via[s]] /\ After(via[s]) # {}
        /\ via' = [via EXCEPT ![s] = BestOf(After(via[s]))]
        /\ UNCHANGED pc
     \/ /\ ~status[via[s]] /\ After(via[s]) = {}
        /\ pc' = [pc EXCEPT ![s] = "deconfigure"]
        /\ UNCHANGED via
  /\ UNCHANGED <<linkVars, net, route, lock, why, racc, rgw, mustreboot, hasty>>

\* net_autoconf_infra_..._setup: the fields of the link, one by one
ReadAccess(s) ==
  /\ pc[s] = "access"
  /\ racc' = [racc EXCEPT ![s] = access[via[s]]]
  /\ pc' = [pc EXCEPT ![s] = "gateway"]
  /\ UNCHANGED <<linkVars, net, route, lock, why, via, rgw, mustreboot, hasty>>

ReadGateway(s) ==
  /\ pc[s] = "gateway"
  /\ rgw' = [rgw EXCEPT ![s] = gateway[via[s]]]
  /\ pc' = [pc EXCEPT ![s] = "configure"]
  /\ UNCHANGED <<linkVars, net, route, lock, why, via, racc, mustreboot, hasty>>

Unlock(s) ==
  /\ lock' = None
  /\ pc' = [pc EXCEPT ![s] = "done"]
  /\ via' = [via EXCEPT ![s] = "none"]
  /\ racc' = [racc EXCEPT ![s] = ""]
  /\ rgw' = [rgw EXCEPT ![s] = NoGateway]

Infra(a, l) == [access |-> a, link |-> l]

\* net_autoconf_configure: nothing for the infra that is configured already;
\* "ip route replace" needs a gateway and an interface with an address
Configure(s) ==
  /\ pc[s] = "configure"
  /\ LET infra == Infra(racc[s], via[s]) IN
     \/ net.infra = infra /\ UNCHANGED <<net, route>>
     \/ /\ net.infra # infra
        /\ net' = [status |-> "up", infra |-> infra, gw |-> rgw[s]]
        /\ route' = IF rgw[s] # NoGateway /\ via[s] \in addr
                    THEN [link |-> via[s], gw |-> rgw[s]] ELSE route
  /\ Unlock(s)
  /\ UNCHANGED <<linkVars, why, mustreboot, hasty>>

\* Mistake: the infra is kept
DeconfigureKeepsInfra(s) ==
  /\ pc[s] = "deconfigure"
  /\ net' = [status |-> "down", infra |-> net.infra, gw |-> NoGateway]
  /\ Unlock(s)
  /\ UNCHANGED <<linkVars, route, why, mustreboot, hasty>>

\* net_autoconf_infra_deconfigure: the keys only
Deconfigure(s) ==
  /\ pc[s] = "deconfigure"
  /\ net' = [status |-> "down", infra |-> Unknown, gw |-> NoGateway]
  /\ Unlock(s)
  /\ UNCHANGED <<linkVars, route, why, mustreboot, hasty>>

Step(s) ==
  \/ Start(s) \/ Lock(s) \/ Test(s) \/ ReadAccess(s) \/ ReadGateway(s)
  \/ Configure(s) \/ Deconfigure(s)

\* autoconf has decided to reboot into another firmware
MustReboot ==
  /\ ~mustreboot /\ mustreboot' = TRUE
  /\ UNCHANGED <<linkVars, net, route, lock, scriptVars, hasty>>

\* The access of voip, adsl and gprs is set by no script: it keeps its value
\* from the daemon's initial keys (init.d/data knows "adsl/ppp" and "gprs/ppp").
Init ==
  /\ status = [l \in Links |-> FALSE]
  /\ access = [l \in Links |-> CASE l = "wan" -> "" [] l = "gprs" -> "gprs" [] OTHER -> "adsl"]
  /\ gateway = [l \in Links |-> NoGateway]
  /\ addr = {}
  /\ lpc = [l \in Links |-> "idle"]
  /\ net = [status |-> "down", infra |-> Unknown, gw |-> NoGateway]
  /\ route = NoRoute
  /\ lock = None
  /\ pc = [s \in Scripts |-> "idle"]
  /\ why = [s \in Scripts |-> "none"]
  /\ via = [s \in Scripts |-> "none"]
  /\ racc = [s \in Scripts |-> ""]
  /\ rgw = [s \in Scripts |-> NoGateway]
  /\ mustreboot = FALSE
  /\ hasty = {}

Next ==
  \/ \E l \in Links :
       \/ \E g \in Gateways : Bound(l, g)
       \/ Down(l)
       \/ LinkStep(l)
  \/ \E s \in Scripts : Step(s)
  \/ MustReboot

Spec == Init /\ [][Next]_vars

----------------------------------------------------------------------------
LinkType ==
  /\ status \in [Links -> BOOLEAN]
  /\ access \in [Links -> Accesses]
  /\ gateway \in [Links -> Gateways \cup {NoGateway}]
  /\ addr \subseteq Links
  /\ lpc \in [Links -> {"idle", "address", "access", "up", "notify", "clear", "down"}]
  /\ hasty \subseteq Links

RouteType ==
  /\ net.status \in {"up", "down"} /\ net.gw \in Gateways \cup {NoGateway}
  /\ route.link \in Links \cup {"none"} /\ route.gw \in Gateways \cup {NoGateway}

ScriptType ==
  /\ lock \in Scripts \cup {None}
  /\ pc \in [Scripts -> {"idle", "start", "lock", "test", "access", "gateway",
                         "configure", "deconfigure", "done"}]
  /\ why \in [Scripts -> Links \cup {"none"}]
  /\ via \in [Scripts -> Links \cup {"none"}]
  /\ racc \in [Scripts -> Accesses]
  /\ rgw \in [Scripts -> Gateways \cup {NoGateway}]
  /\ mustreboot \in BOOLEAN

TypeOK == LinkType /\ RouteType /\ ScriptType

Critical == {"test", "access", "gateway", "configure", "deconfigure"}

\* The instance that elects a link holds the lock, and has a link to test.
LockInv ==
  \A s \in Scripts :
    /\ pc[s] \in Critical <=> lock = s
    /\ pc[s] \in Critical => via[s] \in Links

\* A link script that publishes "up" found the link down, and vice versa.
LinkInv ==
  \A l \in Links :
    /\ lpc[l] \in {"access", "up"} => ~status[l]
    /\ lpc[l] = "down" => status[l]

UpLinks == {l \in Links : status[l]}

\* The infra that belongs to the keys as they are.
Desired ==
  IF UpLinks = {} THEN Unknown ELSE Infra(access[BestOf(UpLinks)], BestOf(UpLinks))

\* An election will begin: its event is under way or an instance waits.
Pending ==
  \/ \E l \in Links : \/ lpc[l] = "notify"
                      \/ lpc[l] \in {"clear", "down"} /\ status[l]
  \/ \E s \in Scripts : pc[s] \in {"start", "lock"}

\* What instance s has read so far is still so.
Accurate(s) ==
  /\ \A m \in Links : Prior(m) < Prior(via[s]) => ~status[m]
  /\ pc[s] \in {"access", "gateway", "configure"} => status[via[s]]
  /\ pc[s] \in {"gateway", "configure"} => racc[s] = access[via[s]]
  /\ pc[s] = "deconfigure" => UpLinks = {}

\* Unless an election will begin, the one under way is right, or the last was.
ElectionInv ==
  \/ mustreboot \/ Pending
  \/ lock = None /\ net.infra = Desired
  \/ lock \in Scripts /\ Accurate(lock)

\* No two elections are mixed, and an election whose reads the link scripts have
\* overtaken is always followed by another.
BaseInv == TypeOK /\ LockInv /\ LinkInv /\ ElectionInv

\* Instance s waits to elect, or has elected and reads the fields of its link.
Waiting(s) == pc[s] \in {"start", "lock"}
Reading(s) == pc[s] \in {"access", "gateway", "configure"}

\* A link is forgotten once the election that its "down" event asked for has
\* begun (none reads its fields) and ended (it is not the infra).
ForgottenInv ==
  \A l \in Links : ~mustreboot /\ ~status[l] /\ lpc[l] # "notify" =>
    /\ (\A s \in Scripts : Waiting(s) => why[s] # l) =>
         \A s \in Scripts : Reading(s) => via[s] # l
    /\ (\A s \in Scripts : Active(s) => why[s] # l) => net.infra.link # l

\* A link that was given its time comes up when it is forgotten, with its fields.
ComingUpInv ==
  \A l \in Links \ hasty : ~status[l] /\ lpc[l] \in {"address", "access", "up"} =>
    /\ gateway[l] # NoGateway
    /\ lpc[l] # "address" => l \in addr
    /\ \A s \in Scripts : Active(s) => why[s] # l

\* While it is up its fields stay, what has been read of them is so, and if it is
\* the infra then the gateway published and the route are its own.
UpInv ==
  \A l \in Links \ hasty : ~mustreboot /\ status[l] /\ lpc[l] \notin {"clear", "down"} =>
    /\ gateway[l] # NoGateway /\ l \in addr
    /\ net.infra.link = l => /\ net.gw = gateway[l]
                             /\ route = [link |-> l, gw |-> gateway[l]]
    /\ \A s \in Scripts : pc[s] = "configure" /\ via[s] = l => rgw[s] = gateway[l]

SpacedInv == ForgottenInv /\ ComingUpInv /\ UpInv

\* The inductive invariant: elections as above, and a link that is not taken up
\* and down faster than its events are handled is forgotten before it comes back.
IInv == BaseInv /\ SpacedInv

\* Nothing is under way.
Quiet ==
  /\ \A l \in Links : lpc[l] = "idle"
  /\ \A s \in Scripts : ~Active(s)

\* When all events have been handled, the infra that defaultroute publishes is
\* that of the best link that is up, whatever its tests and reads saw while the
\* link scripts changed the keys: a later event repairs every torn read.
Settled == Quiet /\ ~mustreboot => net.infra = Desired

\* And the gateway published and the kernel's route are those of that link, if
\* it did not come up again before its last event was handled and was not given
\* another gateway while it was up (defaultroute leaves a configured infra alone).
SpacedRoute ==
  Quiet /\ ~mustreboot /\ UpLinks # {} /\ BestOf(UpLinks) \notin hasty =>
    LET l == BestOf(UpLinks) IN
    /\ net.gw = gateway[l]
    /\ route = [link |-> l, gw |-> gateway[l]]
=============================================================================
