---------------------------- MODULE LanTopology ----------------------------
(***************************************************************************)
(* The lan-topology daemon (efixo-lan-topology): one loop around pselect   *)
(* and three plugins.                                                      *)
(*                                                                         *)
(* neigh follows the kernel's neighbour table by netlink and has a host    *)
(* that was silent for NEIGH_TIMEOUT probed by ARP; plc asks the local     *)
(* HomePlug adapter for itself and its network, and each remote station    *)
(* for itself; ssdp notes set-top boxes.  All they find goes to the nbd    *)
(* daemon, which keeps the table.                                          *)
(*                                                                         *)
(* poll_date and now are kept relative to the clock of the last poll.  A   *)
(* unit of time is long (Interval of them are POLL_INTERVAL, 300 s):       *)
(* answers come within one, a round of the loop takes none, and the LAN    *)
(* and the kernel's table change while the daemon waits.                   *)
(***************************************************************************)
EXTENDS Naturals, Sequences, FiniteSets

CONSTANTS
  Hosts,        \* hosts of the LAN
  Plugs, Local, \* HomePlug adapters; the one at the box's own port
  Interval,     \* POLL_INTERVAL
  Timeout,      \* NEIGH_TIMEOUT
  QueueLen,     \* messages the netlink socket holds
  MaxSignals,   \* bounds the signals between two polls
  MaxFaults     \* bounds what is lost, refused or fails

ASSUME TimesAssumption == Interval \in Nat \ {0} /\ Timeout \in Nat
ASSUME BoundsAssumption == QueueLen \in Nat \ {0} /\ MaxSignals \in Nat /\ MaxFaults \in Nat
ASSUME LocalAssumption == Local \in Plugs

VARIABLES
  since,   \* time since the poll that set poll_date
  nowp,    \* the variable now, on the same clock
  left,    \* what is left of the timeout given to pselect
  sig,     \* history: signals since the last poll
  pc, ready,            \* place in the loop ("dead": the daemon has crashed, and
                        \* nothing restarts it); descriptors set in _rfds
  on, entry, nlq,       \* hosts present; the kernel's entries; netlink messages
  known, age,           \* nbd's table of hosts, and time since "alive"
  plugged, asked, mme,  \* adapters present; requests and answers on the wire
  seen,                 \* nbd's table of adapters
  ssdp,                 \* senders of pending announcements
  faults                \* faults left

clock == <<since, nowp, left, sig>>
loop == <<pc, ready>>
neigh == <<on, entry, nlq>>
table == <<known, age>>
plc == <<plugged, asked, mme, seen>>
vars == <<clock, loop, neigh, table, plc, ssdp, faults>>

States == {"none", "reachable", "stale", "probe", "failed"}
Requests == [type : {"info", "list"}, to : Plugs]
Answers == [type : {"info"}, of : Plugs] \cup [type : {"list"}, of : SUBSET Plugs]

\* A read that would not block.
Readable ==
     (IF nlq # <<>> THEN {"neigh"} ELSE {})
\cup (IF mme # <<>> THEN {"plc"} ELSE {})
\cup (IF ssdp # {} THEN {"ssdp"} ELSE {})

\* mme_probe: to any local adapter, info and network list
Probe == {[type |-> "info", to |-> Local], [type |-> "list", to |-> Local]}

\* plugin_init: plc_init asks at once; nbd has its table from before
Init ==
  /\ since = 0 /\ nowp = 0 /\ left = Interval /\ sig = 0
  /\ pc = "wait" /\ ready = {}
  /\ on \in SUBSET Hosts /\ entry = [h \in Hosts |-> "none"] /\ nlq = <<>>
  /\ known \in SUBSET Hosts /\ age = [h \in Hosts |-> 0]
  /\ plugged = {} /\ asked = Probe /\ mme = <<>> /\ seen = {}
  /\ ssdp = {} /\ faults = MaxFaults

Fault == faults > 0 /\ faults' = faults - 1

----------------------------------------------------------------------------
(* The LAN and the kernel's neighbour table.                               *)

Arrive(h) ==
  /\ pc \in {"wait", "dead"} /\ h \notin on /\ on' = on \cup {h}
  /\ UNCHANGED <<clock, loop, entry, nlq, table, plc, ssdp, faults>>

Leave(h) ==
  /\ pc \in {"wait", "dead"} /\ h \in on /\ on' = on \ {h}
  /\ UNCHANGED <<clock, loop, entry, nlq, table, plc, ssdp, faults>>

\* An entry changes, and whoever listens is told the state; a full queue
\* loses the message.
Notify(h, old, new, told) ==
  /\ pc = "wait" /\ entry[h] \in old
  /\ entry' = [entry EXCEPT ![h] = new]
  /\ \/ Len(nlq) < QueueLen /\ nlq' = Append(nlq, [of |-> h, state |-> told])
        /\ UNCHANGED faults
     \/ Len(nlq) = QueueLen /\ Fault /\ UNCHANGED nlq
  /\ UNCHANGED <<clock, loop, on, table, plc, ssdp>>

Resolve(h) ==
  h \in on /\ Notify(h, {"none", "stale", "failed", "probe"}, "reachable", "reachable")

GoStale(h) == Notify(h, {"reachable"}, "stale", "stale")

ProbeFails(h) == h \notin on /\ Notify(h, {"probe"}, "failed", "failed")

\* An entry that is collected is notified with its last state.
Forget(h) == Notify(h, {"stale", "failed"}, "none", entry[h])

PlugIn(p) ==
  /\ pc = "wait" /\ p \in Plugs \ plugged /\ plugged' = plugged \cup {p}
  /\ UNCHANGED <<clock, loop, neigh, table, asked, mme, seen, ssdp, faults>>

\* A request is answered by an adapter that is there; without one, or by a
\* fault, nothing comes back.
Answer(r) ==
  /\ pc = "wait" /\ r \in asked /\ asked' = asked \ {r}
  /\ \/ /\ r.to \in plugged
        /\ mme' = Append(mme, [type |-> r.type,
                     of |-> IF r.type = "info" THEN r.to ELSE plugged \ {Local}])
        /\ UNCHANGED faults
     \/ r.to \notin plugged /\ UNCHANGED <<mme, faults>>
     \/ r.to \in plugged /\ Fault /\ UNCHANGED mme
  /\ UNCHANGED <<clock, loop, neigh, table, plugged, seen, ssdp>>

Announce(h) ==
  /\ pc = "wait" /\ h \in on \ ssdp /\ ssdp' = ssdp \cup {h}
  /\ UNCHANGED <<clock, loop, neigh, table, plc, faults>>

\* Time passes while the daemon waits and no answer is under way.
Tick ==
  /\ pc = "wait" /\ left > 0 /\ Readable = {}
  /\ asked = {} /\ \A h \in Hosts : entry[h] # "probe"
  /\ since' = since + 1 /\ left' = left - 1
  /\ age' = [h \in Hosts |-> IF h \in known /\ age[h] < Timeout THEN age[h] + 1 ELSE age[h]]
  /\ UNCHANGED <<nowp, sig, loop, neigh, known, plc, ssdp, faults>>

----------------------------------------------------------------------------
(* The loop.                                                               *)

\* EINTR: the timeout is computed again from poll_date and now, not from the
\* clock.
Signal ==
  /\ pc = "wait" /\ sig < MaxSignals
  /\ sig' = sig + 1
  /\ left' = Interval - nowp
  /\ UNCHANGED <<since, nowp, loop, neigh, table, plc, ssdp, faults>>

\* Mistake: now is read only when a poll is due.
WakeOldNow ==
  /\ pc = "wait" /\ (left = 0 \/ Readable # {})
  /\ ready' = Readable
  /\ IF since >= Interval
     THEN pc' = "poll" /\ since' = 0 /\ nowp' = 0 /\ sig' = 0
     ELSE pc' = "events" /\ UNCHANGED <<since, nowp, sig>>
  /\ left' = 0
  /\ UNCHANGED <<neigh, table, plc, ssdp, faults>>

\* pselect returns; now is read and the poll is due or not.
Wake ==
  /\ pc = "wait" /\ (left = 0 \/ Readable # {})
  /\ ready' = Readable
  /\ IF since >= Interval
     THEN pc' = "poll" /\ since' = 0 /\ nowp' = 0 /\ sig' = 0
     ELSE pc' = "events" /\ nowp' = since /\ UNCHANGED <<since, sig>>
  /\ left' = 0
  /\ UNCHANGED <<neigh, table, plc, ssdp, faults>>

\* The end of the round: to.tv_sec = poll_date - now
Again ==
  /\ pc = "events" /\ ready = {}
  /\ pc' = "wait" /\ left' = Interval - nowp
  /\ UNCHANGED <<since, nowp, sig, ready, neigh, table, plc, ssdp, faults>>

----------------------------------------------------------------------------
(* The plugins.                                                            *)

Silent == {h \in known : age[h] >= Timeout}

\* "ip neigh add" of hosts, refused where there is an entry
Added(hs) ==
  [h \in Hosts |-> IF h \in hs /\ entry[h] = "none" THEN "probe" ELSE entry[h]]

\* Mistake: the hosts that are not silent are probed.
neigh_pollAlive ==
  /\ pc = "poll" /\ pc' = "plc"
  /\ entry' = Added(known \ Silent)
  /\ UNCHANGED <<clock, ready, on, nlq, table, plc, ssdp, faults>>

\* A query that fails leaves s as it was on the stack, untested but for NULL:
\* the daemon dies of it, or goes on with whatever it finds there, which may be
\* nothing, an old table or a piece of one.
neigh_poll ==
  /\ pc = "poll"
  /\ \/ pc' = "plc" /\ entry' = Added(Silent) /\ UNCHANGED faults
     \/ Fault /\ pc' = "plc" /\ \E hs \in SUBSET Hosts : entry' = Added(hs)
     \/ Fault /\ pc' = "dead" /\ UNCHANGED entry
  /\ UNCHANGED <<clock, ready, on, nlq, table, plc, ssdp>>

\* mme_request of each; whether the write failed is not asked.
Send(requests) ==
  \/ asked' = asked \cup requests /\ UNCHANGED faults
  \/ Fault /\ \E sent \in SUBSET requests :
               sent # requests /\ asked' = asked \cup sent

plc_poll ==
  /\ pc = "plc" /\ pc' = "events"
  /\ Send(Probe)
  /\ UNCHANGED <<clock, ready, neigh, table, plugged, mme, seen, ssdp>>

\* Mistake: a failed probe is taken for a sign of life.
neigh_eventKeep ==
  /\ pc = "events" /\ "neigh" \in ready /\ ready' = ready \ {"neigh"}
  /\ nlq' = Tail(nlq)
  /\ known' = known \cup {Head(nlq).of}
  /\ age' = [age EXCEPT ![Head(nlq).of] = 0]
  /\ UNCHANGED <<clock, pc, on, entry, plc, ssdp, faults>>

\* nl_recvmsgs and my_rcv: nbd_lan_topology_update, with the null address for
\* a host that failed; an update that nbd refuses is not repeated.
neigh_event ==
  /\ pc = "events" /\ "neigh" \in ready /\ ready' = ready \ {"neigh"}
  /\ nlq' = Tail(nlq)
  /\ LET h == Head(nlq).of IN
     \/ /\ Head(nlq).state = "failed"
        /\ known' = known \ {h}
        /\ age' = [age EXCEPT ![h] = 0]
        /\ UNCHANGED faults
     \/ /\ Head(nlq).state # "failed"
        /\ known' = known \cup {h}
        /\ age' = [age EXCEPT ![h] = 0]
        /\ UNCHANGED faults
     \/ Fault /\ UNCHANGED <<known, age>>
  /\ UNCHANGED <<clock, pc, on, entry, plc, ssdp>>

\* Mistake: the stations of a network list are not asked.
plc_eventLocal ==
  /\ pc = "events" /\ "neigh" \notin ready /\ "plc" \in ready
  /\ ready' = ready \ {"plc"}
  /\ mme' = Tail(mme)
  /\ seen' = IF Head(mme).type = "list" THEN seen ELSE seen \cup {Head(mme).of}
  /\ UNCHANGED <<clock, pc, neigh, table, plugged, asked, ssdp, faults>>

\* mme_discover reads one frame: a list has every station asked, an info is
\* added to nbd's table unless nbd refuses it.
plc_event ==
  /\ pc = "events" /\ "neigh" \notin ready /\ "plc" \in ready
  /\ ready' = ready \ {"plc"}
  /\ mme' = Tail(mme)
  /\ \/ /\ Head(mme).type = "list"
        /\ Send([type : {"info"}, to : Head(mme).of])
        /\ UNCHANGED seen
     \/ /\ Head(mme).type = "info"
        /\ \/ seen' = seen \cup {Head(mme).of} /\ UNCHANGED faults
           \/ Fault /\ UNCHANGED seen
        /\ UNCHANGED asked
  /\ UNCHANGED <<clock, pc, neigh, table, plugged, ssdp>>

\* nbd_stb_add of the sender, if nbd has its address and takes it
ssdp_event(h) ==
  /\ pc = "events" /\ ready = {"ssdp"} /\ ready' = {}
  /\ h \in ssdp /\ ssdp' = ssdp \ {h}
  /\ \/ age' = (IF h \in known THEN [age EXCEPT ![h] = 0] ELSE age) /\ UNCHANGED faults
     \/ Fault /\ UNCHANGED age
  /\ UNCHANGED <<clock, pc, neigh, known, plc>>

----------------------------------------------------------------------------
Daemon ==
  \/ Wake \/ Again \/ neigh_poll \/ plc_poll \/ neigh_event \/ plc_event
  \/ \E h \in ssdp : ssdp_event(h)

Environment ==
  \/ \E h \in Hosts : Arrive(h) \/ Leave(h) \/ Resolve(h) \/ Announce(h)
  \/ \E p \in Plugs : PlugIn(p)

\* What the kernel and the adapters do of themselves
Timed(h) == GoStale(h) \/ Forget(h) \/ ProbeFails(h) \/ (entry[h] = "probe" /\ Resolve(h))
Answered == \E r \in asked : Answer(r)

Next == Tick \/ Signal \/ Daemon \/ Environment \/ Answered \/ \E h \in Hosts : Timed(h)

Fairness ==
  /\ SF_vars(Tick) /\ WF_vars(Daemon) /\ SF_vars(Answered)
  /\ \A h \in Hosts : SF_vars(Timed(h))

Spec == Init /\ [][Next]_vars /\ Fairness

----------------------------------------------------------------------------
(* Properties *)

Clock ==
  /\ since \in Nat /\ nowp \in Nat /\ left \in Nat /\ sig \in 0 .. MaxSignals
  /\ pc \in {"wait", "poll", "plc", "events", "dead"}

NeighOK ==
  /\ on \subseteq Hosts /\ known \subseteq Hosts /\ ssdp \subseteq Hosts
  /\ entry \in [Hosts -> States] /\ age \in [Hosts -> 0 .. Timeout]
  /\ nlq \in Seq([of : Hosts, state : States]) /\ Len(nlq) <= QueueLen

PlcOK ==
  /\ plugged \subseteq Plugs /\ seen \subseteq Plugs
  /\ asked \subseteq Requests /\ mme \in Seq(Answers)

TypeOK ==
  /\ Clock /\ NeighOK /\ PlcOK
  /\ ready \subseteq {"neigh", "plc", "ssdp"}
  /\ faults \in 0 .. MaxFaults

\* A handler finds what pselect promised it: no read blocks the daemon.
NeverBlocks ==
  /\ "neigh" \in ready => nlq # <<>>
  /\ "plc" \in ready => mme # <<>>
  /\ "ssdp" \in ready => ssdp # {}
  /\ pc = "wait" => ready = {}

\* The timeout given to pselect is never negative, which would end the daemon,
\* and a signal adds at most one interval to the time until the next poll.
OnTime ==
  /\ nowp < Interval /\ nowp <= since
  /\ pc = "wait" => since + left <= Interval * (1 + sig)
  /\ pc # "wait" => nowp = since

IInv == TypeOK /\ NeverBlocks /\ OnTime

\* A host that has left is eventually dropped from the table, whatever was
\* lost on the way, unless it comes back or the daemon dies of a failed query.
GoneNoticed ==
  \A h \in Hosts : h \notin on ~> (h \in on \/ h \notin known \/ pc = "dead")

\* Every adapter is found, also one that is plugged in later and remote, and
\* also if requests, answers or their entry in the table are lost: the poll asks
\* again.
PlugsFound ==
  \A p \in Plugs : {p, Local} \subseteq plugged ~> (p \in seen \/ pc = "dead")

\* A host that was silent for NEIGH_TIMEOUT does not stay so: it is heard of
\* again or dropped, although its probe may be refused, its answer be lost, and a
\* poll be made with no table or a wrong one.
SilentSettled == \A h \in Hosts : h \in Silent ~> (h \notin Silent \/ pc = "dead")
=============================================================================
