------------------------- MODULE LanTopologyProofs -------------------------
(***************************************************************************)
(* Proofs about LanTopology, for every LAN and all intervals: the loop     *)
(* never waits with a negative timeout, reads only what is there, and      *)
(* polls on time but for an interval per signal.                           *)
(***************************************************************************)
EXTENDS LanTopology, TLAPS

\* The loop starts with a whole interval to wait and nothing to read.
LEMMA InitInv == Init => IInv
  <1> SUFFICES ASSUME Init PROVE IInv
    OBVIOUS
  <1>1. Clock /\ OnTime
    BY TimesAssumption, BoundsAssumption DEF Init, Clock, OnTime
  <1>2. NeighOK
    BY TimesAssumption, BoundsAssumption DEF Init, NeighOK, States
  <1>3. PlcOK
    BY LocalAssumption DEF Init, PlcOK, Probe, Requests
  <1>4. NeverBlocks /\ ready \subseteq {"neigh", "plc", "ssdp"}
    BY DEF Init, NeverBlocks
  <1>5. faults \in 0 .. MaxFaults
    BY BoundsAssumption DEF Init
  <1> QED
    BY <1>1, <1>2, <1>3, <1>4, <1>5 DEF IInv, TypeOK

\* An entry of the kernel's table changes: one message more, or one fault.
LEMMA NotifyInv ==
  ASSUME IInv, NEW h \in Hosts, NEW old, NEW new \in States, NEW told \in States,
         Notify(h, old, new, told)
  PROVE  IInv'
  <1> USE DEF IInv, TypeOK, Notify
  <1>1. Clock' /\ OnTime'
    BY DEF clock, loop, Clock, OnTime
  <1>2. faults' \in 0 .. MaxFaults
    BY BoundsAssumption DEF Fault
  <1>3. NeighOK'
    <2>1. nlq' \in Seq([of : Hosts, state : States]) /\ Len(nlq') <= QueueLen
      <3> DEFINE M == [of : Hosts, state : States]
      <3>1. nlq \in Seq(M) /\ Len(nlq) <= QueueLen /\ Len(nlq) \in Nat
        BY DEF NeighOK
      <3>2. [of |-> h, state |-> told] \in M
        OBVIOUS
      <3>3. \/ nlq' = nlq
            \/ Len(nlq) < QueueLen /\ nlq' = Append(nlq, [of |-> h, state |-> told])
        OBVIOUS
      <3>4. ASSUME NEW m \in M, Len(nlq) < QueueLen
            PROVE  Append(nlq, m) \in Seq(M) /\ Len(Append(nlq, m)) <= QueueLen
        <4> HIDE DEF M
        <4> QED
          BY <3>1, <3>4, BoundsAssumption
      <3> QED
        BY <3>1, <3>2, <3>3, <3>4
    <2> QED
      BY <2>1 DEF NeighOK, table
  <1>4. PlcOK' /\ ready' = ready /\ mme' = mme /\ ssdp' = ssdp
        /\ pc' = pc
    BY DEF PlcOK, plc, loop, table
  <1>5. NeverBlocks'
    BY <1>4 DEF NeverBlocks
  <1> QED
    BY <1>1, <1>2, <1>3, <1>4, <1>5

\* The LAN and the kernel's table.
LEMMA EnvironmentInv ==
  ASSUME IInv, Environment \/ \E h \in Hosts : Timed(h)
  PROVE  IInv'
  <1>1. ASSUME NEW h \in Hosts, Arrive(h) \/ Leave(h) \/ Announce(h)
        PROVE  IInv'
    BY <1>1 DEF Arrive, Leave, Announce, IInv, TypeOK, Clock, NeighOK, PlcOK, NeverBlocks,
                OnTime, clock, loop, neigh, table, plc
  <1>2. ASSUME NEW p \in Plugs, PlugIn(p)
        PROVE  IInv'
    BY <1>2 DEF PlugIn, IInv, TypeOK, Clock, NeighOK, PlcOK, NeverBlocks,
                OnTime, clock, loop, neigh, table
  <1>3. ASSUME NEW h \in Hosts, Resolve(h)
        PROVE  IInv'
    BY <1>3, NotifyInv DEF Resolve, States
  <1>4. ASSUME NEW h \in Hosts, Timed(h)
        PROVE  IInv'
    <2>1. entry[h] \in States
      BY DEF IInv, TypeOK, NeighOK
    <2> QED
      BY <1>3, <1>4, <2>1, NotifyInv DEF Timed, GoStale, Forget, ProbeFails, States
  <1> QED
    BY <1>1, <1>2, <1>3, <1>4 DEF Environment

\* Requests go out, or some of them by a fault do not.
LEMMA SendInv ==
  ASSUME IInv, NEW requests \in SUBSET Requests, Send(requests)
  PROVE  asked' \subseteq Requests /\ faults' \in 0 .. MaxFaults
  BY BoundsAssumption DEF Send, Fault, IInv, TypeOK, PlcOK

\* Answers of the adapters.
LEMMA AnsweredInv ==
  ASSUME IInv, Answered
  PROVE  IInv'
  <1> PICK r \in asked : Answer(r)
    BY DEF Answered
  <1> USE DEF Answer
  <1>1. Clock' /\ OnTime' /\ NeighOK'
    BY DEF IInv, TypeOK, Clock, OnTime, NeighOK, clock, loop, neigh, table
  <1>2. faults' \in 0 .. MaxFaults
    BY BoundsAssumption DEF IInv, TypeOK, Fault
  <1>3. PlcOK'
    <2>1. r \in Requests /\ plugged \subseteq Plugs /\ mme \in Seq(Answers)
      BY DEF IInv, TypeOK, PlcOK
    <2>2. r.to \in Plugs /\ r.type \in {"info", "list"}
      BY <2>1 DEF Requests
    <2> DEFINE a == [type |-> r.type, of |-> IF r.type = "info" THEN r.to ELSE plugged \ {Local}]
    <2>3. a \in Answers
      BY <2>1, <2>2 DEF Answers
    <2>4. mme' = Append(mme, a) \/ mme' = mme
      OBVIOUS
    <2>5. mme' \in Seq(Answers)
      BY <2>1, <2>3, <2>4
    <2> QED
      BY <2>5 DEF IInv, TypeOK, PlcOK
  <1>4. NeverBlocks'
    BY DEF IInv, NeverBlocks, loop, neigh
  <1> QED
    BY <1>1, <1>2, <1>3, <1>4 DEF IInv, TypeOK, loop, table

\* Time and signals: a signal makes the wait up to an interval longer.
LEMMA ClockInv ==
  ASSUME IInv, Tick \/ Signal
  PROVE  IInv'
  <1>1. CASE Tick
    <2>1. Clock' /\ OnTime'
      BY <1>1 DEF Tick, IInv, TypeOK, Clock, OnTime, loop
    <2>2. age' \in [Hosts -> 0 .. Timeout]
      BY <1>1, TimesAssumption DEF Tick, IInv, TypeOK, NeighOK
    <2> QED
      BY <1>1, <2>1, <2>2 DEF Tick, IInv, TypeOK, NeighOK, PlcOK, NeverBlocks, loop, neigh, plc
  <1>2. CASE Signal
    <2>1. Clock'
      BY <1>2, TimesAssumption, BoundsAssumption DEF Signal, IInv, TypeOK, Clock, OnTime, loop
    <2>2. OnTime'
      <3>1. since + left <= Interval * (1 + sig) /\ nowp < Interval
            /\ since \in Nat /\ nowp \in Nat /\ left \in Nat /\ sig \in Nat /\ Interval \in Nat
        BY <1>2, TimesAssumption, BoundsAssumption DEF Signal, IInv, TypeOK, Clock, OnTime
      <3>2. Interval * (1 + (sig + 1)) = Interval * (1 + sig) + Interval
        BY <3>1
      <3>3. since + (Interval - nowp) <= Interval * (1 + (sig + 1))
        BY <3>1, <3>2
      <3> QED
        BY <1>2, <3>3 DEF Signal, IInv, OnTime, loop
    <2> QED
      BY <1>2, <2>1, <2>2 DEF Signal, IInv, TypeOK, NeighOK, PlcOK, NeverBlocks,
                              loop, neigh, table, plc
  <1> QED
    BY <1>1, <1>2

\* The loop itself: now catches up with the clock before the next wait.
LEMMA LoopInv ==
  ASSUME IInv, Wake \/ Again
  PROVE  IInv'
  <1>1. CASE Wake
    <2>1. Clock' /\ OnTime'
      BY <1>1, TimesAssumption, BoundsAssumption DEF Wake, IInv, TypeOK, Clock, OnTime
    <2>2. NeverBlocks' /\ ready' \subseteq {"neigh", "plc", "ssdp"}
      BY <1>1 DEF Wake, Readable, NeverBlocks, neigh, plc
    <2> QED
      BY <1>1, <2>1, <2>2 DEF Wake, IInv, TypeOK, NeighOK, PlcOK, neigh, table, plc
  <1>2. CASE Again
    <2>1. Clock'
      BY <1>2, TimesAssumption DEF Again, IInv, TypeOK, Clock, OnTime
    <2>2. OnTime'
      <3>1. nowp = since /\ nowp < Interval /\ nowp \in Nat /\ sig \in Nat /\ Interval \in Nat
        BY <1>2, TimesAssumption, BoundsAssumption DEF Again, IInv, TypeOK, Clock, OnTime
      <3>2. Interval * (1 + sig) = Interval + Interval * sig /\ Interval * sig \in Nat
        BY <3>1
      <3>3. since + (Interval - nowp) <= Interval * (1 + sig)
        BY <3>1, <3>2
      <3> QED
        BY <1>2, <3>1, <3>3 DEF Again, OnTime
    <2> QED
      BY <1>2, <2>1, <2>2 DEF Again, IInv, TypeOK, NeighOK, PlcOK, NeverBlocks,
                              neigh, table, plc
  <1> QED
    BY <1>1, <1>2

\* The plugins leave the clock alone and take what they read.
LEMMA PluginInv ==
  ASSUME IInv,
         neigh_poll \/ plc_poll \/ neigh_event \/ plc_event \/ \E h \in ssdp : ssdp_event(h)
  PROVE  IInv'
  <1>1. CASE neigh_poll
    <2>1. NeighOK'
      BY <1>1 DEF neigh_poll, Added, table, IInv, TypeOK, NeighOK, States
    <2>2. faults' \in 0 .. MaxFaults
      BY <1>1, BoundsAssumption DEF neigh_poll, Fault, IInv, TypeOK
    <2>3. Clock' /\ OnTime' /\ PlcOK'
      BY <1>1 DEF neigh_poll, IInv, TypeOK, Clock, OnTime, PlcOK, clock, plc
    <2>4. NeverBlocks' /\ ready' = ready
      BY <1>1, Zenon DEF neigh_poll, IInv, NeverBlocks, plc
    <2> QED
      BY <2>1, <2>2, <2>3, <2>4 DEF IInv, TypeOK
  <1>2. CASE plc_poll
    <2>1. Probe \in SUBSET Requests
      BY LocalAssumption DEF Probe, Requests
    <2>2. PlcOK' /\ faults' \in 0 .. MaxFaults
      BY <1>2, <2>1, SendInv DEF plc_poll, IInv, TypeOK, PlcOK
    <2> QED
      BY <1>2, <2>2 DEF plc_poll, IInv, TypeOK, Clock, NeighOK, NeverBlocks, OnTime,
                        clock, neigh, table
  <1>3. CASE neigh_event
    <2> DEFINE M == [of : Hosts, state : States]
    <2>1. nlq # <<>> /\ nlq \in Seq(M) /\ Len(nlq) <= QueueLen /\ nlq' = Tail(nlq)
      BY <1>3 DEF neigh_event, IInv, TypeOK, NeighOK, NeverBlocks
    <2>2. Head(nlq) \in M /\ nlq' \in Seq(M) /\ Len(nlq') <= QueueLen
      <3> HIDE DEF M
      <3> QED
        BY <2>1, BoundsAssumption
    <2>3. Head(nlq).of \in Hosts
      BY <2>2
    <2>4. known' \subseteq Hosts /\ age' \in [Hosts -> 0 .. Timeout]
      BY <1>3, <2>3, TimesAssumption DEF neigh_event, IInv, TypeOK, NeighOK
    <2>5. NeighOK'
      BY <1>3, <2>2, <2>4 DEF neigh_event, IInv, TypeOK, NeighOK
    <2>6. faults' \in 0 .. MaxFaults
      BY <1>3, BoundsAssumption DEF neigh_event, Fault, IInv, TypeOK
    <2>7. Clock' /\ OnTime' /\ PlcOK'
      BY <1>3 DEF neigh_event, IInv, TypeOK, Clock, OnTime, PlcOK, clock, plc
    <2>8. NeverBlocks' /\ ready' \subseteq {"neigh", "plc", "ssdp"}
      BY <1>3 DEF neigh_event, IInv, TypeOK, NeverBlocks, plc
    <2> QED
      BY <2>5, <2>6, <2>7, <2>8 DEF IInv, TypeOK
  <1>4. CASE plc_event
    <2>1. mme # <<>> /\ mme \in Seq(Answers)
      BY <1>4 DEF plc_event, IInv, TypeOK, PlcOK, NeverBlocks
    <2>2. Head(mme) \in Answers /\ mme' \in Seq(Answers)
      BY <1>4, <2>1 DEF plc_event
    <2>3. PlcOK' /\ faults' \in 0 .. MaxFaults
      <3>1. CASE Head(mme).type = "list"
        <4>1. Head(mme).of \in SUBSET Plugs
          BY <2>2, <3>1 DEF Answers
        <4>2. [type : {"info"}, to : Head(mme).of] \in SUBSET Requests
          BY <4>1 DEF Requests
        <4>3. Send([type : {"info"}, to : Head(mme).of]) /\ UNCHANGED <<seen, plugged>>
          BY <1>4, <3>1 DEF plc_event
        <4>4. asked' \subseteq Requests /\ faults' \in 0 .. MaxFaults
          BY <4>2, <4>3, SendInv
        <4> QED
          BY <2>2, <4>3, <4>4 DEF IInv, TypeOK, PlcOK
      <3>2. CASE Head(mme).type # "list"
        <4>1. Head(mme).of \in Plugs
          BY <2>2, <3>2 DEF Answers
        <4> QED
          BY <1>4, <2>2, <3>2, <4>1, BoundsAssumption
             DEF plc_event, Fault, IInv, TypeOK, PlcOK
      <3> QED
        BY <3>1, <3>2
    <2> QED
      BY <1>4, <2>3
         DEF plc_event, IInv, TypeOK, Clock, NeighOK, NeverBlocks, OnTime, clock, neigh, table
  <1>5. ASSUME NEW h \in ssdp, ssdp_event(h)
        PROVE  IInv'
    <2>1. NeighOK'
      BY <1>5, TimesAssumption DEF ssdp_event, IInv, TypeOK, NeighOK, neigh
    <2>2. faults' \in 0 .. MaxFaults
      BY <1>5, BoundsAssumption DEF ssdp_event, Fault, IInv, TypeOK
    <2> QED
      BY <1>5, <2>1, <2>2
         DEF ssdp_event, IInv, TypeOK, Clock, PlcOK, NeverBlocks, OnTime, clock, neigh, plc
  <1> QED
    BY <1>1, <1>2, <1>3, <1>4, <1>5

\* IInv is an invariant: whatever hosts, adapters, signals and faults there
\* are, the loop polls on time and none of its reads blocks.
THEOREM PollsOnTime == Spec => []IInv
  <1>1. IInv /\ [Next]_vars => IInv'
    <2> SUFFICES ASSUME IInv, [Next]_vars PROVE IInv'
      OBVIOUS
    <2>1. CASE UNCHANGED vars
      BY <2>1 DEF vars, IInv, TypeOK, Clock, NeighOK, PlcOK, NeverBlocks, OnTime,
                  clock, loop, neigh, table, plc
    <2>2. CASE Next
      BY <2>2, ClockInv, LoopInv, PluginInv, EnvironmentInv, AnsweredInv DEF Next, Daemon
    <2> QED
      BY <2>1, <2>2
  <1> QED
    BY <1>1, InitInv, PTL DEF Spec
=============================================================================
