------------------------- MODULE DefaultRouteProofs -------------------------
(***************************************************************************)
(* Proofs about DefaultRoute: for any set of links, any number of events   *)
(* and any interleaving of the link scripts with defaultroute, elections   *)
(* exclude each other, and once all events have been handled the published *)
(* infra is that of the best link that is up.                              *)
(***************************************************************************)
EXTENDS DefaultRoute, TLAPS

AllLinks == {"wan", "voip", "adsl", "gprs"}

\* The order of the tests of defaultroute is a strict one.
LEMMA PriorOrder ==
  /\ \A l \in AllLinks : Prior(l) \in Nat
  /\ \A l, m \in AllLinks : Prior(l) = Prior(m) => l = m
  <1>1. Prior("wan") = 1 /\ Prior("voip") = 2 /\ Prior("adsl") = 3 /\ Prior("gprs") = 4
    BY DEF Prior
  <1>2. \A l \in AllLinks : Prior(l) \in Nat
    BY <1>1 DEF AllLinks
  <1>3. \A l, m \in AllLinks : Prior(l) = Prior(m) => l = m
    BY <1>1 DEF AllLinks
  <1> QED
    BY <1>2, <1>3

\* Some link of a set of links is tested before the others of the set.
LEMMA BestOfFacts ==
  ASSUME NEW S \in SUBSET AllLinks, S # {}
  PROVE  BestOf(S) \in S /\ \A m \in S : Prior(BestOf(S)) <= Prior(m)
  <1>1. \E l \in S : \A m \in S : Prior(l) <= Prior(m)
    <2>1. CASE "wan" \in S
      BY <2>1 DEF Prior, AllLinks
    <2>2. CASE "wan" \notin S /\ "voip" \in S
      BY <2>2 DEF Prior, AllLinks
    <2>3. CASE "wan" \notin S /\ "voip" \notin S /\ "adsl" \in S
      BY <2>3 DEF Prior, AllLinks
    <2>4. CASE "wan" \notin S /\ "voip" \notin S /\ "adsl" \notin S
      BY <2>4 DEF Prior, AllLinks
    <2> QED
      BY <2>1, <2>2, <2>3, <2>4
  <1> QED
    BY <1>1 DEF BestOf

\* A link that is up while none tested before it is up is the best one.
LEMMA FirstUpIsBest ==
  ASSUME NEW l \in Links, status[l],
         \A m \in Links : Prior(m) < Prior(l) => ~status[m]
  PROVE  UpLinks # {} /\ BestOf(UpLinks) = l
  <1>1. l \in UpLinks /\ UpLinks \in SUBSET AllLinks /\ l \in AllLinks
    BY LinksAssumption DEF UpLinks, AllLinks
  <1>2. /\ BestOf(UpLinks) \in Links /\ status[BestOf(UpLinks)]
        /\ BestOf(UpLinks) \in AllLinks
        /\ Prior(BestOf(UpLinks)) <= Prior(l)
    BY <1>1, BestOfFacts DEF UpLinks
  <1>3. Prior(BestOf(UpLinks)) = Prior(l)
    BY <1>1, <1>2, PriorOrder
  <1> QED
    BY <1>1, <1>2, <1>3, PriorOrder

\* Next to the link under test, the one tested after it has only links that were
\* tested before it.
LEMMA AfterFacts ==
  ASSUME NEW l \in Links, After(l) # {}
  PROVE  /\ BestOf(After(l)) \in Links
         /\ \A m \in Links : Prior(m) < Prior(BestOf(After(l))) => Prior(m) <= Prior(l)
  <1>1. After(l) \in SUBSET AllLinks /\ l \in AllLinks /\ Links \subseteq AllLinks
    BY LinksAssumption DEF After, AllLinks
  <1>2. /\ BestOf(After(l)) \in After(l)
        /\ \A m \in After(l) : Prior(BestOf(After(l))) <= Prior(m)
    BY <1>1, BestOfFacts
  <1> QED
    BY <1>1, <1>2, PriorOrder DEF After

\* The keys as they are decide the infra: steps that leave the status of every
\* link and the access of the links that are up alone do not change it.
LEMMA DesiredStable ==
  ASSUME status' = status, status \in [Links -> BOOLEAN],
         \A l \in Links : status[l] => access'[l] = access[l]
  PROVE  Desired' = Desired
  <1>1. UpLinks' = UpLinks
    BY DEF UpLinks
  <1>2. CASE UpLinks = {}
    BY <1>1, <1>2 DEF Desired
  <1>3. CASE UpLinks # {}
    <2>1. BestOf(UpLinks) \in Links /\ status[BestOf(UpLinks)]
      <3>1. UpLinks \in SUBSET AllLinks
        BY LinksAssumption DEF UpLinks, AllLinks
      <3> QED
        BY <1>3, <3>1, BestOfFacts DEF UpLinks
    <2>2. BestOf(UpLinks)' = BestOf(UpLinks)
      BY <1>1 DEF BestOf
    <2>3. access'[BestOf(UpLinks)] = access[BestOf(UpLinks)]
      BY <2>1
    <2> QED
      BY <1>1, <1>3, <2>2, <2>3 DEF Desired, Infra
  <1> QED
    BY <1>2, <1>3

\* At boot, with every link down, the invariant holds.
LEMMA InitBaseInv == Init => BaseInv
  <1> SUFFICES ASSUME Init PROVE BaseInv
    OBVIOUS
  <1>1. LinkType
    BY DEF Init, LinkType, Accesses, NoGateway
  <1>2. RouteType
    BY DEF Init, RouteType, NoRoute, NoGateway
  <1>3. ScriptType
    BY DEF Init, ScriptType, Accesses, NoGateway
  <1>4. LockInv
    BY NoneAssumption DEF Init, LockInv, Critical
  <1>5. LinkInv
    BY DEF Init, LinkInv
  <1>6. ElectionInv
    <2>1. UpLinks = {}
      BY DEF Init, UpLinks
    <2> QED
      BY <2>1 DEF Init, ElectionInv, Desired
  <1> QED
    BY <1>1, <1>2, <1>3, <1>4, <1>5, <1>6 DEF BaseInv, TypeOK

\* An election that nothing disturbs stays accurate.
LEMMA ElectionStable ==
  ASSUME BaseInv, status' = status, \A l \in Links : status[l] => access'[l] = access[l],
         UNCHANGED <<net, lock, pc, via, racc>>, mustreboot' = mustreboot,
         Pending => Pending'
  PROVE  ElectionInv'
  <1> USE DEF BaseInv, TypeOK
  <1>1. CASE mustreboot \/ Pending
    BY <1>1 DEF ElectionInv
  <1>2. CASE lock = None /\ net.infra = Desired
    <2>1. Desired' = Desired
      BY DesiredStable DEF LinkType
    <2> QED
      BY <1>2, <2>1 DEF ElectionInv
  <1>3. CASE lock \in Scripts /\ Accurate(lock)
    <2>1. via[lock] \in Links
      BY <1>3 DEF LockInv
    <2>2. UpLinks' = UpLinks
      BY DEF UpLinks
    <2>3. Accurate(lock)'
      BY <1>3, <2>1, <2>2 DEF Accurate
    <2> QED
      BY <1>3, <2>3 DEF ElectionInv
  <1> QED
    BY <1>1, <1>2, <1>3 DEF ElectionInv

\* A step that at most drops the route keeps the type of the published infra.
LEMMA NoRouteTyped ==
  ASSUME RouteType, net' = net, route' = route \/ route' = NoRoute
  PROVE  RouteType'
  BY DEF RouteType, NoRoute

\* The steps of the link scripts keep the invariant: while they change the keys
\* of a link that is up, its event is still to come.
LEMMA LinkSteps ==
  ASSUME BaseInv, NEW l \in Links,
         \/ \E g \in Gateways : Bound(l, g)
         \/ Down(l) \/ LinkStep(l)
  PROVE  BaseInv'
  <1> USE DEF BaseInv, TypeOK
  <1>1. ASSUME NEW g \in Gateways, Bound(l, g) PROVE BaseInv'
    <2> USE <1>1 DEF Bound, MayStart, scriptVars
    <2>1. LinkType' /\ RouteType' /\ ScriptType'
      BY DEF LinkType, RouteType, ScriptType, Ppp
    <2>2. LockInv' /\ LinkInv'
      BY DEF LockInv, LinkInv, LinkType, Ppp
    <2>3. Pending => Pending'
      BY DEF Pending, LinkType
    <2> QED
      BY <2>1, <2>2, <2>3, ElectionStable
  <1>2. ASSUME Down(l) PROVE BaseInv'
    <2> USE <1>2 DEF Down, MayStart, scriptVars
    <2>1. LinkType' /\ ScriptType'
      BY DEF LinkType, ScriptType, Ppp, Accesses, Drop
    <2>2. RouteType'
      <3>1. net' = net /\ (route' = route \/ route' = NoRoute)
        BY DEF Drop
      <3> QED
        BY <3>1, NoRouteTyped
    <2>3. LockInv' /\ LinkInv'
      BY DEF LockInv, LinkInv, LinkType
    <2>4. ElectionInv'
      <3>1. CASE status[l]
        BY <3>1 DEF ElectionInv, Pending, LinkType
      <3>2. CASE ~status[l]
        <4>1. Pending => Pending'
          BY DEF Pending, LinkType
        <4>2. \A m \in Links : status[m] => access'[m] = access[m]
          BY <3>2 DEF LinkType
        <4> QED
          BY <4>1, <4>2, ElectionStable
      <3> QED
        BY <3>1, <3>2
    <2> QED
      BY <2>1, <2>2, <2>3, <2>4
  <1>3. ASSUME SetAddress(l) PROVE BaseInv'
    <2>1. PICK v \in {"idle", "access", "up"} :
                /\ lpc' = [lpc EXCEPT ![l] = v]
                /\ v \in {"access", "up"} => ~status[l]
      <3>1. CASE status[l]
        BY <1>3, <3>1 DEF SetAddress
      <3>2. CASE ~status[l] /\ l = "wan"
        BY <1>3, <3>2 DEF SetAddress
      <3>3. CASE ~status[l] /\ l # "wan"
        BY <1>3, <3>3 DEF SetAddress
      <3> QED
        BY <3>1, <3>2, <3>3
    <2>2. /\ lpc[l] = "address" /\ addr' = addr \cup {l}
          /\ UNCHANGED <<status, access, gateway, net, route, lock, scriptVars,
                         mustreboot, hasty>>
      BY <1>3 DEF SetAddress
    <2> USE DEF scriptVars
    <2>3. LinkType' /\ RouteType' /\ ScriptType'
      BY <2>1, <2>2 DEF LinkType, RouteType, ScriptType
    <2>4. LockInv' /\ LinkInv'
      BY <2>1, <2>2 DEF LockInv, LinkInv, LinkType
    <2>5. Pending => Pending'
      BY <2>1, <2>2 DEF Pending, LinkType
    <2> QED
      BY <2>2, <2>3, <2>4, <2>5, ElectionStable
  <1>4. ASSUME SetAccess(l) PROVE BaseInv'
    <2> USE <1>4 DEF SetAccess, scriptVars
    <2>1. LinkType' /\ RouteType' /\ ScriptType'
      <3>1. LinkType'
        BY DEF LinkType, Accesses
      <3>2. RouteType' /\ ScriptType'
        BY DEF RouteType, ScriptType
      <3> QED
        BY <3>1, <3>2
    <2>2. LockInv' /\ LinkInv'
      BY DEF LockInv, LinkInv, LinkType
    <2>3. Pending => Pending'
      BY DEF Pending, LinkType
    <2>4. \A m \in Links : status[m] => access'[m] = access[m]
      BY DEF LinkInv, LinkType
    <2> QED
      BY <2>1, <2>2, <2>3, <2>4, ElectionStable
  <1>5. ASSUME StatusUp(l) PROVE BaseInv'
    <2> USE <1>5 DEF StatusUp, scriptVars
    <2>1. LinkType' /\ RouteType' /\ ScriptType'
      BY DEF LinkType, RouteType, ScriptType
    <2>2. LockInv' /\ LinkInv'
      BY DEF LockInv, LinkInv, LinkType
    <2>3. ElectionInv'
      BY DEF ElectionInv, Pending, LinkType
    <2> QED
      BY <2>1, <2>2, <2>3
  <1>6. ASSUME ClearGateway(l) PROVE BaseInv'
    <2> USE <1>6 DEF ClearGateway, scriptVars
    <2>1. LinkType' /\ RouteType' /\ ScriptType'
      BY DEF LinkType, RouteType, ScriptType
    <2>2. LockInv' /\ LinkInv'
      BY DEF LockInv, LinkInv, LinkType
    <2>3. Pending => Pending'
      BY DEF Pending, LinkType
    <2> QED
      BY <2>1, <2>2, <2>3, ElectionStable
  <1>7. ASSUME StatusDown(l) PROVE BaseInv'
    <2> USE <1>7 DEF StatusDown, scriptVars
    <2>1. LinkType' /\ ScriptType'
      BY DEF LinkType, ScriptType, Drop
    <2>2. RouteType'
      <3>1. net' = net /\ (route' = route \/ route' = NoRoute)
        BY DEF Drop
      <3> QED
        BY <3>1, NoRouteTyped
    <2>3. LockInv' /\ LinkInv'
      BY DEF LockInv, LinkInv, LinkType
    <2>4. ElectionInv'
      BY DEF ElectionInv, Pending, LinkType
    <2> QED
      BY <2>1, <2>2, <2>3, <2>4
  <1>8. ASSUME Notify(l) PROVE BaseInv'
    <2> USE <1>8 DEF Notify
    <2>1. LinkType' /\ RouteType' /\ ScriptType'
      BY DEF LinkType, RouteType, ScriptType
    <2>2. LockInv' /\ LinkInv'
      BY DEF LockInv, LinkInv, LinkType, ScriptType, Critical
    <2>3. ElectionInv'
      BY DEF ElectionInv, Pending, ScriptType
    <2> QED
      BY <2>1, <2>2, <2>3
  <1> QED
    BY <1>1, <1>2, <1>3, <1>4, <1>5, <1>6, <1>7, <1>8 DEF LinkStep

\* Before and after the election an instance changes nothing the others see.
LEMMA OuterSteps ==
  ASSUME BaseInv, NEW s \in Scripts, Start(s) \/ Lock(s)
  PROVE  BaseInv'
  <1> USE DEF BaseInv, TypeOK
  <1>1. ASSUME Start(s) PROVE BaseInv'
    <2> USE <1>1 DEF Start, linkVars
    <2>1. LinkType' /\ RouteType' /\ ScriptType'
      BY DEF LinkType, RouteType, ScriptType
    <2>2. LockInv' /\ LinkInv'
      BY DEF LockInv, LinkInv, ScriptType, Critical
    <2>3. ElectionInv'
      BY DEF ElectionInv, Pending, ScriptType
    <2> QED
      BY <2>1, <2>2, <2>3
  <1>2. ASSUME Lock(s) PROVE BaseInv'
    <2> USE <1>2 DEF Lock, linkVars
    <2>1. /\ BestOf(Links) \in Links
          /\ \A m \in Links : Prior(BestOf(Links)) <= Prior(m)
      BY LinksAssumption, BestOfFacts DEF AllLinks
    <2>2. LinkType' /\ RouteType' /\ ScriptType'
      BY <2>1 DEF LinkType, RouteType, ScriptType
    <2>3. LockInv' /\ LinkInv'
      BY <2>1, NoneAssumption DEF LockInv, LinkInv, ScriptType, Critical
    <2>4. Accurate(s)'
      <3>1. via'[s] = BestOf(Links) /\ pc'[s] = "test" /\ status' = status
        BY DEF ScriptType
      <3>2. \A m \in Links : ~(Prior(m) < Prior(BestOf(Links)))
        <4>1. Links \subseteq AllLinks
          BY LinksAssumption DEF AllLinks
        <4> QED
          BY <2>1, <4>1, PriorOrder
      <3> QED
        BY <3>1, <3>2 DEF Accurate
    <2>5. lock' = s
      OBVIOUS
    <2> QED
      BY <2>2, <2>3, <2>4, <2>5 DEF ElectionInv
  <1> QED
    BY <1>1, <1>2

\* A step inside the election that keeps what was read accurate keeps the
\* invariant: the other instances wait, and the pending ones still are.
LEMMA InnerElection ==
  ASSUME BaseInv, NEW s \in Scripts, pc[s] \in Critical,
         UNCHANGED <<linkVars, net, lock, mustreboot>>,
         NEW p \in Critical, pc' = [pc EXCEPT ![s] = p],
         Accurate(s) => Accurate(s)'
  PROVE  ElectionInv'
  <1> USE DEF BaseInv, TypeOK
  <1>1. lock = s
    BY DEF LockInv
  <1>2. Pending => Pending'
    BY DEF Pending, linkVars, ScriptType, Critical
  <1>3. CASE mustreboot \/ Pending
    BY <1>2, <1>3 DEF ElectionInv
  <1>4. CASE ~(mustreboot \/ Pending)
    <2>1. Accurate(s)
      BY <1>1, <1>4, NoneAssumption DEF ElectionInv
    <2> QED
      BY <1>1, <2>1 DEF ElectionInv
  <1> QED
    BY <1>3, <1>4

\* The tests and reads of the election keep the invariant.
LEMMA ElectionSteps ==
  ASSUME BaseInv, NEW s \in Scripts, Test(s) \/ ReadAccess(s) \/ ReadGateway(s)
  PROVE  BaseInv'
  <1> USE DEF BaseInv, TypeOK
  <1>0. pc[s] \in Critical /\ via[s] \in Links /\ lock = s
    BY DEF Test, ReadAccess, ReadGateway, LockInv, Critical
  <1>1. ASSUME Test(s) PROVE BaseInv'
    <2>0. /\ UNCHANGED <<linkVars, net, route, lock, why, racc, rgw, mustreboot, hasty>>
          /\ pc[s] = "test"
      BY <1>1 DEF Test
    <2> USE DEF linkVars
    <2>1. CASE status[via[s]]
      <3>1. pc' = [pc EXCEPT ![s] = "access"] /\ via' = via
        BY <1>1, <2>1 DEF Test
      <3>2. LinkType' /\ RouteType' /\ ScriptType'
        BY <2>0, <3>1 DEF LinkType, RouteType, ScriptType
      <3>3. LockInv' /\ LinkInv'
        BY <1>0, <2>0, <3>1 DEF LockInv, LinkInv, ScriptType, Critical
      <3>4. Accurate(s) => Accurate(s)'
        <4>1. pc'[s] = "access"
          BY <3>1 DEF ScriptType
        <4> QED
          BY <2>0, <2>1, <3>1, <4>1 DEF Accurate
      <3>5. ElectionInv'
        BY <1>0, <2>0, <3>1, <3>4, InnerElection DEF Critical
      <3> QED
        BY <3>2, <3>3, <3>5
    <2>2. CASE ~status[via[s]] /\ After(via[s]) # {}
      <3>1. via' = [via EXCEPT ![s] = BestOf(After(via[s]))] /\ pc' = pc
        BY <1>1, <2>2 DEF Test
      <3>2. /\ BestOf(After(via[s])) \in Links
            /\ \A m \in Links : Prior(m) < Prior(BestOf(After(via[s])))
                                => Prior(m) <= Prior(via[s])
        BY <1>0, <2>2, AfterFacts
      <3>3. LinkType' /\ RouteType' /\ ScriptType'
        BY <2>0, <3>1, <3>2 DEF LinkType, RouteType, ScriptType
      <3>4. LockInv' /\ LinkInv'
        BY <1>0, <2>0, <3>1, <3>2 DEF LockInv, LinkInv, ScriptType, Critical
      <3>5. Accurate(s) => Accurate(s)'
        <4>1. via'[s] = BestOf(After(via[s])) /\ pc'[s] = "test"
          BY <2>0, <3>1 DEF ScriptType
        <4>2. ASSUME Accurate(s), NEW m \in Links, Prior(m) <= Prior(via[s])
              PROVE  ~status[m]
          <5>1. Links \subseteq AllLinks
            BY LinksAssumption DEF AllLinks
          <5>2. CASE Prior(m) < Prior(via[s])
            BY <4>2, <5>2 DEF Accurate
          <5>3. CASE Prior(m) = Prior(via[s])
            BY <1>0, <2>2, <5>1, <5>3, PriorOrder
          <5> QED
            BY <1>0, <4>2, <5>1, <5>2, <5>3, PriorOrder
        <4> QED
          BY <2>0, <3>2, <4>1, <4>2 DEF Accurate
      <3>6. pc' = [pc EXCEPT ![s] = "test"]
        BY <2>0, <3>1 DEF ScriptType
      <3>7. ElectionInv'
        BY <1>0, <2>0, <3>5, <3>6, InnerElection DEF Critical
      <3> QED
        BY <3>3, <3>4, <3>7
    <2>3. CASE ~status[via[s]] /\ After(via[s]) = {}
      <3>1. pc' = [pc EXCEPT ![s] = "deconfigure"] /\ via' = via
        BY <1>1, <2>3 DEF Test
      <3>2. LinkType' /\ RouteType' /\ ScriptType'
        BY <2>0, <3>1 DEF LinkType, RouteType, ScriptType
      <3>3. LockInv' /\ LinkInv'
        BY <1>0, <2>0, <3>1 DEF LockInv, LinkInv, ScriptType, Critical
      <3>4. Accurate(s) => Accurate(s)'
        <4>1. pc'[s] = "deconfigure"
          BY <3>1 DEF ScriptType
        <4>2. ASSUME Accurate(s), NEW m \in Links PROVE ~status[m]
          <5>1. Links \subseteq AllLinks
            BY LinksAssumption DEF AllLinks
          <5>2. ~(Prior(m) > Prior(via[s]))
            BY <2>3 DEF After
          <5>3. CASE Prior(m) < Prior(via[s])
            BY <4>2, <5>3 DEF Accurate
          <5>4. CASE Prior(m) = Prior(via[s])
            BY <1>0, <2>3, <5>1, <5>4, PriorOrder
          <5> QED
            BY <1>0, <5>1, <5>2, <5>3, <5>4, PriorOrder
        <4>3. Accurate(s) => UpLinks' = {}
          BY <2>0, <4>2 DEF UpLinks
        <4> QED
          BY <2>0, <3>1, <4>1, <4>3 DEF Accurate
      <3>5. ElectionInv'
        BY <1>0, <2>0, <3>1, <3>4, InnerElection DEF Critical
      <3> QED
        BY <3>2, <3>3, <3>5
    <2> QED
      BY <2>1, <2>2, <2>3
  <1>2. ASSUME ReadAccess(s) PROVE BaseInv'
    <2> USE <1>2 DEF ReadAccess, linkVars
    <2>1. LinkType' /\ RouteType' /\ ScriptType'
      BY <1>0 DEF LinkType, RouteType, ScriptType
    <2>2. LockInv' /\ LinkInv'
      BY <1>0 DEF LockInv, LinkInv, ScriptType, Critical
    <2>3. Accurate(s) => Accurate(s)'
      <3>1. pc'[s] = "gateway" /\ racc'[s] = access[via[s]]
        BY DEF ScriptType
      <3> QED
        BY <3>1 DEF Accurate
    <2>4. ElectionInv'
      BY <1>0, <2>3, InnerElection DEF Critical
    <2> QED
      BY <2>1, <2>2, <2>4
  <1>3. ASSUME ReadGateway(s) PROVE BaseInv'
    <2> USE <1>3 DEF ReadGateway, linkVars
    <2>1. LinkType' /\ RouteType' /\ ScriptType'
      BY <1>0 DEF LinkType, RouteType, ScriptType
    <2>2. LockInv' /\ LinkInv'
      BY <1>0 DEF LockInv, LinkInv, ScriptType, Critical
    <2>3. Accurate(s) => Accurate(s)'
      <3>1. pc'[s] = "configure"
        BY DEF ScriptType
      <3> QED
        BY <3>1 DEF Accurate
    <2>4. ElectionInv'
      BY <1>0, <2>3, InnerElection DEF Critical
    <2> QED
      BY <2>1, <2>2, <2>4
  <1> QED
    BY <1>1, <1>2, <1>3

\* The end of an election: what it publishes is right, or another election is to
\* begin.
LEMMA LastSteps ==
  ASSUME BaseInv, NEW s \in Scripts, Configure(s) \/ Deconfigure(s)
  PROVE  BaseInv'
  <1> USE DEF BaseInv, TypeOK
  <1>1. /\ pc[s] \in {"configure", "deconfigure"} /\ lock = s /\ via[s] \in Links
        /\ UNCHANGED <<linkVars, why, mustreboot, hasty>> /\ Unlock(s)
    BY DEF Configure, Deconfigure, LockInv, Critical
  <1>2. LinkType'
    BY <1>1 DEF LinkType, linkVars
  <1>3. ScriptType'
    BY <1>1 DEF ScriptType, Unlock, Accesses
  <1>4. RouteType'
    <2>1. CASE Configure(s)
      <3>1. /\ net' = net \/ (net'.status = "up" /\ net'.gw = rgw[s])
            /\ route' = route \/ (route'.link = via[s] /\ route'.gw = rgw[s])
        BY <2>1 DEF Configure
      <3> QED
        BY <1>1, <3>1 DEF RouteType, ScriptType
    <2>2. CASE Deconfigure(s)
      BY <2>2 DEF Deconfigure, RouteType
    <2> QED
      BY <2>1, <2>2
  <1>5. LockInv' /\ LinkInv'
    BY <1>1, NoneAssumption DEF LockInv, LinkInv, Unlock, ScriptType, Critical, linkVars
  <1>6. ElectionInv'
    <2>1. Pending => Pending'
      BY <1>1 DEF Pending, Unlock, linkVars, ScriptType
    <2>2. CASE mustreboot \/ Pending
      BY <1>1, <2>1, <2>2 DEF ElectionInv
    <2>3. CASE ~(mustreboot \/ Pending)
      <3>1. Accurate(s)
        BY <1>1, <2>3, NoneAssumption DEF ElectionInv
      <3>2. Desired' = Desired
        BY <1>1, DesiredStable DEF LinkType, linkVars
      <3>3. net'.infra = Desired
        <4>1. CASE Configure(s)
          <5>1. net'.infra = Infra(racc[s], via[s])
            BY <4>1 DEF Configure
          <5>2. racc[s] = access[via[s]] /\ status[via[s]]
            BY <3>1, <4>1 DEF Configure, Accurate
          <5>3. UpLinks # {} /\ BestOf(UpLinks) = via[s]
            BY <1>1, <3>1, <5>2, FirstUpIsBest DEF Accurate
          <5> QED
            BY <5>1, <5>2, <5>3 DEF Desired
        <4>2. CASE Deconfigure(s)
          BY <3>1, <4>2 DEF Deconfigure, Accurate, Desired
        <4> QED
          BY <4>1, <4>2
      <3> QED
        BY <1>1, <3>2, <3>3 DEF ElectionInv, Unlock
    <2> QED
      BY <2>2, <2>3
  <1> QED
    BY <1>2, <1>3, <1>4, <1>5, <1>6

\* Every step of the system keeps what the elections rest on.
LEMMA NextBaseInv == BaseInv /\ [Next]_vars => BaseInv'
  <1> SUFFICES ASSUME BaseInv, [Next]_vars PROVE BaseInv'
    OBVIOUS
  <1>1. ASSUME NEW l \in Links,
               (\E g \in Gateways : Bound(l, g)) \/ Down(l) \/ LinkStep(l)
        PROVE  BaseInv'
    BY <1>1, LinkSteps
  <1>2. ASSUME NEW s \in Scripts, Step(s) PROVE BaseInv'
    BY <1>2, OuterSteps, ElectionSteps, LastSteps DEF Step
  <1>3. CASE MustReboot
    <2>1. LinkType' /\ RouteType' /\ ScriptType'
      BY <1>3 DEF MustReboot, linkVars, scriptVars, BaseInv, TypeOK, LinkType, RouteType,
                  ScriptType
    <2>2. LockInv' /\ LinkInv'
      BY <1>3 DEF MustReboot, linkVars, scriptVars, BaseInv, LockInv, LinkInv
    <2>3. ElectionInv'
      BY <1>3 DEF MustReboot, ElectionInv
    <2> QED
      BY <2>1, <2>2, <2>3 DEF BaseInv, TypeOK
  <1>4. CASE UNCHANGED vars
    <2>1. LinkType' /\ RouteType' /\ ScriptType'
      BY <1>4 DEF vars, linkVars, scriptVars, BaseInv, TypeOK, LinkType, RouteType,
                  ScriptType
    <2>2. LockInv' /\ LinkInv'
      BY <1>4 DEF vars, linkVars, scriptVars, BaseInv, LockInv, LinkInv
    <2>3. ElectionInv'
      <3>1. Pending => Pending'
        BY <1>4 DEF vars, linkVars, scriptVars, Pending
      <3> QED
        BY <1>4, <3>1, ElectionStable DEF vars, linkVars, scriptVars
    <2> QED
      BY <2>1, <2>2, <2>3 DEF BaseInv, TypeOK
  <1> QED
    BY <1>1, <1>2, <1>3, <1>4 DEF Next

----------------------------------------------------------------------------
(* A link that is given its time                                           *)

\* A step that neither takes a link down nor starts or moves an election forgets
\* no link, and remembers none.
LEMMA ForgottenStable ==
  ASSUME ForgottenInv, UNCHANGED <<net, pc, why, via, mustreboot>>,
         \A l \in Links : ~status'[l] /\ lpc'[l] # "notify"
                          => ~status[l] /\ lpc[l] # "notify"
  PROVE  ForgottenInv'
  BY DEF ForgottenInv, Waiting, Reading, Active

\* No step brings back a link before the election of its event has ended.
LEMMA NextForgottenInv ==
  BaseInv /\ ForgottenInv /\ [Next]_vars => ForgottenInv'
  <1> SUFFICES ASSUME BaseInv, ForgottenInv, [Next]_vars PROVE ForgottenInv'
    OBVIOUS
  <1> USE DEF BaseInv, TypeOK, scriptVars, linkVars
  <1>0. "none" \notin Links
    BY LinksAssumption
  <1>1. ASSUME NEW k \in Links, NEW g \in Gateways, Bound(k, g) PROVE ForgottenInv'
    BY <1>1, ForgottenStable DEF Bound, MayStart, LinkType
  <1>2. ASSUME NEW k \in Links, Down(k) PROVE ForgottenInv'
    BY <1>2, ForgottenStable DEF Down, MayStart, LinkType
  <1>3. ASSUME NEW k \in Links, SetAddress(k) PROVE ForgottenInv'
    BY <1>3, ForgottenStable DEF SetAddress, LinkType
  <1>4. ASSUME NEW k \in Links, SetAccess(k) PROVE ForgottenInv'
    BY <1>4, ForgottenStable DEF SetAccess, LinkType
  <1>5. ASSUME NEW k \in Links, StatusUp(k) PROVE ForgottenInv'
    BY <1>5, ForgottenStable DEF StatusUp, LinkType
  <1>6. ASSUME NEW k \in Links, ClearGateway(k) PROVE ForgottenInv'
    BY <1>6, ForgottenStable DEF ClearGateway, LinkType
  <1>7. ASSUME NEW k \in Links, StatusDown(k) PROVE ForgottenInv'
    BY <1>7, ForgottenStable DEF StatusDown, LinkType
  <1>8. ASSUME NEW k \in Links, Notify(k) PROVE ForgottenInv'
    <2>1. PICK s \in Scripts : /\ pc[s] = "idle"
                               /\ pc' = [pc EXCEPT ![s] = "start"]
                               /\ why' = [why EXCEPT ![s] = k]
      BY <1>8 DEF Notify
    <2>2. UNCHANGED <<net, status, via, mustreboot>> /\ lpc' = [lpc EXCEPT ![k] = "idle"]
      BY <1>8 DEF Notify
    <2> SUFFICES ASSUME NEW l \in Links, ~mustreboot, ~status[l], lpc'[l] # "notify"
                 PROVE  /\ (\A t \in Scripts : Waiting(t)' => why'[t] # l) =>
                             \A t \in Scripts : Reading(t)' => via'[t] # l
                        /\ (\A t \in Scripts : Active(t)' => why'[t] # l) =>
                             net'.infra.link # l
      BY <2>2 DEF ForgottenInv
    <2>3. pc'[s] = "start" /\ why'[s] = k
      BY <2>1 DEF ScriptType
    <2>4. CASE l = k
      BY <2>3, <2>4 DEF Waiting, Active
    <2>5. CASE l # k
      <3>1. lpc[l] # "notify"
        BY <2>2, <2>5 DEF LinkType
      <3>2. \A t \in Scripts : t # s => pc'[t] = pc[t] /\ why'[t] = why[t]
        BY <2>1 DEF ScriptType
      <3> QED
        BY <2>1, <2>2, <2>3, <3>1, <3>2 DEF ForgottenInv, Waiting, Reading, Active
    <2> QED
      BY <2>4, <2>5
  <1>9. ASSUME NEW s \in Scripts, Start(s) PROVE ForgottenInv'
    BY <1>9 DEF Start, ForgottenInv, Waiting, Reading, Active, ScriptType
  <1>10. ASSUME NEW s \in Scripts, Lock(s) PROVE ForgottenInv'
    <2>1. /\ pc[s] = "lock" /\ pc' = [pc EXCEPT ![s] = "test"]
          /\ UNCHANGED <<net, status, lpc, why, mustreboot>>
      BY <1>10 DEF Lock
    <2>2. \A t \in Scripts : ~Reading(t)'
      BY <1>10, <2>1, NoneAssumption DEF Lock, LockInv, Critical, Reading, ScriptType
    <2>3. \A t \in Scripts : Active(t)' <=> Active(t)
      BY <2>1 DEF Active, ScriptType
    <2> QED
      BY <2>1, <2>2, <2>3 DEF ForgottenInv
  <1>11. ASSUME NEW s \in Scripts, Test(s) PROVE ForgottenInv'
    <2>1. /\ pc[s] = "test"
          /\ UNCHANGED <<net, status, lpc, why, mustreboot>>
          /\ \A t \in Scripts : t # s => pc'[t] = pc[t] /\ via'[t] = via[t]
      BY <1>11 DEF Test, ScriptType
    <2>2. /\ pc'[s] \in {"test", "access", "deconfigure"}
          /\ pc'[s] = "access" => via'[s] = via[s] /\ status[via[s]]
      BY <1>11 DEF Test, ScriptType
    <2>3. \A t \in Scripts : (Active(t)' <=> Active(t)) /\ (Waiting(t)' <=> Waiting(t))
      BY <2>1, <2>2 DEF Active, Waiting
    <2>4. \A t \in Scripts : Reading(t)' => \/ Reading(t) /\ via'[t] = via[t]
                                           \/ status[via'[t]]
      BY <2>1, <2>2 DEF Reading
    <2> QED
      BY <2>1, <2>3, <2>4 DEF ForgottenInv
  <1>12. ASSUME NEW s \in Scripts, ReadAccess(s) PROVE ForgottenInv'
    BY <1>12 DEF ReadAccess, ForgottenInv, Waiting, Reading, Active, ScriptType
  <1>13. ASSUME NEW s \in Scripts, ReadGateway(s) PROVE ForgottenInv'
    BY <1>13 DEF ReadGateway, ForgottenInv, Waiting, Reading, Active, ScriptType
  <1>14. ASSUME NEW s \in Scripts, Configure(s) \/ Deconfigure(s) PROVE ForgottenInv'
    <2>1. /\ pc[s] \in {"configure", "deconfigure"} /\ pc'[s] = "done"
          /\ UNCHANGED <<status, lpc, why, mustreboot>>
          /\ \A t \in Scripts : t # s => pc'[t] = pc[t] /\ via'[t] = via[t]
      BY <1>14 DEF Configure, Deconfigure, Unlock, ScriptType
    <2>2. /\ pc[s] = "configure" => net'.infra.link = via[s]
          /\ pc[s] = "deconfigure" => net'.infra.link = "none"
      <3>1. ASSUME Configure(s) PROVE net'.infra.link = via[s] /\ pc[s] = "configure"
        <4>1. Infra(racc[s], via[s]).link = via[s]
          BY DEF Infra
        <4>2. net'.infra = Infra(racc[s], via[s])
          BY <3>1 DEF Configure
        <4> QED
          BY <3>1, <4>1, <4>2 DEF Configure
      <3>2. ASSUME Deconfigure(s) PROVE net'.infra.link = "none" /\ pc[s] = "deconfigure"
        BY <3>2 DEF Deconfigure, Unknown
      <3> QED
        BY <1>14, <3>1, <3>2
    <2> SUFFICES ASSUME NEW l \in Links, ~mustreboot, ~status[l], lpc[l] # "notify"
                 PROVE  /\ (\A t \in Scripts : Waiting(t)' => why[t] # l) =>
                             \A t \in Scripts : Reading(t)' => via'[t] # l
                        /\ (\A t \in Scripts : Active(t)' => why[t] # l) =>
                             net'.infra.link # l
      BY <2>1 DEF ForgottenInv
    <2>3. (\A t \in Scripts : Waiting(t) => why[t] # l) =>
            \A t \in Scripts : Reading(t) => via[t] # l
      BY DEF ForgottenInv
    <2>4. ASSUME \A t \in Scripts : Active(t)' => why[t] # l PROVE net'.infra.link # l
      <3>1. \A t \in Scripts : Waiting(t) => why[t] # l
        BY <2>1, <2>4 DEF Waiting, Active
      <3>2. pc[s] = "configure" => via[s] # l
        BY <2>3, <3>1 DEF Reading
      <3> QED
        BY <1>0, <2>1, <2>2, <3>2
    <2>5. ASSUME \A t \in Scripts : Waiting(t)' => why[t] # l,
                 NEW t \in Scripts, Reading(t)'
          PROVE  via'[t] # l
      <3>1. \A u \in Scripts : Waiting(u) => why[u] # l
        BY <2>1, <2>5 DEF Waiting
      <3>2. Reading(t) /\ via'[t] = via[t]
        BY <2>1, <2>5 DEF Reading
      <3> QED
        BY <2>3, <3>1, <3>2
    <2> QED
      BY <2>4, <2>5
  <1>15. CASE MustReboot
    BY <1>15 DEF MustReboot, ForgottenInv
  <1>16. CASE UNCHANGED vars
    BY <1>16, ForgottenStable DEF vars
  <1> QED
    BY <1>1, <1>2, <1>3, <1>4, <1>5, <1>6, <1>7, <1>8, <1>9, <1>10, <1>11, <1>12, <1>13,
       <1>14, <1>15, <1>16 DEF Next, LinkStep, Step

\* A link that was given its time keeps being given it until it is up: no event of
\* its own is handled meanwhile, and its fields are set.
LEMMA NextComingUpInv ==
  BaseInv /\ ComingUpInv /\ [Next]_vars => ComingUpInv'
  <1> SUFFICES ASSUME BaseInv, ComingUpInv, [Next]_vars PROVE ComingUpInv'
    OBVIOUS
  <1> USE DEF BaseInv, TypeOK, scriptVars, linkVars
  <1>1. ASSUME NEW k \in Links, NEW g \in Gateways, Bound(k, g) PROVE ComingUpInv'
    <2> USE <1>1 DEF Bound, MayStart
    <2> SUFFICES ASSUME NEW l \in Links \ hasty', ~status[l],
                        lpc'[l] \in {"address", "access", "up"}
                 PROVE  /\ gateway'[l] # NoGateway
                        /\ lpc'[l] # "address" => l \in addr'
                        /\ \A s \in Scripts : Active(s) => why[s] # l
      BY DEF ComingUpInv, Active
    <2>1. hasty \subseteq hasty'
      OBVIOUS
    <2>2. CASE l = k
      <3>1. gateway'[l] = g /\ g # NoGateway
        BY <2>2, LinksAssumption DEF LinkType, NoGateway
      <3>2. lpc'[l] # "address" => l \in addr'
        BY <2>2 DEF LinkType
      <3>3. \A s \in Scripts : Active(s) => why[s] # l
        BY <2>2
      <3> QED
        BY <3>1, <3>2, <3>3
    <2>3. CASE l # k
      <3>1. gateway'[l] = gateway[l] /\ lpc'[l] = lpc[l] /\ (l \in addr => l \in addr')
        BY <2>3 DEF LinkType
      <3> QED
        BY <2>1, <3>1 DEF ComingUpInv
    <2> QED
      BY <2>2, <2>3
  <1>2. ASSUME NEW k \in Links, Down(k) PROVE ComingUpInv'
    BY <1>2 DEF Down, MayStart, Drop, ComingUpInv, Active, LinkType
  <1>3. ASSUME NEW k \in Links, SetAddress(k) PROVE ComingUpInv'
    BY <1>3 DEF SetAddress, ComingUpInv, Active, LinkType
  <1>4. ASSUME NEW k \in Links, SetAccess(k) PROVE ComingUpInv'
    BY <1>4 DEF SetAccess, ComingUpInv, Active, LinkType
  <1>5. ASSUME NEW k \in Links, StatusUp(k) PROVE ComingUpInv'
    BY <1>5 DEF StatusUp, ComingUpInv, Active, LinkType
  <1>6. ASSUME NEW k \in Links, ClearGateway(k) PROVE ComingUpInv'
    BY <1>6 DEF ClearGateway, ComingUpInv, Active, LinkType
  <1>7. ASSUME NEW k \in Links, StatusDown(k) PROVE ComingUpInv'
    BY <1>7 DEF StatusDown, Drop, ComingUpInv, Active, LinkType
  <1>8. ASSUME NEW k \in Links, Notify(k) PROVE ComingUpInv'
    BY <1>8 DEF Notify, ComingUpInv, Active, LinkType, ScriptType
  <1>9. ASSUME NEW s \in Scripts, Step(s) PROVE ComingUpInv'
    <2>1. /\ UNCHANGED <<status, gateway, addr, lpc, why, hasty>>
          /\ \A t \in Scripts : Active(t)' => Active(t)
      <3>1. CASE Start(s) \/ Lock(s)
        BY <3>1 DEF Start, Lock, Active, ScriptType
      <3>2. CASE Test(s) \/ ReadAccess(s) \/ ReadGateway(s)
        BY <3>2 DEF Test, ReadAccess, ReadGateway, Active, ScriptType
      <3>3. CASE Configure(s) \/ Deconfigure(s)
        BY <3>3 DEF Configure, Deconfigure, Unlock, Active, ScriptType
      <3> QED
        BY <1>9, <3>1, <3>2, <3>3 DEF Step
    <2> QED
      BY <2>1 DEF ComingUpInv
  <1>10. CASE MustReboot \/ UNCHANGED vars
    BY <1>10 DEF MustReboot, vars, ComingUpInv, Active
  <1> QED
    BY <1>1, <1>2, <1>3, <1>4, <1>5, <1>6, <1>7, <1>8, <1>9, <1>10 DEF Next, LinkStep

\* The route of a link that is up: no step changes its fields under the election
\* that reads them, and it came up when it was forgotten, so the election that
\* elects it installs its route.
LEMMA NextUpInv ==
  BaseInv /\ SpacedInv /\ [Next]_vars => UpInv'
  <1> SUFFICES ASSUME BaseInv, SpacedInv, [Next]_vars PROVE UpInv'
    OBVIOUS
  <1> USE DEF BaseInv, TypeOK, scriptVars, linkVars
  <1>0. "none" \notin Links /\ UpInv
    BY LinksAssumption DEF SpacedInv
  <1>1. ASSUME NEW k \in Links, NEW g \in Gateways, Bound(k, g) PROVE UpInv'
    <2> USE <1>1 DEF Bound, MayStart
    <2>1. ASSUME NEW l \in Links \ hasty', status[l]
          PROVE  /\ gateway'[l] = gateway[l] /\ l \notin hasty
                 /\ l \in addr => l \in addr'
                 /\ lpc'[l] \notin {"clear", "down"} => lpc[l] \notin {"clear", "down"}
      <3>1. CASE l = k
        BY <2>1, <3>1 DEF LinkType
      <3>2. CASE l # k
        BY <2>1, <3>2 DEF LinkType
      <3> QED
        BY <3>1, <3>2
    <2>2. UNCHANGED <<status, net, route, pc, via, rgw, mustreboot>>
      OBVIOUS
    <2> QED
      BY <1>0, <2>1, <2>2 DEF UpInv
  <1>2. ASSUME NEW k \in Links, Down(k) PROVE UpInv'
    <2>1. /\ lpc' = [lpc EXCEPT ![k] = "clear"]
          /\ UNCHANGED <<status, gateway, net, pc, via, rgw, mustreboot, hasty>>
          /\ \A l \in Links : l # k /\ l \in addr => l \in addr'
          /\ route' = route \/ route.link = k
      BY <1>2 DEF Down, Drop
    <2> QED
      BY <1>0, <2>1 DEF UpInv, LinkType
  <1>3. ASSUME NEW k \in Links, SetAddress(k) PROVE UpInv'
    BY <1>0, <1>3 DEF SetAddress, UpInv, LinkType
  <1>4. ASSUME NEW k \in Links, SetAccess(k) PROVE UpInv'
    BY <1>0, <1>4 DEF SetAccess, UpInv, LinkType
  <1>5. ASSUME NEW k \in Links, StatusUp(k) PROVE UpInv'
    <2>1. /\ lpc[k] = "up" /\ ~status[k]
          /\ \A l \in Links : l # k => status'[l] = status[l] /\ lpc'[l] = lpc[l]
          /\ UNCHANGED <<gateway, addr, net, route, pc, why, via, rgw, mustreboot, hasty>>
      BY <1>5 DEF StatusUp, LinkType, LinkInv
    <2> SUFFICES ASSUME NEW l \in Links \ hasty, ~mustreboot, status'[l],
                        lpc'[l] \notin {"clear", "down"}
                 PROVE  /\ gateway[l] # NoGateway /\ l \in addr
                        /\ net.infra.link = l =>
                             net.gw = gateway[l] /\ route = [link |-> l, gw |-> gateway[l]]
                        /\ \A s \in Scripts :
                             pc[s] = "configure" /\ via[s] = l => rgw[s] = gateway[l]
      BY <2>1 DEF UpInv
    <2>2. CASE l = k
      <3>1. /\ gateway[l] # NoGateway /\ l \in addr
            /\ \A s \in Scripts : Active(s) => why[s] # l
        BY <2>1, <2>2 DEF SpacedInv, ComingUpInv
      <3>2. \A s \in Scripts : Waiting(s) => why[s] # l
        BY <3>1 DEF Waiting, Active
      <3>3. net.infra.link # l /\ \A s \in Scripts : Reading(s) => via[s] # l
        BY <2>1, <2>2, <3>1, <3>2 DEF SpacedInv, ForgottenInv
      <3> QED
        BY <3>1, <3>3 DEF Reading
    <2>3. CASE l # k
      BY <1>0, <2>1, <2>3 DEF UpInv
    <2> QED
      BY <2>2, <2>3
  <1>6. ASSUME NEW k \in Links, ClearGateway(k) PROVE UpInv'
    BY <1>0, <1>6 DEF ClearGateway, UpInv, LinkType
  <1>7. ASSUME NEW k \in Links, StatusDown(k) PROVE UpInv'
    <2>1. /\ lpc' = [lpc EXCEPT ![k] = "notify"] /\ status' = [status EXCEPT ![k] = FALSE]
          /\ UNCHANGED <<gateway, net, pc, via, rgw, mustreboot, hasty>>
          /\ \A l \in Links : l # k /\ l \in addr => l \in addr'
          /\ route' = route \/ route.link = k
      BY <1>7 DEF StatusDown, Drop
    <2> QED
      BY <1>0, <2>1 DEF UpInv, LinkType
  <1>8. ASSUME NEW k \in Links, Notify(k) PROVE UpInv'
    <2>1. /\ lpc[k] = "notify" /\ lpc' = [lpc EXCEPT ![k] = "idle"]
          /\ UNCHANGED <<status, gateway, addr, net, route, via, rgw, mustreboot, hasty>>
          /\ \A s \in Scripts : pc'[s] = "configure" => pc[s] = "configure"
      BY <1>8 DEF Notify, ScriptType
    <2> QED
      BY <1>0, <2>1 DEF UpInv, LinkType
  <1>9. ASSUME NEW s \in Scripts, Start(s) \/ Lock(s) \/ Test(s) \/ ReadAccess(s)
        PROVE  UpInv'
    <2>1. /\ UNCHANGED <<status, gateway, addr, lpc, net, route, rgw, mustreboot, hasty>>
          /\ \A t \in Scripts : pc'[t] = "configure" => pc[t] = "configure" /\ via'[t] = via[t]
      <3>1. CASE Start(s) \/ Lock(s)
        BY <3>1 DEF Start, Lock, ScriptType
      <3>2. CASE Test(s)
        BY <3>2 DEF Test, ScriptType
      <3>3. CASE ReadAccess(s)
        BY <3>3 DEF ReadAccess, ScriptType
      <3> QED
        BY <1>9, <3>1, <3>2, <3>3
    <2> QED
      BY <1>0, <2>1 DEF UpInv
  <1>10. ASSUME NEW s \in Scripts, ReadGateway(s) PROVE UpInv'
    BY <1>0, <1>10 DEF ReadGateway, UpInv, ScriptType
  <1>11. ASSUME NEW s \in Scripts, Configure(s) PROVE UpInv'
    <2>1. /\ pc[s] = "configure" /\ via[s] \in Links
          /\ UNCHANGED <<status, gateway, addr, lpc, mustreboot, hasty>>
          /\ \A t \in Scripts : pc'[t] = "configure" =>
               pc[t] = "configure" /\ via'[t] = via[t] /\ rgw'[t] = rgw[t]
      BY <1>11 DEF Configure, Unlock, ScriptType, LockInv, Critical
    <2>2. CASE net' = net /\ route' = route
      BY <1>0, <2>1, <2>2 DEF UpInv
    <2>3. CASE net.infra # Infra(racc[s], via[s])
      <3>1. /\ net'.infra.link = via[s] /\ net'.gw = rgw[s]
            /\ rgw[s] # NoGateway /\ via[s] \in addr =>
                 route' = [link |-> via[s], gw |-> rgw[s]]
        BY <1>11, <2>3 DEF Configure, Infra
      <3> QED
        BY <1>0, <2>1, <3>1 DEF UpInv
    <2> QED
      BY <1>11, <2>2, <2>3 DEF Configure
  <1>12. ASSUME NEW s \in Scripts, Deconfigure(s) PROVE UpInv'
    <2>1. /\ UNCHANGED <<status, gateway, addr, lpc, mustreboot, hasty>>
          /\ \A t \in Scripts : pc'[t] = "configure" =>
               pc[t] = "configure" /\ via'[t] = via[t] /\ rgw'[t] = rgw[t]
          /\ net'.infra.link = "none"
      BY <1>12 DEF Deconfigure, Unlock, ScriptType, Unknown
    <2> QED
      BY <1>0, <2>1 DEF UpInv
  <1>13. CASE MustReboot
    BY <1>13 DEF MustReboot, UpInv
  <1>14. CASE UNCHANGED vars
    BY <1>0, <1>14 DEF vars, UpInv
  <1> QED
    BY <1>1, <1>2, <1>3, <1>4, <1>5, <1>6, <1>7, <1>8, <1>9, <1>10, <1>11, <1>12, <1>13,
       <1>14 DEF Next, LinkStep, Step

\* Nothing is up at first, and no link is the infra.
LEMMA InitInv == Init => IInv
  <1> SUFFICES ASSUME Init PROVE SpacedInv
    BY InitBaseInv DEF IInv
  <1>0. "none" \notin Links
    BY LinksAssumption
  <1>1. ForgottenInv
    BY <1>0 DEF Init, ForgottenInv, Reading, Unknown
  <1>2. ComingUpInv /\ UpInv
    BY DEF Init, ComingUpInv, UpInv
  <1> QED
    BY <1>1, <1>2 DEF SpacedInv

\* Elections exclude each other; while no other is to begin, the one under way has
\* read what is so, or the last one published it; and a link that is given its
\* time is forgotten before it comes up again.
THEOREM ElectionInvariant == Spec => []IInv
  <1>1. IInv /\ [Next]_vars => IInv'
    <2> SUFFICES ASSUME IInv, [Next]_vars PROVE IInv'
      OBVIOUS
    <2>1. BaseInv'
      BY NextBaseInv DEF IInv
    <2>2. ForgottenInv' /\ ComingUpInv' /\ UpInv'
      BY NextForgottenInv, NextComingUpInv, NextUpInv DEF IInv, SpacedInv
    <2> QED
      BY <2>1, <2>2 DEF IInv, SpacedInv
  <1> QED
    BY <1>1, InitInv, PTL DEF Spec

\* In a quiet state the infra is the one that the keys ask for.
LEMMA QuietInfra == IInv => Settled
  <1> SUFFICES ASSUME IInv, Quiet, ~mustreboot PROVE net.infra = Desired
    BY DEF Settled
  <1>1. ~Pending
    BY DEF Quiet, Pending, Active
  <1>2. lock \notin Scripts
    BY DEF IInv, BaseInv, LockInv, Critical, Quiet, Active
  <1> QED
    BY <1>1, <1>2 DEF IInv, BaseInv, ElectionInv

\* When every event has been handled, the infra that defaultroute published is
\* that of the best link that is up, however its reads met the link scripts.
THEOREM RouteSettles == Spec => []Settled
  BY QuietInfra, ElectionInvariant, PTL

\* And if that link was given its time, the gateway that is published and the
\* kernel's default route are the ones of that link.
THEOREM RouteFollowsLink == Spec => []SpacedRoute
  <1>1. IInv => SpacedRoute
    <2> SUFFICES ASSUME IInv, Quiet, ~mustreboot, UpLinks # {},
                        BestOf(UpLinks) \notin hasty
                 PROVE  LET l == BestOf(UpLinks) IN
                        /\ net.gw = gateway[l]
                        /\ route = [link |-> l, gw |-> gateway[l]]
      BY DEF SpacedRoute
    <2> DEFINE l == BestOf(UpLinks)
    <2>1. l \in Links /\ status[l]
      <3>1. UpLinks \in SUBSET AllLinks
        BY LinksAssumption DEF UpLinks, AllLinks
      <3> QED
        BY <3>1, BestOfFacts DEF UpLinks
    <2>2. net.infra.link = l
      BY QuietInfra DEF Settled, Desired, Infra
    <2>3. lpc[l] \notin {"clear", "down"}
      BY <2>1 DEF Quiet
    <2> HIDE DEF l
    <2>4. UpInv /\ l \in Links \ hasty
      BY <2>1 DEF IInv, SpacedInv, l
    <2>5. net.gw = gateway[l] /\ route = [link |-> l, gw |-> gateway[l]]
      BY <2>1, <2>2, <2>3, <2>4 DEF UpInv
    <2> QED
      BY <2>5 DEF l
  <1> QED
    BY <1>1, ElectionInvariant, PTL
=============================================================================
