------------------------- MODULE DataServiceProofs -------------------------
(***************************************************************************)
(* Proofs about DataService, for every set of accesses and any number of   *)
(* starts and changes: segments are clamped once, and the DROP rules and   *)
(* the rules left behind do not pile up beyond the changes of the keys     *)
(* under the scripts; as long as there is none, stop undoes what start did.*)
(***************************************************************************)
EXTENDS DataService, FiniteSetTheorems, TLAPS

-----------------------------------------------------------------------------
(* Bags of rules                                                           *)

\* The rules a configuration inserts are a bag.
LEMMA RulesBag == ASSUME NEW c PROVE IsABag(Rules(c)) /\ IsABag(EmptyBag)
  BY DEF IsABag, Rules, RuleSet, SetToBag, EmptyBag

\* Rules put in and taken out keep a bag a bag.
LEMMA BagSteps ==
  ASSUME NEW B, IsABag(B), NEW c
  PROVE  IsABag(B (+) Rules(c)) /\ IsABag(B (-) Rules(c))
  <1> DEFINE R == Rules(c)
  <1>1. R \in [DOMAIN R -> {1}]
    BY DEF Rules, RuleSet, SetToBag
  <1>2. IsABag(B (+) R)
    <2> HIDE DEF R
    <2> QED
      BY <1>1 DEF IsABag, (+)
  <1>3. IsABag(B (-) R)
    <2> HIDE DEF R
    <2> QED
      BY <1>1 DEF IsABag, (-)
  <1> QED
    BY <1>2, <1>3

\* The rules of a start are there once, and gone with the stop that names them.
LEMMA RulesInAndOut ==
  ASSUME NEW c
  PROVE  EmptyBag (+) Rules(c) = Rules(c) /\ Rules(c) (-) Rules(c) = EmptyBag
  <1> DEFINE S == RuleSet(c)
  <1>1. Rules(c) = [e \in S |-> 1]
    BY DEF Rules, SetToBag
  <1> HIDE DEF S
  <1>2. EmptyBag (+) [e \in S |-> 1] = [e \in S |-> 1]
    BY DEF EmptyBag, SetToBag, (+)
  <1>3. [e \in S |-> 1] (-) [e \in S |-> 1] = EmptyBag
    BY DEF EmptyBag, SetToBag, (-)
  <1> QED
    BY <1>1, <1>2, <1>3

-----------------------------------------------------------------------------
(* Copies of rules                                                         *)

\* A numbered copy of a rule of the bag.
LEMMA CopiesFacts ==
  ASSUME NEW B
  PROVE  \A p : p \in Copies(B) <=> \E r \in DOMAIN B : \E k \in 1 .. B[r] : p = <<r, k>>
  <1>1. ASSUME NEW p, p \in Copies(B)
        PROVE  \E r \in DOMAIN B : \E k \in 1 .. B[r] : p = <<r, k>>
    <2>1. PICK r \in DOMAIN B : p \in {r} \X (1 .. B[r])
      BY <1>1, Zenon DEF Copies, BagToSet
    <2> QED
      BY <2>1
  <1>2. ASSUME NEW r \in DOMAIN B, NEW k \in 1 .. B[r]
        PROVE  <<r, k>> \in Copies(B)
    <2>1. <<r, k>> \in {r} \X (1 .. B[r])
      OBVIOUS
    <2> QED
      BY <2>1, Zenon DEF Copies, BagToSet
  <1> QED
    BY <1>1, <1>2, Zenon

\* A set grows by at most one with an element.
LEMMA AddOne ==
  ASSUME NEW S, IsFiniteSet(S), NEW e
  PROVE  IsFiniteSet(S \cup {e}) /\ Cardinality(S \cup {e}) <= Cardinality(S) + 1
  <1>1. Cardinality(S) \in Nat
    BY FS_CardinalityType
  <1>2. /\ IsFiniteSet(S \cup {e})
        /\ Cardinality(S \cup {e}) = IF e \in S THEN Cardinality(S) ELSE Cardinality(S) + 1
    BY FS_AddElement
  <1> QED
    BY <1>1, <1>2

\* A configuration has three rules.
LEMMA ThreeRules ==
  ASSUME NEW c
  PROVE  \E x, y, z : x # y /\ y # z /\ x # z /\ RuleSet(c) = {x, y, z}
  <1> DEFINE x == <<"interface", c.ifname>>
             y == <<"snat", c.ifname, c.lan, c.ipaddr>>
             z == <<"from", c.ipaddr>>
  <1>1. x[1] = "interface" /\ y[1] = "snat" /\ z[1] = "from"
    OBVIOUS
  <1>2. x # y /\ y # z /\ x # z
    <2> HIDE DEF x, y, z
    <2> QED
      BY <1>1
  <1>3. RuleSet(c) = {x, y, z}
    BY DEF RuleSet
  <1> HIDE DEF x, y, z
  <1> QED
    BY <1>2, <1>3

\* A start adds at most three copies.
LEMMA CopiesInserted ==
  ASSUME NEW B, IsABag(B), IsFiniteSet(Copies(B)), NEW c
  PROVE  /\ IsFiniteSet(Copies(B (+) Rules(c)))
         /\ Cardinality(Copies(B (+) Rules(c))) <= Cardinality(Copies(B)) + 3
         /\ RuleSet(c) \subseteq BagToSet(B (+) Rules(c))
  <1> DEFINE C == B (+) Rules(c)
             Top(r) == <<r, C[r]>>
  <1>1. PICK x, y, z : x # y /\ y # z /\ x # z /\ RuleSet(c) = {x, y, z}
    BY ThreeRules
  <1>2. /\ DOMAIN C = DOMAIN B \cup {x, y, z}
        /\ \A r \in DOMAIN C :
             C[r] = (IF r \in DOMAIN B THEN B[r] ELSE 0)
                      + (IF r \in {x, y, z} THEN 1 ELSE 0)
    <2> DEFINE R == Rules(c)
    <2>1. DOMAIN R = {x, y, z} /\ \A r \in {x, y, z} : R[r] = 1
      BY <1>1 DEF Rules, SetToBag
    <2>2. C = B (+) R
      OBVIOUS
    <2> HIDE DEF R, C
    <2> QED
      BY <2>1, <2>2 DEF (+)
  <1>3. \A r \in DOMAIN B : B[r] \in Nat
    BY DEF IsABag
  <1> HIDE DEF C
  <1>4. Copies(C) \subseteq ((Copies(B) \cup {Top(x)}) \cup {Top(y)}) \cup {Top(z)}
    <2> SUFFICES ASSUME NEW r \in DOMAIN C, NEW k \in 1 .. C[r],
                        ~(r \in DOMAIN B /\ k \in 1 .. B[r])
                 PROVE  r \in {x, y, z} /\ k = C[r]
      BY CopiesFacts
    <2> QED
      BY <1>2, <1>3
  <1> HIDE DEF Top
  <1>5. /\ IsFiniteSet(Copies(B) \cup {Top(x)})
        /\ Cardinality(Copies(B) \cup {Top(x)}) <= Cardinality(Copies(B)) + 1
    BY AddOne
  <1>6. /\ IsFiniteSet((Copies(B) \cup {Top(x)}) \cup {Top(y)})
        /\ Cardinality((Copies(B) \cup {Top(x)}) \cup {Top(y)})
             <= Cardinality(Copies(B) \cup {Top(x)}) + 1
    BY <1>5, AddOne
  <1> DEFINE D == ((Copies(B) \cup {Top(x)}) \cup {Top(y)}) \cup {Top(z)}
  <1>7. /\ IsFiniteSet(D)
        /\ Cardinality(D) <= Cardinality((Copies(B) \cup {Top(x)}) \cup {Top(y)}) + 1
    BY <1>6, AddOne
  <1>8. Copies(C) \subseteq D
    BY <1>4
  <1> HIDE DEF D
  <1>9. IsFiniteSet(Copies(C)) /\ Cardinality(Copies(C)) <= Cardinality(Copies(B)) + 3
    BY <1>5, <1>6, <1>7, <1>8, FS_Subset, FS_CardinalityType
  <1>10. RuleSet(c) \subseteq BagToSet(C)
    BY <1>1, <1>2 DEF BagToSet
  <1> QED
    BY <1>9, <1>10 DEF C

\* A stop takes copies away, three of them when it names three rules that are
\* there.
LEMMA CopiesOut ==
  ASSUME NEW B, IsABag(B), IsFiniteSet(Copies(B)), NEW c
  PROVE  /\ IsFiniteSet(Copies(B (-) Rules(c)))
         /\ Cardinality(Copies(B (-) Rules(c))) <= Cardinality(Copies(B))
         /\ RuleSet(c) \subseteq BagToSet(B) =>
              Cardinality(Copies(B (-) Rules(c))) + 3 <= Cardinality(Copies(B))
  <1> DEFINE C == B (-) Rules(c)
             Top(r) == <<r, B[r]>>
  <1>1. PICK x, y, z : x # y /\ y # z /\ x # z /\ RuleSet(c) = {x, y, z}
    BY ThreeRules
  <1>2. /\ DOMAIN C \subseteq DOMAIN B
        /\ \A r \in DOMAIN C : C[r] = B[r] - (IF r \in {x, y, z} THEN 1 ELSE 0)
    <2> DEFINE F == [e \in DOMAIN B |-> IF e \in DOMAIN Rules(c) THEN B[e] - Rules(c)[e]
                                                                 ELSE B[e]]
    <2>1. C = [e \in {d \in DOMAIN F : F[d] > 0} |-> F[e]]
      BY DEF (-)
    <2>2. /\ DOMAIN F = DOMAIN B
          /\ \A r \in DOMAIN B : F[r] = IF r \in {x, y, z} THEN B[r] - 1 ELSE B[r]
      BY <1>1 DEF Rules, SetToBag
    <2>3. \A r \in DOMAIN B : B[r] \in Nat
      BY DEF IsABag
    <2> HIDE DEF F, C
    <2> QED
      BY <2>1, <2>2, <2>3
  <1>3. \A r \in DOMAIN B : B[r] \in Nat /\ B[r] > 0
    BY DEF IsABag
  <1> HIDE DEF C
  <1> DEFINE D == ((Copies(B) \ {Top(x)}) \ {Top(y)}) \ {Top(z)}
  <1>4. Copies(C) \subseteq D
    <2> SUFFICES ASSUME NEW r \in DOMAIN C, NEW k \in 1 .. C[r]
                 PROVE  r \in DOMAIN B /\ k \in 1 .. B[r] /\ (r \in {x, y, z} => k # B[r])
      BY CopiesFacts
    <2> QED
      BY <1>2, <1>3
  <1>5. Copies(C) \subseteq Copies(B)
    BY <1>4
  <1>6. IsFiniteSet(Copies(C)) /\ Cardinality(Copies(C)) <= Cardinality(Copies(B))
    BY <1>5, FS_Subset
  <1>7. ASSUME RuleSet(c) \subseteq BagToSet(B)
        PROVE  Cardinality(Copies(C)) + 3 <= Cardinality(Copies(B))
    <2>1. {x, y, z} \subseteq DOMAIN B
      BY <1>1, <1>7 DEF BagToSet
    <2>2. Top(x) \in Copies(B) /\ Top(y) \in Copies(B) /\ Top(z) \in Copies(B)
      BY <1>3, <2>1, CopiesFacts
    <2>3. Top(x) # Top(y) /\ Top(y) # Top(z) /\ Top(x) # Top(z)
      BY <1>1
    <2> HIDE DEF Top
    <2>4. /\ IsFiniteSet(Copies(B) \ {Top(x)})
          /\ Cardinality(Copies(B) \ {Top(x)}) = Cardinality(Copies(B)) - 1
      BY <2>2, FS_RemoveElement
    <2>5. /\ IsFiniteSet((Copies(B) \ {Top(x)}) \ {Top(y)})
          /\ Cardinality((Copies(B) \ {Top(x)}) \ {Top(y)})
               = Cardinality(Copies(B) \ {Top(x)}) - 1
      BY <2>2, <2>3, <2>4, FS_RemoveElement
    <2>6. /\ IsFiniteSet(D)
          /\ Cardinality(D) = Cardinality((Copies(B) \ {Top(x)}) \ {Top(y)}) - 1
      BY <2>2, <2>3, <2>5, FS_RemoveElement
    <2> HIDE DEF D
    <2>7. Cardinality(Copies(C)) <= Cardinality(D)
      BY <1>4, <2>6, FS_Subset
    <2> QED
      BY <2>4, <2>5, <2>6, <2>7, <1>6, FS_CardinalityType
  <1> QED
    BY <1>6, <1>7 DEF C

-----------------------------------------------------------------------------
(* The inductive invariant                                                 *)

\* The box before the first start satisfies the invariant.
LEMMA InitInv == Init => ServiceInv
  <1> SUFFICES ASSUME Init PROVE ServiceInv
    OBVIOUS
  <1>1. TypeOK
    <2>1. IsABag(rules) /\ {dhcpc, upnpd, yaddns, resolv} \subseteq BOOLEAN
      BY RulesBag DEF Init
    <2>2. net \in Configs /\ DOMAIN val = FieldNames /\ val = net
      BY ConfigsAssumption DEF Init
    <2>3. \A f \in FieldNames : val[f] \in {c[f] : c \in Configs}
      BY <2>2
    <2> QED
      BY <2>1, <2>2, <2>3, BoundsAssumption DEF Init, TypeOK
  <1>2. PlaceInv /\ ClampedOnce /\ DropsInv
    BY BoundsAssumption DEF Init, PlaceInv, ClampedOnce, DropsInv, Broken
  <1>3. SpacedInv
    BY DEF Init, SpacedInv, NotSetUp, Broken
  <1> QED
    BY <1>1, <1>2, <1>3 DEF ServiceInv

\* The environment changes the keys or the pid file, and counts it as a move
\* unless the service does not mind.
LEMMA EnvironmentInv ==
  ASSUME ServiceInv, Ppp_adsl \/ \E c \in Configs : Publish(c)
  PROVE  ServiceInv'
  <1> USE BoundsAssumption
  <1>1. UNCHANGED <<tables, daemons, script, pc, val, starts>>
    BY DEF Ppp_adsl, Publish
  <1>2. /\ moves' \in {moves, moves + 1} /\ moves' \in 0 .. MaxMoves
        /\ net' \in Configs /\ adsl' \in BOOLEAN
    <2>1. moves \in 0 .. MaxMoves /\ net \in Configs /\ adsl \in BOOLEAN
      BY DEF ServiceInv, TypeOK
    <2>2. moves' \in {moves, moves + 1} /\ moves' <= MaxMoves
      BY DEF Ppp_adsl, Publish, Move
    <2>3. net' \in Configs /\ adsl' \in BOOLEAN
      BY <2>1, Zenon DEF Ppp_adsl, Publish
    <2> QED
      BY <2>1, <2>2, <2>3
  <1>3. TypeOK'
    BY <1>1, <1>2 DEF ServiceInv, TypeOK, tables, daemons
  <1>4. PlaceInv' /\ ClampedOnce'
    BY <1>1 DEF ServiceInv, PlaceInv, ClampedOnce, tables
  <1>5. moves' = moves =>
          \/ adsl' = adsl /\ script = "down"
          \/ net' = net /\ starts = 0
    <2>1. moves \in Nat /\ starts \in Nat
      BY DEF ServiceInv, TypeOK
    <2>2. CASE Ppp_adsl
      BY <2>1, <2>2 DEF Ppp_adsl, Move
    <2>3. ASSUME NEW c \in Configs, Publish(c)
          PROVE  moves' = moves => adsl' = adsl /\ script = "down"
      BY <2>1, <2>3 DEF Publish, Move
    <2> QED
      BY <2>2, <2>3
  <1>6. DropsInv'
    <2>1. drops \in Nat /\ moves \in Nat /\ DropsInv /\ drops' = drops
      BY <1>1 DEF ServiceInv, TypeOK, tables
    <2>2. Broken' <=> Broken
      BY <1>1 DEF Broken
    <2>3. CASE moves' = moves
      <3>1. Broken => (adsl' <=> adsl)
        BY <1>5, <2>3 DEF ServiceInv, PlaceInv, Broken
      <3> QED
        BY <1>1, <2>1, <2>2, <2>3, <3>1 DEF DropsInv
    <2>4. CASE moves' = moves + 1
      BY <1>1, <2>1, <2>2, <2>4 DEF DropsInv
    <2> QED
      BY <1>2, <2>3, <2>4
  <1>7. SpacedInv'
    <2> SUFFICES ASSUME moves' = 0 PROVE SpacedInv'
      BY DEF SpacedInv
    <2>1. moves = 0 /\ script = "down" /\ (adsl' = adsl \/ starts = 0)
      BY <1>2, <1>5 DEF ServiceInv, TypeOK, PlaceInv
    <2> QED
      BY <1>1, <2>1 DEF ServiceInv, SpacedInv, NotSetUp, Broken, tables, daemons
  <1> QED
    BY <1>3, <1>4, <1>6, <1>7 DEF ServiceInv

\* start and stop begin, and read the keys one by one.
LEMMA ReadingInv ==
  ASSUME ServiceInv, start \/ stop \/ Read
  PROVE  ServiceInv'
  <1> USE BoundsAssumption
  <1>1. UNCHANGED <<env, tables, daemons, moves>>
    BY DEF start, stop, Read
  <1>2. CASE start
    <2>1. TypeOK' /\ PlaceInv' /\ ClampedOnce' /\ DropsInv'
      BY <1>1, <1>2 DEF start, ServiceInv, TypeOK, PlaceInv, ClampedOnce, DropsInv, Broken,
                        env, tables, daemons
    <2>2. SpacedInv'
      BY <1>1, <1>2 DEF start, ServiceInv, TypeOK, SpacedInv, NotSetUp, Broken, env, tables,
                        daemons
    <2> QED
      BY <2>1, <2>2 DEF ServiceInv
  <1>3. CASE stop
    <2>1. TypeOK' /\ PlaceInv' /\ ClampedOnce' /\ DropsInv'
      BY <1>1, <1>3 DEF stop, ServiceInv, TypeOK, PlaceInv, ClampedOnce, DropsInv, Broken,
                        env, tables, daemons
    <2>2. SpacedInv'
      BY <1>1, <1>3 DEF stop, ServiceInv, TypeOK, SpacedInv, SetUpFor, Routed, Broken, env,
                        tables, daemons
    <2> QED
      BY <2>1, <2>2 DEF ServiceInv
  <1>4. CASE Read
    <2>1. /\ Fields[pc] \in FieldNames /\ pc \in 1 .. 6 /\ pc' = pc + 1
          /\ UNCHANGED <<script, starts>>
          /\ val' = [val EXCEPT ![Fields[pc]] = net[Fields[pc]]]
      BY <1>4 DEF Read, Fields, FieldNames
    <2>2. TypeOK'
      BY <1>1, <2>1 DEF ServiceInv, TypeOK, env, tables, daemons
    <2>3. PlaceInv' /\ ClampedOnce' /\ DropsInv'
      BY <1>1, <2>1 DEF ServiceInv, TypeOK, PlaceInv, ClampedOnce, DropsInv, Broken, env,
                        tables
    <2>4. SpacedInv'
      <3> SUFFICES ASSUME moves' = 0 PROVE SpacedInv'
        BY DEF SpacedInv
      <3>1. script \in {"start", "stop"} /\ moves = 0
        BY <1>1, <2>1 DEF ServiceInv, TypeOK, PlaceInv
      <3>2. script = "start" =>
              \A i \in 1 .. 6 : i < pc' => val'[Fields[i]] = net'[Fields[i]]
        BY <1>1, <2>1, <3>1 DEF ServiceInv, TypeOK, SpacedInv, Fields, FieldNames, env
      <3>3. script = "stop" => \A f \in FieldNames : val'[f] = net'[f]
        BY <1>1, <2>1, <3>1 DEF ServiceInv, TypeOK, SpacedInv, env
      <3> QED
        BY <1>1, <2>1, <3>1, <3>2, <3>3
           DEF ServiceInv, SpacedInv, NotSetUp, SetUpFor, Routed, Broken, env, tables, daemons
    <2> QED
      BY <2>2, <2>3, <2>4 DEF ServiceInv
  <1> QED
    BY <1>2, <1>3, <1>4

\* The DROP rule and dhcpc of a start.
LEMMA KludgeStartInv ==
  ASSUME ServiceInv, KludgeStart
  PROVE  ServiceInv'
  <1> USE BoundsAssumption
  <1>1. /\ pc = 7 /\ pc' = 8 /\ script = "start"
        /\ UNCHANGED <<env, rules, mss, via, dnsroutes, lanroutes, upnpd, yaddns, resolv,
                       script, val, starts, moves>>
    BY DEF KludgeStart
  <1>2. dhcpc' \in BOOLEAN
    BY DEF KludgeStart, ServiceInv, TypeOK
  <1>3. TypeOK'
    BY <1>1, <1>2 DEF KludgeStart, ServiceInv, TypeOK, env
  <1>4. PlaceInv' /\ ClampedOnce'
    BY <1>1 DEF ServiceInv, PlaceInv, ClampedOnce
  <1>5. DropsInv'
    BY <1>1 DEF KludgeStart, ServiceInv, TypeOK, DropsInv, Broken, env
  <1>6. SpacedInv'
    <2> SUFFICES ASSUME moves' = 0 PROVE SpacedInv'
      BY DEF SpacedInv
    <2>1. moves = 0 /\ starts > 0
      BY <1>1 DEF ServiceInv, TypeOK, PlaceInv
    <2>2. val.infra = net.infra
      BY <1>1, <2>1 DEF ServiceInv, SpacedInv, Fields, FieldNames
    <2>3. drops' = 0
      BY <1>1, <2>1 DEF KludgeStart, ServiceInv, TypeOK, SpacedInv
    <2>4. dhcpc' <=> ~Routed(net)
      BY <1>1, <2>1, <2>2 DEF KludgeStart, ServiceInv, TypeOK, SpacedInv, Broken, Routed
    <2> QED
      BY <1>1, <2>1, <2>3, <2>4 DEF ServiceInv, SpacedInv, NotSetUp, Broken, Routed, env
  <1> QED
    BY <1>3, <1>4, <1>5, <1>6 DEF ServiceInv

\* The DROP rule and dhcpc of a stop.
LEMMA KludgeStopInv ==
  ASSUME ServiceInv, KludgeStop
  PROVE  ServiceInv'
  <1> USE BoundsAssumption
  <1>1. /\ pc = 7 /\ pc' = 8 /\ script = "stop"
        /\ UNCHANGED <<env, rules, mss, via, dnsroutes, lanroutes, upnpd, yaddns, resolv,
                       script, val, starts, moves>>
    BY DEF KludgeStop
  <1>2. dhcpc' \in BOOLEAN
    BY DEF KludgeStop, ServiceInv, TypeOK
  <1>3. TypeOK'
    BY <1>1, <1>2 DEF KludgeStop, ServiceInv, TypeOK, DropsInv, Broken, env
  <1>4. PlaceInv' /\ ClampedOnce'
    BY <1>1 DEF ServiceInv, PlaceInv, ClampedOnce
  <1>5. DropsInv'
    BY <1>1 DEF KludgeStop, ServiceInv, TypeOK, DropsInv, Broken, env
  <1>6. SpacedInv'
    <2> SUFFICES ASSUME moves' = 0 PROVE SpacedInv'
      BY DEF SpacedInv
    <2>1. moves = 0 /\ starts > 0
      BY <1>1 DEF ServiceInv, TypeOK, PlaceInv
    <2>2. val.infra = net.infra
      BY <1>1, <2>1 DEF ServiceInv, SpacedInv, FieldNames
    <2>3. drops' = IF adsl THEN 1 ELSE 0
      BY <1>1, <2>1 DEF KludgeStop, ServiceInv, TypeOK, SpacedInv, Broken
    <2>4. dhcpc'
      BY <1>1, <2>1, <2>2 DEF KludgeStop, ServiceInv, TypeOK, SpacedInv, Broken, Routed
    <2> QED
      BY <1>1, <2>1, <2>3, <2>4 DEF ServiceInv, SpacedInv, SetUpFor, Broken, env
  <1> QED
    BY <1>3, <1>4, <1>5, <1>6 DEF ServiceInv

\* The tables of a start.
LEMMA SetUpInv ==
  ASSUME ServiceInv, SetUp
  PROVE  ServiceInv'
  <1> USE BoundsAssumption
  <1>1. TypeOK'
    <2>1. IsABag(rules')
      BY BagSteps DEF SetUp, ServiceInv, TypeOK
    <2>2. val.gateway \in {c.gateway : c \in Configs} /\ val.lan \in {c.lan : c \in Configs}
      BY DEF ServiceInv, TypeOK, FieldNames
    <2>3. {dhcpc', upnpd', yaddns', resolv'} \subseteq BOOLEAN
      BY DEF SetUp, ServiceInv, TypeOK
    <2>4. \A e \in dnsroutes' : e[2] \in {c.gateway : c \in Configs}
      BY <2>2 DEF SetUp, ServiceInv, TypeOK
    <2> QED
      BY <2>1, <2>2, <2>3, <2>4 DEF SetUp, ServiceInv, TypeOK, env
  <1>2. PlaceInv' /\ ClampedOnce' /\ DropsInv'
    BY DEF SetUp, ServiceInv, TypeOK, PlaceInv, ClampedOnce, DropsInv, Broken, env
  <1>3. SpacedInv'
    <2> SUFFICES ASSUME moves' = 0 PROVE SpacedInv'
      BY DEF SpacedInv
    <2>1. /\ moves = 0 /\ NotSetUp /\ drops = 0 /\ (dhcpc <=> ~Routed(net))
          /\ \A i \in 1 .. 6 : val[Fields[i]] = net[Fields[i]]
      BY DEF SetUp, ServiceInv, SpacedInv, Broken
    <2>2. \A f \in FieldNames : val[f] = net[f]
      BY <2>1 DEF Fields, FieldNames
    <2>3. Rules(val) = Rules(net)
      BY <2>2 DEF Rules, RuleSet, FieldNames
    <2>4. SetUpFor(net)'
      <3>1. rules' = Rules(net)
        BY <2>1, <2>3, RulesInAndOut DEF SetUp, NotSetUp
      <3>2. via' = net.gateway /\ lanroutes' = {net.lan}
        BY <2>1, <2>2 DEF SetUp, NotSetUp, FieldNames
      <3>3. upnpd' /\ resolv' /\ (yaddns' <=> net.infra # "gprs/ppp")
        BY <2>2 DEF SetUp, FieldNames
      <3>4. dnsroutes' = net.dns \X {net.gateway}
        <4>1. dnsroutes' = {<<d, net.gateway>> : d \in net.dns}
          BY <2>1, <2>2 DEF SetUp, NotSetUp, FieldNames
        <4> QED
          BY <4>1
      <3> QED
        BY <3>1, <3>2, <3>3, <3>4 DEF SetUp, SetUpFor, Rules, RuleSet, env
    <2> QED
      BY <2>1, <2>2, <2>4 DEF SetUp, SpacedInv, Broken, Routed, env
  <1> QED
    BY <1>1, <1>2, <1>3 DEF ServiceInv

\* The tables of a stop.
LEMMA CleanUpInv ==
  ASSUME ServiceInv, CleanUp
  PROVE  ServiceInv'
  <1> USE BoundsAssumption
  <1>1. TypeOK'
    <2>1. IsABag(rules')
      BY BagSteps DEF CleanUp, ServiceInv, TypeOK
    <2>2. {dhcpc', upnpd', yaddns', resolv'} \subseteq BOOLEAN
      BY DEF CleanUp, ServiceInv, TypeOK
    <2> QED
      BY <2>1, <2>2 DEF CleanUp, ServiceInv, TypeOK, env
  <1>2. PlaceInv' /\ ClampedOnce' /\ DropsInv'
    BY DEF CleanUp, ServiceInv, TypeOK, PlaceInv, ClampedOnce, DropsInv, Broken, env
  <1>3. SpacedInv'
    <2> SUFFICES ASSUME moves' = 0 PROVE SpacedInv'
      BY DEF SpacedInv
    <2>1. /\ moves = 0 /\ SetUpFor(net) /\ dhcpc
          /\ drops = IF adsl /\ starts > 0 THEN 1 ELSE 0
          /\ \A f \in FieldNames : val[f] = net[f]
      BY DEF CleanUp, ServiceInv, SpacedInv, Broken
    <2>2. Rules(val) = Rules(net)
      BY <2>1 DEF Rules, RuleSet, FieldNames
    <2>3. NotSetUp'
      <3>1. rules' = EmptyBag
        BY <2>1, <2>2, RulesInAndOut DEF CleanUp, SetUpFor
      <3>2. via' = NoGateway /\ lanroutes' = {}
        BY <2>1 DEF CleanUp, SetUpFor, FieldNames
      <3>3. dnsroutes' = {}
        BY <2>1 DEF CleanUp, SetUpFor, FieldNames
      <3> QED
        BY <3>1, <3>2, <3>3 DEF CleanUp, NotSetUp
    <2> QED
      BY <2>1, <2>3 DEF CleanUp, SpacedInv, Broken, env
  <1> QED
    BY <1>1, <1>2, <1>3 DEF ServiceInv

-----------------------------------------------------------------------------
(* Rules left behind                                                       *)

\* Three rules to a change.
LEMMA Thrice ==
  ASSUME NEW m \in Nat, NEW n \in Nat
  PROVE  /\ \A k \in Nat : n <= 3 * m /\ m <= k => n <= 3 * k
         /\ \A k \in Nat : n + 3 <= k /\ k <= 3 * m + 3 => n <= 3 * m
  OBVIOUS

\* A rule set is that of the values a script reads.
LEMMA SameRules ==
  ASSUME \A f \in FieldNames : val[f] = net[f]
  PROVE  RuleSet(val) = RuleSet(net)
  BY DEF RuleSet, FieldNames

\* A step that leaves the rules alone leaves their copies alone.
LEMMA SameCopies ==
  ASSUME rules' = rules
  PROVE  /\ copies' = copies /\ Copies(rules)' = Copies(rules)
         /\ BagToSet(rules)' = BagToSet(rules)
  BY DEF copies, Copies, BagToSet

\* What the invariant asks of a service that is down.
LEMMA LeftDown ==
  ASSUME script' = "down", IsFiniteSet(Copies(rules)'), copies' <= 3 * moves'
  PROVE  LeftInv'
  <1>1. script' # "start" /\ script' \notin {"up", "stop"}
    OBVIOUS
  <1> QED
    BY <1>1, Zenon DEF LeftInv

\* Before the first start no rule is there.
LEMMA LeftInit == Init => LeftInv
  <1> SUFFICES ASSUME Init PROVE LeftInv
    OBVIOUS
  <1>1. DOMAIN rules = {} /\ moves = 0 /\ script = "down"
    BY DEF Init, EmptyBag, SetToBag
  <1>2. Copies(rules) = {}
    BY <1>1 DEF Copies, BagToSet
  <1> QED
    BY <1>1, <1>2, FS_EmptySet DEF LeftInv, copies

\* A change that the service does not see from "down" pays for three rules.
LEMMA LeftEnvironment ==
  ASSUME ServiceInv, LeftInv, Ppp_adsl \/ \E c \in Configs : Publish(c)
  PROVE  LeftInv'
  <1>1. UNCHANGED <<rules, script, pc, val>>
    BY DEF Ppp_adsl, Publish, tables
  <1>2. moves \in Nat /\ moves' \in {moves, moves + 1}
    BY DEF ServiceInv, TypeOK, Ppp_adsl, Publish, Move
  <1>3. net' = net \/ script = "down" \/ moves' = moves + 1
    BY DEF Ppp_adsl, Publish, Move
  <1>4. IsFiniteSet(Copies(rules)) /\ copies \in Nat
    BY FS_CardinalityType DEF LeftInv, copies
  <1>5. CASE net' = net
    <2>1. RuleSet(net)' = RuleSet(net)
      BY <1>5 DEF RuleSet
    <2> QED
      BY <1>1, <1>2, <1>4, <1>5, <2>1, SameCopies DEF LeftInv
  <1>6. CASE script = "down"
    <2>1. copies <= 3 * moves
      BY <1>6 DEF LeftInv
    <2>2. script' = "down" /\ copies' <= 3 * moves' /\ IsFiniteSet(Copies(rules)')
      <3>1. script' = "down" /\ copies' = copies /\ IsFiniteSet(Copies(rules)')
        BY <1>1, <1>4, <1>6, SameCopies
      <3>2. moves <= moves' /\ moves' \in Nat
        BY <1>2
      <3>3. copies' <= 3 * moves'
        BY <1>2, <1>4, <2>1, <3>1, <3>2, Thrice
      <3> QED
        BY <3>1, <3>3
    <2> QED
      BY <2>2, LeftDown
  <1>7. CASE moves' = moves + 1
    BY <1>1, <1>2, <1>4, <1>7, SameCopies DEF LeftInv
  <1> QED
    BY <1>3, <1>5, <1>6, <1>7

\* start and stop begin and read the keys, with the rules as they are.
LEMMA LeftReading ==
  ASSUME ServiceInv, LeftInv, start \/ stop \/ Read \/ KludgeStart \/ KludgeStop
  PROVE  LeftInv'
  <1>1. UNCHANGED <<rules, net, moves>>
    BY DEF start, stop, Read, KludgeStart, KludgeStop, tables, env
  <1>2. RuleSet(net)' = RuleSet(net)
    BY <1>1 DEF RuleSet
  <1>3. moves \in Nat /\ IsFiniteSet(Copies(rules)) /\ copies \in Nat
    BY FS_CardinalityType DEF LeftInv, copies, ServiceInv, TypeOK
  <1>4. CASE start
    BY <1>1, <1>3, <1>4, SameCopies DEF LeftInv, start
  <1>5. CASE stop
    BY <1>1, <1>2, <1>3, <1>5, SameCopies DEF LeftInv, stop
  <1>6. CASE Read
    <2>1. /\ pc \in 1 .. 6 /\ pc' = pc + 1 /\ script' = script
          /\ val' = [val EXCEPT ![Fields[pc]] = net[Fields[pc]]]
          /\ DOMAIN val = FieldNames /\ Fields[pc] \in FieldNames
      BY <1>6 DEF Read, Fields, FieldNames, ServiceInv, TypeOK
    <2>2. \A i \in 1 .. 6 :
            i < pc' /\ (i < pc => val[Fields[i]] = net[Fields[i]]) =>
              val'[Fields[i]] = net[Fields[i]]
      BY <2>1 DEF Fields, FieldNames
    <2>3. (\A f \in FieldNames : val[f] = net[f]) => \A f \in FieldNames : val'[f] = net[f]
      BY <2>1
    <2> QED
      BY <1>1, <1>2, <1>3, <2>1, <2>2, <2>3, SameCopies DEF LeftInv
  <1>7. CASE KludgeStart \/ KludgeStop
    BY <1>1, <1>2, <1>3, <1>7, SameCopies DEF LeftInv, KludgeStart, KludgeStop
  <1> QED
    BY <1>4, <1>5, <1>6, <1>7

\* A start adds three rules: a change has paid for them, or stop will name them.
LEMMA LeftSetUp ==
  ASSUME ServiceInv, LeftInv, SetUp
  PROVE  LeftInv'
  <1>1. /\ pc = 8 /\ script = "start" /\ script' = "up" /\ rules' = rules (+) Rules(val)
        /\ UNCHANGED <<net, val, moves>>
    BY DEF SetUp, env
  <1>2. /\ moves \in Nat /\ IsFiniteSet(Copies(rules)) /\ copies \in Nat
        /\ IsABag(rules)
    BY FS_CardinalityType DEF LeftInv, copies, ServiceInv, TypeOK
  <1>3. /\ IsFiniteSet(Copies(rules')) /\ Cardinality(Copies(rules')) <= copies + 3
        /\ RuleSet(val) \subseteq BagToSet(rules')
    BY <1>1, <1>2, CopiesInserted DEF copies
  <1>4. copies' \in Nat /\ copies' <= copies + 3 /\ IsFiniteSet(Copies(rules)')
    BY <1>3, FS_CardinalityType DEF copies, Copies, BagToSet
  <1>5. CASE copies + 3 <= 3 * moves
    BY <1>1, <1>2, <1>4, <1>5 DEF LeftInv
  <1>6. CASE ~(copies + 3 <= 3 * moves)
    <2>1. copies <= 3 * moves /\ \A i \in 1 .. 6 : val[Fields[i]] = net[Fields[i]]
      BY <1>1, <1>6 DEF LeftInv
    <2>2. \A f \in FieldNames : val[f] = net[f]
      BY <2>1 DEF Fields, FieldNames
    <2>3. RuleSet(net)' \subseteq BagToSet(rules)'
      BY <1>1, <1>3, <2>2, SameRules DEF RuleSet, BagToSet
    <2> QED
      BY <1>1, <1>2, <1>4, <2>1, <2>2, <2>3 DEF LeftInv
  <1> QED
    BY <1>5, <1>6

\* A stop takes the three rules it names, or a change has paid for them.
LEMMA LeftCleanUp ==
  ASSUME ServiceInv, LeftInv, CleanUp
  PROVE  LeftInv'
  <1>1. /\ pc = 8 /\ script = "stop" /\ script' = "down" /\ rules' = rules (-) Rules(val)
        /\ UNCHANGED <<net, val, moves>>
    BY DEF CleanUp, env
  <1>2. /\ moves \in Nat /\ IsFiniteSet(Copies(rules)) /\ copies \in Nat
        /\ IsABag(rules)
    BY FS_CardinalityType DEF LeftInv, copies, ServiceInv, TypeOK
  <1>3. /\ IsFiniteSet(Copies(rules')) /\ Cardinality(Copies(rules')) <= copies
        /\ RuleSet(val) \subseteq BagToSet(rules) =>
             Cardinality(Copies(rules')) + 3 <= copies
    BY <1>1, <1>2, CopiesOut DEF copies
  <1>4. /\ copies' \in Nat /\ copies' <= copies /\ IsFiniteSet(Copies(rules)')
        /\ RuleSet(val) \subseteq BagToSet(rules) => copies' + 3 <= copies
    BY <1>3, FS_CardinalityType DEF copies, Copies, BagToSet
  <1>5. copies <= 3 * moves \/ (copies <= 3 * moves + 3
                                /\ RuleSet(val) \subseteq BagToSet(rules))
    BY <1>1, SameRules DEF LeftInv
  <1>6. copies' <= 3 * moves
    <2>1. 3 * moves \in Nat
      BY <1>2
    <2>2. CASE copies <= 3 * moves
      BY <1>2, <1>4, <2>1, <2>2
    <2>3. CASE copies <= 3 * moves + 3 /\ RuleSet(val) \subseteq BagToSet(rules)
      <3>1. copies' + 3 <= copies
        BY <1>4, <2>3
      <3> QED
        BY <1>2, <1>4, <2>3, <3>1, Thrice
    <2> QED
      BY <1>5, <2>2, <2>3
  <1> QED
    BY <1>1, <1>2, <1>4, <1>6, LeftDown

-----------------------------------------------------------------------------
(* The theorems                                                            *)

\* However the access changes under the service, segments are clamped once, the
\* DROP rules left behind are bounded by the changes, and so are the others.
THEOREM ServiceInvariant == Spec => []IInv
  <1>1. ServiceInv /\ [Next]_vars => ServiceInv'
    <2> SUFFICES ASSUME ServiceInv, [Next]_vars PROVE ServiceInv'
      OBVIOUS
    <2>1. CASE UNCHANGED vars
      BY <2>1 DEF vars, env, tables, daemons, ServiceInv, TypeOK, PlaceInv, ClampedOnce,
                  DropsInv, SpacedInv, Broken, SetUpFor, NotSetUp, Routed, Rules, RuleSet
    <2> QED
      BY <2>1, EnvironmentInv, ReadingInv, KludgeStartInv, KludgeStopInv, SetUpInv,
         CleanUpInv DEF Next
  <1>2. ServiceInv /\ LeftInv /\ [Next]_vars => LeftInv'
    <2> SUFFICES ASSUME ServiceInv, LeftInv, [Next]_vars PROVE LeftInv'
      OBVIOUS
    <2>1. CASE UNCHANGED vars
      BY <2>1, SameCopies DEF vars, env, tables, LeftInv, RuleSet
    <2> QED
      BY <2>1, LeftEnvironment, LeftReading, LeftSetUp, LeftCleanUp DEF Next
  <1>3. IInv <=> ServiceInv /\ LeftInv
    BY DEF IInv
  <1> QED
    BY <1>1, <1>2, <1>3, InitInv, LeftInit, PTL DEF Spec

\* As long as nothing changes under the service, what start set up is for the
\* access of now, and stop takes back all of it.
THEOREM StopUndoesStart == Spec => []SpacedData
  <1>1. IInv => SpacedData
    BY DEF IInv, ServiceInv, PlaceInv, SpacedInv, SpacedData, Broken
  <1> QED
    BY <1>1, ServiceInvariant, PTL

\* Stop names the rules it would insert now, and deletes a copy of what it
\* finds: so each change of the access under the service leaves behind at most
\* the three rules of one start.
THEOREM LeftoversBounded == Spec => []Contained
  <1>1. IInv => Contained
    BY DEF IInv, LeftInv, Contained
  <1> QED
    BY <1>1, ServiceInvariant, PTL
=============================================================================
