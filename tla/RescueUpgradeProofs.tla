------------------------ MODULE RescueUpgradeProofs ------------------------
(***************************************************************************)
(* Proofs about RescueUpgrade: for any links, any number of releases and   *)
(* parts and any number of failures, power cuts and link changes, only     *)
(* verified images of one release are burnt, all of them are verified      *)
(* before the first is burnt, and the box reboots only when all of them    *)
(* are in place.                                                           *)
(***************************************************************************)
EXTENDS RescueUpgrade, TLAPS

\* The initial state has the invariant: the flash holds nothing or release 1.
LEMMA InitInv == Init => IInv
  <1> SUFFICES ASSUME Init PROVE IInv
    OBVIOUS
  <1> USE ConstantsAssumption
  <1>1. /\ 1 \in Rel /\ Blank \in Contents /\ Whole(1) \in Contents
        /\ Nothing \in [Images -> 0 .. Releases] /\ Empty \in [Images -> Contents]
    BY DEF Rel, Blank, Whole, Contents, Nothing, Empty
  <1>2. PICK m \in {Blank, Whole(1)} :
              flash = [i \in Images |-> IF i = "main" THEN m ELSE Blank]
    BY DEF Init
  <1>3. pc \in PCs /\ LinkType
    BY DEF Init, PCs, LinkType, Phases, Infras
  <1>4. DescType /\ UpType
    BY <1>1 DEF Init, DescType, UpType, Infras, Images
  <1>5. TryType /\ EnvType
    <2>1. pc = "route" /\ try = 1 /\ server = 1 /\ flaps = 0 /\ fails = 0 /\ cuts = 0
      BY DEF Init
    <2> QED
      BY <1>1, <2>1 DEF TryType, EnvType
  <1>6. StoreType
    BY <1>1, <1>2 DEF Init, StoreType
  <1>7. DescInv
    BY <1>1 DEF Init, DescInv, OneRelease, Nothing
  <1>8. GetInv /\ BurnInv
    BY DEF Init, GetInv, BurnInv
  <1>9. OnlyGenuine
    BY <1>1, <1>2 DEF OnlyGenuine, Blank, Whole
  <1> QED
    BY <1>3, <1>4, <1>5, <1>6, <1>7, <1>8, <1>9 DEF IInv, TypeOK

\* What holds of contents: cutting and receiving keep them contents, and the
\* image of a release is of that release.
LEMMA ContentsFacts ==
  /\ Blank \in Contents
  /\ Nothing \in [Images -> 0 .. Releases]
  /\ Empty \in [Images -> Contents]
  /\ \A c \in Contents : Torn(c) \subseteq Contents
  /\ \A r \in Rel : Whole(r) \in Contents
  BY ConstantsAssumption
     DEF Blank, Contents, Nothing, Empty, Torn, Cut, Rel, Whole

\* Outside upgrade.sh the two invariants about its steps ask nothing.
LEMMA Resting ==
  ASSUME pc' \in {"route", "setup", "general", "firmware", "main"}
  PROVE  GetInv' /\ BurnInv'
  BY DEF GetInv, BurnInv

\* A step of a link script, and the publication of a release, change nothing the
\* upgrade relies on.
LEMMA EnvironmentInv ==
  ASSUME IInv,
         \/ WanUp
         \/ \E l \in Links : DslUp(l) \/ Fall(l) \/ Scripts(l)
         \/ Publish
  PROVE  IInv'
  <1> USE ConstantsAssumption
  <1> DEFINE Apart == /\ infra' = infra /\ via' = via /\ general' = general
                      /\ known' = known /\ manifest' = manifest /\ want' = want
                      /\ image' = image /\ try' = try /\ file' = file
                      /\ flash' = flash /\ pc' = pc /\ fails' = fails /\ cuts' = cuts
             Net   == /\ link' \in [Links -> Phases] /\ access' \in Infras
                      /\ route' \in Links \cup {"none"}
             Count == server' \in Rel /\ flaps' \in 0 .. MaxFlaps
  <1>0. LinkType /\ EnvType
    BY DEF IInv, TypeOK
  <1>1. Apart /\ Net /\ Count
    <2>1. CASE WanUp
      BY <1>0, <2>1 DEF WanUp, Rise, Phases, LinkType, EnvType, routeVars, descVars, upVars
    <2>2. ASSUME NEW l \in Links, DslUp(l) PROVE Apart /\ Net /\ Count
      BY <1>0, <2>2 DEF DslUp, Rise, Phases, LinkType, EnvType, routeVars, descVars, upVars
    <2>3. ASSUME NEW l \in Links, Fall(l) PROVE Apart /\ Net /\ Count
      <3>1. Apart /\ Net /\ server' = server
        BY <1>0, <2>3 DEF Fall, Phases, Infras, LinkType, routeVars, descVars, upVars
      <3>2. flaps < MaxFlaps /\ flaps' = flaps + 1
        BY <2>3 DEF Fall
      <3> QED
        BY <1>0, <3>1, <3>2 DEF EnvType
    <2>4. ASSUME NEW l \in Links, GatewayWritten(l) PROVE Apart /\ Net /\ Count
      BY <1>0, <2>4 DEF GatewayWritten, Phases, LinkType, EnvType, routeVars, descVars, upVars
    <2>5. ASSUME NEW l \in Links, AddressRemoved(l) PROVE Apart /\ Net /\ Count
      BY <1>0, <2>5 DEF AddressRemoved, Phases, LinkType, EnvType, routeVars, descVars, upVars
    <2>6. CASE Publish
      <3>1. Apart /\ Net /\ flaps' = flaps
        BY <1>0, <2>6 DEF Publish, LinkType, routeVars, descVars, upVars, netVars
      <3>2. server < Releases /\ server' = server + 1
        BY <2>6 DEF Publish
      <3> QED
        BY <1>0, <3>1, <3>2 DEF EnvType, Rel
    <2> QED
      BY <2>1, <2>2, <2>3, <2>4, <2>5, <2>6 DEF Scripts
  <1>2. pc' \in PCs /\ LinkType'
    BY <1>1 DEF IInv, TypeOK, LinkType
  <1>3. DescType' /\ UpType' /\ TryType' /\ StoreType'
    BY <1>1 DEF IInv, TypeOK, DescType, UpType, TryType, StoreType
  <1>4. EnvType'
    BY <1>1 DEF IInv, TypeOK, EnvType
  <1>5. DescInv' /\ OnlyGenuine'
    BY <1>1 DEF IInv, DescInv, OneRelease, OnlyGenuine
  <1>6. GetInv' /\ BurnInv'
    BY <1>1 DEF IInv, GetInv, BurnInv, Needed, Verified
  <1> QED
    BY <1>2, <1>3, <1>4, <1>5, <1>6 DEF IInv, TypeOK

\* setup_default_route: only the route and NET_INFRA change.
LEMMA RouteInv ==
  ASSUME IInv, ChooseLink \/ SetupRoute
  PROVE  IInv'
  <1> USE ConstantsAssumption
  <1>0. LinkType
    BY DEF IInv, TypeOK
  <1>1. /\ general' = general /\ known' = known /\ manifest' = manifest
        /\ want' = want /\ image' = image /\ try' = try /\ file' = file
        /\ flash' = flash /\ server' = server /\ link' = link /\ access' = access
        /\ flaps' = flaps /\ fails' = fails /\ cuts' = cuts
    BY DEF ChooseLink, SetupRoute, netVars, descVars, upVars
  <1>2. pc' \in {"route", "setup", "general"} /\ LinkType'
    <2>1. CASE ChooseLink
      <3> DEFINE there == {l \in Links : link[l] # "down"}
      <3>1. ASSUME there # {}
            PROVE  \E l \in there : \A m \in there : Prior(l) <= Prior(m)
        <4>1. CASE "wan" \in there
          BY <4>1 DEF Prior
        <4>2. CASE "wan" \notin there /\ "voip" \in there
          BY <4>2 DEF Prior
        <4>3. CASE "wan" \notin there /\ "voip" \notin there
          BY <3>1, <4>3 DEF Prior
        <4> QED
          BY <4>1, <4>2, <4>3
      <3>2. CASE there = {}
        BY <1>0, <1>1, <2>1, <3>2 DEF ChooseLink, LinkType
      <3>3. CASE there # {}
        <4>1. PICK l \in there : via' = l
          BY <2>1, <3>1, <3>3 DEF ChooseLink
        <4> QED
          BY <1>0, <1>1, <2>1, <3>3, <4>1 DEF ChooseLink, LinkType
      <3> QED
        BY <3>2, <3>3
    <2>2. CASE SetupRoute
      BY <1>0, <1>1, <2>2 DEF SetupRoute, LinkType, Infras
    <2> QED
      BY <2>1, <2>2
  <1>3. pc' \in PCs /\ DescType' /\ UpType' /\ TryType' /\ StoreType' /\ EnvType'
    BY <1>1, <1>2 DEF IInv, TypeOK, DescType, UpType, TryType, StoreType, EnvType, PCs
  <1>4. DescInv' /\ OnlyGenuine'
    BY <1>1 DEF IInv, DescInv, OneRelease, OnlyGenuine
  <1>5. GetInv' /\ BurnInv'
    BY <1>2, Resting
  <1> QED
    BY <1>2, <1>3, <1>4, <1>5 DEF IInv, TypeOK

\* autoconf_general and autoconf_firmware: whatever a download leaves of the
\* descriptions, the one upgrade.sh reads is of one release.
LEMMA FetchInv ==
  ASSUME IInv, FetchGeneral \/ FetchFirmware
  PROVE  IInv'
  <1> USE ConstantsAssumption
  <1>0. LinkType /\ DescType /\ UpType /\ TryType /\ StoreType /\ EnvType /\ DescInv
        /\ OnlyGenuine
    BY DEF IInv, TypeOK
  <1>1. /\ link' = link /\ access' = access /\ via' = via /\ route' = route
        /\ infra' = infra /\ file' = file /\ flash' = flash /\ server' = server
        /\ flaps' = flaps /\ cuts' = cuts
    BY DEF FetchGeneral, FetchFirmware, Upgrade, netVars, routeVars, upVars
  <1>2. fails' \in 0 .. MaxFails
    BY <1>0 DEF FetchGeneral, FetchFirmware, Fails, Breaks, EnvType
  <1>3. StoreType' /\ EnvType' /\ OnlyGenuine'
    BY <1>0, <1>1, <1>2 DEF StoreType, EnvType, OnlyGenuine
  <1>4. CASE FetchGeneral
    <2>1. infra \in Infras
      BY <1>0, <1>4 DEF LinkType, FetchGeneral
    <2>2. general' \in [Infras -> {"none", "cut", "whole"}]
      BY <1>0, <1>4, <2>1 DEF FetchGeneral, DescType
    <2>3. known' \in BOOLEAN
      BY <1>4 DEF FetchGeneral
    <2>4. /\ pc' \in {"route", "firmware"} /\ manifest' = manifest /\ want' = want
          /\ image' = image /\ try' = try
      BY <1>4 DEF FetchGeneral, upVars
    <2>5. pc' \in PCs /\ LinkType' /\ DescType' /\ UpType' /\ TryType'
      BY <1>0, <1>1, <2>1, <2>2, <2>3, <2>4
         DEF LinkType, DescType, UpType, TryType, PCs
    <2>6. DescInv'
      BY <1>0, <2>4 DEF DescInv, OneRelease
    <2>7. GetInv' /\ BurnInv'
      BY <2>4, Resting
    <2> QED
      BY <1>3, <2>5, <2>6, <2>7 DEF IInv, TypeOK
  <1>5. CASE FetchFirmware
    <2>1. OneRelease(Nothing) /\ Nothing \in [Images -> 0 .. Releases]
      BY ContentsFacts DEF OneRelease, Nothing, Rel
    <2>2. /\ manifest' \in [Images -> 0 .. Releases] \cup {NoFile}
          /\ manifest' # NoFile => OneRelease(manifest')
      <3>1. CASE manifest' = manifest
        BY <1>0, <3>1 DEF DescType, DescInv
      <3>2. ASSUME NEW got \in SUBSET Images,
                   manifest' = [i \in Images |-> IF i \in got THEN server ELSE 0]
            PROVE  manifest' \in [Images -> 0 .. Releases] /\ OneRelease(manifest')
        BY <1>0, <3>2 DEF EnvType, OneRelease, Rel
      <3>3. CASE manifest' = [i \in Images |-> server]
        BY <1>0, <3>3 DEF EnvType, OneRelease, Rel
      <3> QED
        BY <1>5, <3>1, <3>2, <3>3 DEF FetchFirmware
    <2>3. \/ pc' = "route" /\ want' = want /\ image' = image /\ try' = try
          \/ /\ pc' = "get" /\ image' = "main" /\ try' = 1
             /\ want' = Nothing \/ (want' = manifest' /\ manifest' # NoFile)
      BY <1>5 DEF FetchFirmware, Upgrade, upVars
    <2>4. want' \in [Images -> 0 .. Releases] /\ OneRelease(want')
      BY <1>0, <2>1, <2>2, <2>3 DEF UpType, DescInv
    <2>5. general' = general /\ known' = known
      BY <1>5 DEF FetchFirmware
    <2>6. pc' \in PCs /\ LinkType' /\ DescType' /\ UpType' /\ TryType'
      <3>1. pc' \in {"route", "get"} /\ try' \in 1 .. (Tries + 1) /\ image' \in Images
        BY <1>0, <2>3 DEF UpType, TryType, Images
      <3>2. DescType'
        BY <1>0, <2>2, <2>5 DEF DescType
      <3>3. LinkType'
        BY <1>0, <1>1, <3>1 DEF LinkType
      <3> QED
        BY <2>4, <3>1, <3>2, <3>3 DEF UpType, TryType, PCs
    <2>7. DescInv'
      BY <2>2, <2>4 DEF DescInv
    <2>8. GetInv' /\ BurnInv'
      BY <2>3 DEF GetInv, BurnInv
    <2> QED
      BY <1>3, <2>6, <2>7, <2>8 DEF IInv, TypeOK
  <1> QED
    BY <1>4, <1>5

\* safe_wget: the file of the current image may become anything, the images
\* before it stay as they were verified; the hash test then decides.
LEMMA DownloadInv ==
  ASSUME IInv, Wget \/ WgetGivesUp \/ Hash
  PROVE  IInv'
  <1> USE ConstantsAssumption
  <1>0. LinkType /\ DescType /\ UpType /\ TryType /\ StoreType /\ EnvType /\ DescInv
        /\ GetInv /\ OnlyGenuine
    BY DEF IInv, TypeOK
  <1>1. /\ link' = link /\ access' = access /\ via' = via /\ route' = route
        /\ infra' = infra /\ flash' = flash /\ server' = server
        /\ general' = general /\ known' = known /\ manifest' = manifest
        /\ flaps' = flaps /\ cuts' = cuts
    BY DEF Wget, WgetGivesUp, Hash, netVars, routeVars, descVars
  <1>2. fails' \in 0 .. MaxFails
    BY <1>0 DEF Wget, WgetGivesUp, Hash, Fails, Breaks, EnvType
  <1>3. DescType' /\ EnvType' /\ OnlyGenuine'
    BY <1>0, <1>1, <1>2 DEF DescType, EnvType, OnlyGenuine
  <1>4. CASE Wget \/ WgetGivesUp
    <2>1. /\ pc \in {"get", "hash"} /\ pc' \in {"get", "hash"}
          /\ want' = want /\ image' = image
      BY <1>4 DEF Wget, WgetGivesUp, upVars
    <2>2. try' \in 1 .. (Tries + 1)
      BY <1>0, <1>4 DEF Wget, WgetGivesUp, TryType, upVars
    <2>3. PICK c \in Contents : file' = [file EXCEPT ![image] = c]
      <3>1. CASE WgetGivesUp
        BY <1>0, <3>1 DEF WgetGivesUp, upVars, StoreType, UpType
      <3>2. ASSUME NEW beg, NEW end PROVE Received(file[image], beg, end) \in Contents
        BY <1>0 DEF Received, Contents, StoreType, UpType, EnvType, Rel
      <3>3. CASE Wget
        BY <3>2, <3>3, ContentsFacts DEF Wget
      <3> QED
        BY <1>4, <3>1, <3>3
    <2>4. pc' \in PCs /\ LinkType' /\ UpType' /\ TryType'
      BY <1>0, <1>1, <2>1, <2>2 DEF LinkType, UpType, TryType, PCs
    <2>5. StoreType'
      BY <1>0, <1>1, <2>3 DEF StoreType
    <2>6. DescInv'
      BY <1>0, <1>1, <2>1 DEF DescInv, OneRelease
    <2>7. GetInv' /\ BurnInv'
      BY <1>0, <1>1, <2>1, <2>3 DEF GetInv, BurnInv, Verified, StoreType, UpType, Images
    <2> QED
      BY <1>3, <2>4, <2>5, <2>6, <2>7 DEF IInv, TypeOK
  <1>5. CASE Hash /\ ~ Verified(image)
    <2>1. /\ pc' = "route" /\ want' = Nothing /\ image' = "main" /\ try' = 1
          /\ file' = [file EXCEPT ![image] = Blank]
      BY <1>5 DEF Hash, Exit, Verified
    <2>2. pc' \in PCs /\ LinkType' /\ UpType' /\ TryType'
      <3>1. TryType'
        BY <2>1 DEF TryType
      <3> QED
        BY <1>0, <1>1, <2>1, <3>1, ContentsFacts DEF LinkType, UpType, PCs, Images
    <2>3. StoreType'
      BY <1>0, <1>1, <2>1, ContentsFacts DEF StoreType
    <2>4. DescInv'
      BY <1>0, <1>1, <2>1 DEF DescInv, OneRelease, Nothing, Rel
    <2>5. GetInv' /\ BurnInv'
      BY <2>1, Resting
    <2> QED
      BY <1>3, <2>2, <2>3, <2>4, <2>5 DEF IInv, TypeOK
  <1>6. CASE Hash /\ Verified(image)
    <2>1. pc = "hash" /\ want' = want /\ file' = file /\ try' = 1
      BY <1>6 DEF Hash, Verified
    <2>2. \/ image = "main" /\ pc' = "get" /\ image' = "config"
          \/ image = "config" /\ infra = "dsl" /\ pc' = "get" /\ image' = "adsl"
          \/ image = "config" /\ infra # "dsl" /\ pc' = "erase" /\ image' = "main"
          \/ image = "adsl" /\ pc' = "erase" /\ image' = "main"
      BY <1>0, <1>6 DEF Hash, Verified, UpType, Images
    <2>3. pc' \in PCs /\ LinkType' /\ UpType' /\ TryType' /\ StoreType'
      <3>1. TryType'
        BY <2>1 DEF TryType
      <3>2. pc' \in {"get", "erase"} /\ image' \in Images
        BY <2>2 DEF Images
      <3> QED
        BY <1>0, <1>1, <2>1, <3>1, <3>2 DEF LinkType, UpType, StoreType, PCs
    <2>4. DescInv'
      BY <1>0, <1>1, <2>1 DEF DescInv, OneRelease
    <2>5. GetInv'
      BY <1>0, <1>1, <1>6, <2>1, <2>2 DEF GetInv, Verified
    <2>6. BurnInv'
      BY <1>0, <1>1, <1>6, <2>1, <2>2 DEF GetInv, BurnInv, Verified, Needed, Images
    <2> QED
      BY <1>3, <2>3, <2>4, <2>5, <2>6 DEF IInv, TypeOK
  <1> QED
    BY <1>4, <1>5, <1>6

\* The release that is being burnt.
LEMMA BurnsOneRelease ==
  ASSUME TypeOK, DescInv, NEW i \in Images, Verified(i)
  PROVE  /\ want[i] \in Rel
         /\ \A j \in Images : Verified(j) => want[j] = want[i]
         /\ \A k \in 1 .. Parts : file[i][k] = want[i]
  BY ConstantsAssumption DEF TypeOK, UpType, DescInv, OneRelease, Verified, Rel, Whole

\* A partition that was erased, written or torn still has parts of one release.
LEMMA StillGenuine ==
  ASSUME TypeOK, DescInv, OnlyGenuine, NEW i \in Images, Verified(i),
         NEW c \in {Blank, file[i]} \cup Torn(file[i]),
         flash' = [flash EXCEPT ![i] = c]
  PROVE  OnlyGenuine' /\ flash' \in [Images -> Contents]
  <1> USE ConstantsAssumption
  <1>1. c \in Contents
    BY ContentsFacts DEF TypeOK, StoreType
  <1>2. want[i] \in Rel /\ \A k \in 1 .. Parts : file[i][k] = want[i]
    BY BurnsOneRelease
  <1>3. \A k \in 1 .. Parts : c[k] \in {0, want[i]}
    BY <1>2 DEF Blank, Torn, Cut
  <1> QED
    BY <1>1, <1>2, <1>3 DEF OnlyGenuine, TypeOK, StoreType

\* safe_flashcp and the copy of the configuration.
LEMMA BurnStepInv ==
  ASSUME IInv, Erase \/ Write \/ CopyConfig
  PROVE  IInv'
  <1> USE ConstantsAssumption
  <1>0. LinkType /\ DescType /\ UpType /\ TryType /\ StoreType /\ EnvType /\ DescInv
        /\ BurnInv /\ OnlyGenuine /\ TypeOK
    BY DEF IInv, TypeOK
  <1>1. /\ link' = link /\ access' = access /\ via' = via /\ route' = route
        /\ infra' = infra /\ file' = file /\ server' = server
        /\ general' = general /\ known' = known /\ manifest' = manifest
        /\ flaps' = flaps /\ cuts' = cuts
    BY DEF Erase, Write, CopyConfig, netVars, routeVars, descVars, upVars
  <1>2. fails' \in 0 .. MaxFails
    BY <1>0 DEF Erase, Write, CopyConfig, Breaks, EnvType
  <1>3. DescType' /\ EnvType'
    BY <1>0, <1>1, <1>2 DEF DescType, EnvType
  <1>4. pc \in {"erase", "write", "config"}
    BY DEF Erase, Write, CopyConfig
  <1>5. \A i \in Needed : Verified(i)
    BY <1>0, <1>4 DEF BurnInv
  <1>6. pc \in {"erase", "write"} => image = "main" \/ (image = "adsl" /\ infra = "dsl")
    BY <1>0, <1>4 DEF BurnInv
  <1>7. Needed \subseteq Images /\ "main" \in Needed /\ "config" \in Needed
        /\ (infra = "dsl" => "adsl" \in Needed)
    BY DEF Needed, Images
  <1>8. CASE Erase
    <2>1. /\ pc = "erase" /\ pc' = "write" /\ want' = want /\ image' = image /\ try' = try
          /\ flash' = [flash EXCEPT ![image] = Blank]
      BY <1>8 DEF Erase, upVars
    <2>2. image \in Needed
      BY <1>6, <1>7, <2>1
    <2>3. OnlyGenuine' /\ StoreType'
      BY <1>0, <1>1, <1>5, <1>7, <2>1, <2>2, StillGenuine DEF StoreType
    <2>4. pc' \in PCs /\ LinkType' /\ UpType' /\ TryType'
      BY <1>0, <1>1, <2>1 DEF LinkType, UpType, TryType, PCs
    <2>5. DescInv' /\ GetInv'
      BY <1>0, <1>1, <2>1 DEF DescInv, OneRelease, GetInv
    <2>6. BurnInv'
      BY <1>0, <1>1, <1>5, <1>6, <2>1 DEF BurnInv, StoreType, Needed, Verified, Images
    <2> QED
      BY <1>3, <2>3, <2>4, <2>5, <2>6 DEF IInv, TypeOK
  <1>9. CASE Write
    <2>1. pc = "write" /\ image \in Needed
      BY <1>6, <1>7, <1>9 DEF Write
    <2>2. CASE flash' = [flash EXCEPT ![image] = file[image]] /\ image' = image /\ want' = want
               /\ try' = try /\ pc' = (IF image = "main" THEN "config" ELSE "reboot")
      <3>1. OnlyGenuine' /\ StoreType'
        BY <1>0, <1>1, <1>5, <1>7, <2>1, <2>2, StillGenuine DEF StoreType
      <3>2. pc' \in {"config", "reboot"}
        BY <2>2
      <3>3. pc' \in PCs /\ LinkType' /\ UpType' /\ TryType'
        BY <1>0, <1>1, <2>2, <3>2 DEF LinkType, UpType, TryType, PCs
      <3>4. DescInv' /\ GetInv'
        BY <1>0, <1>1, <2>2, <3>2 DEF DescInv, OneRelease, GetInv
      <3>5. BurnInv'
        BY <1>0, <1>1, <1>5, <1>6, <2>1, <2>2
           DEF BurnInv, StoreType, Needed, Verified, Images
      <3> QED
        BY <1>3, <3>1, <3>3, <3>4, <3>5 DEF IInv, TypeOK
    <2>3. ASSUME NEW t \in Torn(file[image]), flash' = [flash EXCEPT ![image] = t],
                 IF try = 2 THEN Exit
                 ELSE pc' = "erase" /\ try' = try + 1 /\ UNCHANGED <<want, image>>
          PROVE  IInv'
      <3>1. OnlyGenuine' /\ StoreType'
        BY <1>0, <1>1, <1>5, <1>7, <2>1, <2>3, StillGenuine DEF StoreType
      <3>2. CASE try = 2
        <4>1. pc' = "route" /\ want' = Nothing /\ image' = "main" /\ try' = 1
          BY <2>3, <3>2 DEF Exit
        <4>2. pc' \in PCs /\ LinkType' /\ UpType' /\ TryType'
          <5>1. TryType'
            BY <4>1 DEF TryType
          <5> QED
            BY <1>0, <1>1, <4>1, <5>1, ContentsFacts DEF LinkType, UpType, PCs, Images
        <4>3. DescInv'
          BY <1>0, <1>1, <4>1 DEF DescInv, OneRelease, Nothing, Rel
        <4>4. GetInv' /\ BurnInv'
          BY <4>1, Resting
        <4> QED
          BY <1>3, <3>1, <4>2, <4>3, <4>4 DEF IInv, TypeOK
      <3>3. CASE try # 2
        <4>1. pc' = "erase" /\ want' = want /\ image' = image /\ try' = try + 1
          BY <2>3, <3>3
        <4>2. TryType'
          BY <1>0, <2>1, <3>3, <4>1 DEF TryType
        <4>3. pc' \in PCs /\ LinkType' /\ UpType'
          BY <1>0, <1>1, <4>1 DEF LinkType, UpType, PCs
        <4>4. DescInv' /\ GetInv'
          BY <1>0, <1>1, <4>1 DEF DescInv, OneRelease, GetInv
        <4>5. BurnInv'
          BY <1>0, <1>1, <1>5, <1>6, <2>1, <2>3, <4>1
             DEF BurnInv, StoreType, Needed, Verified, Images
        <4> QED
          BY <1>3, <3>1, <4>2, <4>3, <4>4, <4>5 DEF IInv, TypeOK
      <3> QED
        BY <3>2, <3>3
    <2> QED
      BY <1>9, <2>2, <2>3 DEF Write
  <1>10. CASE CopyConfig
    <2>1. pc = "config" /\ want' = want
      BY <1>10 DEF CopyConfig
    <2>2. PICK c \in {file["config"]} \cup Torn(file["config"]) :
                flash' = [flash EXCEPT !["config"] = c]
      BY <1>10 DEF CopyConfig
    <2>3. \/ infra = "dsl" /\ pc' = "erase" /\ image' = "adsl" /\ try' = 1
          \/ infra # "dsl" /\ pc' = "reboot" /\ image' = image /\ try' = try
      BY <1>10 DEF CopyConfig
    <2>4. OnlyGenuine' /\ StoreType'
      BY <1>0, <1>1, <1>5, <1>7, <2>2, StillGenuine DEF StoreType
    <2>5. pc' \in {"erase", "reboot"} /\ image' \in Images /\ TryType'
      BY <1>0, <2>3 DEF UpType, TryType, Images
    <2>6. pc' \in PCs /\ LinkType' /\ UpType'
      BY <1>0, <1>1, <2>1, <2>5 DEF LinkType, UpType, PCs
    <2>7. DescInv' /\ GetInv'
      BY <1>0, <1>1, <2>1, <2>5 DEF DescInv, OneRelease, GetInv
    <2>8. BurnInv'
      BY <1>0, <1>1, <1>5, <2>1, <2>2, <2>3
         DEF BurnInv, StoreType, Needed, Verified, Images
    <2> QED
      BY <1>3, <2>4, <2>5, <2>6, <2>7, <2>8 DEF IInv, TypeOK
  <1> QED
    BY <1>8, <1>9, <1>10

\* A reboot or a power cut loses everything but the flash.
LEMMA BootInv ==
  ASSUME IInv, Reboot \/ PowerCut
  PROVE  IInv'
  <1> USE ConstantsAssumption
  <1>0. StoreType /\ EnvType /\ OnlyGenuine /\ Boot
    BY DEF IInv, TypeOK, Reboot, PowerCut
  <1>1. cuts' \in 0 .. MaxCuts
    BY <1>0 DEF Reboot, PowerCut, EnvType
  <1>2. pc' \in {"main", "route"}
    BY <1>0 DEF Boot
  <1>3. flash' = flash \/ flash' = [flash EXCEPT !["config"] = Blank]
    BY <1>0 DEF Boot
  <1>4. pc' \in PCs /\ LinkType'
    BY <1>0, <1>2 DEF Boot, LinkType, PCs, Phases, Infras
  <1>5. general' \in [Infras -> {"none", "cut", "whole"}]
        /\ manifest' = NoFile /\ want' = Nothing /\ image' = "main"
    BY <1>0 DEF Boot
  <1>6. known' \in BOOLEAN
    BY <1>0 DEF Boot
  <1>7. DescType' /\ UpType'
    BY <1>5, <1>6, ContentsFacts DEF DescType, UpType, Images
  <1>8. try' = 1 /\ server' = server /\ flaps' = flaps /\ fails' = fails
    BY <1>0 DEF Boot
  <1>9. TryType' /\ EnvType'
    BY <1>0, <1>1, <1>2, <1>8 DEF TryType, EnvType
  <1>10. StoreType' /\ OnlyGenuine'
    <2>1. StoreType'
      BY <1>0, <1>3, ContentsFacts DEF StoreType, Boot
    <2>2. OnlyGenuine'
      BY <1>0, <1>3 DEF OnlyGenuine, StoreType, Blank
    <2> QED
      BY <2>1, <2>2
  <1>11. DescInv'
    BY <1>5 DEF DescInv, OneRelease, Nothing, Rel
  <1>12. GetInv' /\ BurnInv'
    BY <1>2, Resting
  <1> QED
    BY <1>4, <1>7, <1>9, <1>10, <1>11, <1>12 DEF IInv, TypeOK

\* Every step preserves the invariant.
LEMMA NextInv ==
  ASSUME IInv, [Next]_vars
  PROVE  IInv'
  <1>1. CASE Script
    BY <1>1, RouteInv, FetchInv, DownloadInv, BurnStepInv, BootInv DEF Script
  <1>2. CASE UNCHANGED vars
    <2>1. TypeOK'
      BY <1>2 DEF vars, IInv, TypeOK, LinkType, DescType, UpType, TryType, StoreType, EnvType
    <2>2. DescInv' /\ OnlyGenuine'
      BY <1>2 DEF vars, IInv, DescInv, OneRelease, OnlyGenuine
    <2>3. GetInv' /\ BurnInv'
      BY <1>2 DEF vars, IInv, GetInv, BurnInv, Verified, Needed
    <2> QED
      BY <2>1, <2>2, <2>3 DEF IInv
  <1> QED
    BY <1>1, <1>2, EnvironmentInv, BootInv DEF Next

\* upgrade.sh keeps its invariant in every behaviour of the rescue system, with
\* any number of releases, failures, power cuts and changes of the links.
THEOREM UpgradeInvariant == Spec => []IInv
  BY InitInv, NextInv, PTL DEF Spec

\* Whatever "wget -c" puts together and whatever is interrupted, no partition
\* ever holds parts of two releases.
THEOREM FlashGenuine == Spec => []OnlyGenuine
  <1>1. IInv => OnlyGenuine
    BY DEF IInv
  <1> QED
    BY <1>1, UpgradeInvariant, PTL

\* The box reboots into a main system whose configuration and adsl firmware are
\* of its own release.
THEOREM RebootsTogether == Spec => []InstalledTogether
  <1>1. ASSUME IInv PROVE InstalledTogether
    <2> SUFFICES ASSUME pc = "reboot" PROVE InstalledTogether
      BY DEF InstalledTogether
    <2>1. \A i \in Needed : Verified(i)
      BY <1>1 DEF IInv, BurnInv
    <2>2. "main" \in Needed /\ "config" \in Needed /\ Needed \subseteq Images
          /\ (infra = "dsl" => "adsl" \in Needed)
      BY DEF Needed, Images
    <2>3. want["main"] \in Rel /\ \A i \in Needed : want[i] = want["main"]
      BY <1>1, <2>1, <2>2, BurnsOneRelease DEF IInv
    <2>4. \A i \in Needed : file[i] = Whole(want["main"])
      BY <2>1, <2>3 DEF Verified
    <2>5. /\ flash["main"] = file["main"]
          /\ flash["config"] \in {file["config"]} \cup Torn(file["config"])
          /\ infra = "dsl" => flash["adsl"] = file["adsl"]
      BY <1>1 DEF IInv, BurnInv
    <2> QED
      BY <2>2, <2>3, <2>4, <2>5 DEF InstalledTogether
  <1> QED
    BY <1>1, UpgradeInvariant, PTL

\* The main system is overwritten only when everything that replaces it is in
\* memory and verified.
THEOREM BurnsVerifiedOnly == Spec => BurnsWhenComplete
  <1> DEFINE Burns == flash'["main"] # flash["main"] =>
                        \A i \in Needed : want[i] # 0 /\ file[i] = Whole(want[i])
  <1>1. ASSUME IInv, [Next]_vars PROVE [Burns]_vars
    <2>1. CASE flash' = flash
      BY <2>1
    <2>2. CASE Erase \/ Write \/ CopyConfig
      BY <1>1, <2>2 DEF IInv, BurnInv, Verified, Erase, Write, CopyConfig
    <2>3. CASE Boot
      BY <1>1, <2>3 DEF Boot, IInv, TypeOK, StoreType, Images
    <2>4. CASE ChooseLink \/ SetupRoute \/ FetchGeneral \/ FetchFirmware \/ Wget
               \/ WgetGivesUp \/ Hash \/ WanUp \/ Publish
      BY <2>1, <2>4 DEF ChooseLink, SetupRoute, FetchGeneral, FetchFirmware, Wget,
                        WgetGivesUp, Hash, WanUp, Rise, Publish
    <2>5. ASSUME NEW l \in Links, DslUp(l) \/ Fall(l) \/ Scripts(l) PROVE [Burns]_vars
      BY <2>1, <2>5 DEF DslUp, Rise, Fall, Scripts, GatewayWritten, AddressRemoved
    <2>6. CASE UNCHANGED vars
      BY <2>6
    <2> QED
      BY <1>1, <2>2, <2>3, <2>4, <2>5, <2>6 DEF Next, Script, Reboot, PowerCut
  <1> QED
    BY <1>1, UpgradeInvariant, PTL DEF Spec, BurnsWhenComplete
============================================================================
