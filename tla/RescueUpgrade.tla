--------------------------- MODULE RescueUpgrade ---------------------------
(***************************************************************************)
(* The rescue system of the box: rescue/usr/sbin/autoconf.sh loops until   *)
(* it has found a route and the description of the current firmware, then  *)
(* rescue/usr/sbin/upgrade.sh downloads, verifies and burns the images and *)
(* reboots into the main system.  The DHCP and PPP scripts of the rescue   *)
(* system run beside it and create or remove the files it reads.           *)
(*                                                                         *)
(* An image is a number of parts, each tagged with the release it belongs  *)
(* to, 0 for a part that is not there: a partial download, the mixture of  *)
(* two releases that "wget -c" makes of a partial file, and a torn         *)
(* partition are different things.                                         *)
(***************************************************************************)
EXTENDS Naturals

CONSTANTS Links,      \* the links of this box, a subset of wan, voip, ppp
          Releases,   \* the operator publishes releases 1 .. Releases
          Parts,      \* the parts of an image
          Tries,      \* downloads of an image before giving up (5 in the code)
          MaxFlaps,   \* bound: links that go down
          MaxFails,   \* bound: downloads, copies and burnings that fail
          MaxCuts     \* bound: power cuts

ASSUME ConstantsAssumption ==
  /\ Links \subseteq {"wan", "voip", "ppp"} /\ Links # {}
  /\ Releases \in Nat \ {0}
  /\ Parts \in Nat \ {0}
  /\ Tries \in Nat \ {0}
  /\ MaxFlaps \in Nat /\ MaxFails \in Nat /\ MaxCuts \in Nat

VARIABLES
  link,      \* the files of each link: "down" none; "rising" its address is
             \* written, its gateway not yet; "up" all; "falling" only its
             \* address is left
  access,    \* what /var/dhcp/wan-access says, when it is there
  via,       \* autoconf.sh: the link whose address file exists
  route,     \* the default route: a link, or "none"
  infra,     \* NET_INFRA
  general,   \* the general description in /tmp/autoconf, one per infra:
             \* "none", "cut" or "whole"
  known,     \* FIRMWARE_FILE and its URL are set in the shell
  manifest,  \* the firmware description in /tmp/autoconf: NoFile, or the
             \* release of each image (0: the file has no line for it)
  want,      \* upgrade.sh: what it read of the firmware description
  image,     \* upgrade.sh: the image being downloaded or burnt
  try,       \* upgrade.sh: the loop counter of safe_wget and safe_flashcp
  file,      \* the downloaded images
  flash,     \* the partitions main and adslphy, and system.xml
  pc,        \* where the scripts are; "main": the main system has booted
  server,    \* the release the operator's server publishes
  flaps, fails, cuts  \* bounded environment events so far

netVars  == <<link, access, flaps>>
routeVars == <<via, route, infra>>
descVars == <<general, known, manifest>>
upVars   == <<want, image, try, file>>
vars == <<link, access, via, route, infra, general, known, manifest, want,
          image, try, file, flash, pc, server, flaps, fails, cuts>>

Images   == {"main", "config", "adsl"}
Phases   == {"down", "rising", "up", "falling"}
Infras   == {"thd", "dsl"}
Rel      == 1 .. Releases
Contents == [1 .. Parts -> 0 .. Releases]
NoFile   == <<>>
Nothing  == [i \in Images |-> 0]
Blank    == [k \in 1 .. Parts |-> 0]
Empty    == [i \in Images |-> Blank]

\* the image of release r, and what is left of contents c from part n + 1 on lost
Whole(r)  == [k \in 1 .. Parts |-> r]
Cut(c, n) == [k \in 1 .. Parts |-> IF k <= n THEN c[k] ELSE 0]
Torn(c)   == {Cut(c, n) : n \in 0 .. (Parts - 1)}

Complete(c) == \A k \in 1 .. Parts : c[k] # 0
Size(c)     == CHOOSE n \in 0 .. Parts : \A k \in 1 .. Parts : c[k] # 0 <=> k <= n

----------------------------------------------------------------------------
(* The links.  Every script writes the address before the gateway; "rm -f  *)
(* .../wan-*" removes access and gateway before the address.               *)

Rise(l) ==
  /\ l \in Links /\ link[l] = "down" /\ pc # "main"
  /\ link' = [link EXCEPT ![l] = "rising"]
  /\ UNCHANGED <<routeVars, descVars, upVars, flash, pc, server, flaps, fails, cuts>>

\* wan.script ipup: the access is written before the address
WanUp == \E a \in Infras : Rise("wan") /\ access' = a

\* voip.script ipup and ppp/ip-up
DslUp(l) == l # "wan" /\ Rise(l) /\ UNCHANGED access

\* the last file of ipup and ip-up, and the address of the interface
GatewayWritten(l) ==
  /\ link[l] = "rising" /\ pc # "main"
  /\ link' = [link EXCEPT ![l] = "up"]
  /\ UNCHANGED <<access, flaps, routeVars, descVars, upVars, flash, pc, server,
                 fails, cuts>>

\* deconfig, leasefail, nak; ppp/ip-down
Fall(l) ==
  /\ link[l] = "up" /\ pc # "main" /\ flaps < MaxFlaps
  /\ link' = [link EXCEPT ![l] = "falling"]
  /\ access' = IF l = "wan" THEN "thd" ELSE access
  /\ flaps' = flaps + 1
  /\ UNCHANGED <<routeVars, descVars, upVars, flash, pc, server, fails, cuts>>

\* the address file goes last; "ifconfig 0.0.0.0" takes the route with it
AddressRemoved(l) ==
  /\ link[l] = "falling" /\ pc # "main"
  /\ link' = [link EXCEPT ![l] = "down"]
  /\ route' = IF route = l THEN "none" ELSE route
  /\ UNCHANGED <<access, flaps, via, infra, descVars, upVars, flash, pc, server,
                 fails, cuts>>

----------------------------------------------------------------------------
(* autoconf.sh                                                             *)

\* setup_default_route tests the links in this order
Prior(l) == CASE l = "wan" -> 1 [] l = "voip" -> 2 [] l = "ppp" -> 3

\* the tests [ -e ...-ipaddr ]
ChooseLink ==
  /\ pc = "route"
  /\ LET there == {l \in Links : link[l] # "down"} IN
     IF there = {}
       THEN infra' = "" /\ UNCHANGED <<pc, via>>
       ELSE /\ via' = CHOOSE l \in there : \A m \in there : Prior(l) <= Prior(m)
            /\ pc' = "setup"
            /\ UNCHANGED infra
  /\ UNCHANGED <<netVars, route, descVars, upVars, flash, server, fails, cuts>>

\* "ip route replace" fails when there is no gateway to read, and the access of
\* a link that went down since the test reads as the empty string
SetupRoute ==
  /\ pc = "setup"
  /\ route' = IF link[via] = "up" THEN via ELSE route
  /\ via' = "none"
  /\ infra' = IF via # "wan" THEN "dsl"
              ELSE IF link["wan"] \in {"rising", "up"} THEN access ELSE ""
  /\ pc' = IF infra' = "" THEN "route" ELSE "general"
  /\ UNCHANGED <<netVars, descVars, upVars, flash, server, fails, cuts>>

Reachable == route # "none" /\ link[route] = "up"

\* A download that breaks off, for a reason of the network or of its own, and one
\* that does not begin although the network works, are counted.
Breaks == fails < MaxFails /\ fails' = fails + 1
Fails  == IF Reachable THEN Breaks ELSE UNCHANGED fails

\* "wget -O f": the file is truncated when the answer begins, so that a failed
\* download leaves the old file, or a part of the new one
FetchGeneral ==
  /\ pc = "general"
  /\ \/ Reachable /\ general' = [general EXCEPT ![infra] = "whole"] /\ UNCHANGED fails
     \/ Fails /\ UNCHANGED general
     \/ Breaks /\ general' = [general EXCEPT ![infra] = "cut"]
  /\ pc' = IF general'[infra] = "none" THEN "route" ELSE "firmware"
  /\ known' = (known \/ general'[infra] = "whole")
  /\ UNCHANGED <<netVars, routeVars, manifest, upVars, flash, server, cuts>>

\* start of upgrade.sh: it reads its file, and begins with the main image
Upgrade(m) ==
  /\ want' = m
  /\ image' = "main"
  /\ try' = 1
  /\ pc' = "get"
  /\ UNCHANGED file

\* without FIRMWARE_FILE the test "-e" finds the directory and upgrade.sh
\* reads nothing; a description cut short lacks some of its lines
FetchFirmware ==
  /\ pc = "firmware"
  /\ IF ~known
       THEN UNCHANGED <<manifest, fails>> /\ Upgrade(Nothing)
       ELSE /\ \/ /\ Reachable /\ UNCHANGED fails
                  /\ manifest' = [i \in Images |-> server]
               \/ Fails /\ UNCHANGED manifest
               \/ /\ Breaks
                  /\ \E got \in SUBSET Images :
                       manifest' = [i \in Images |-> IF i \in got THEN server ELSE 0]
            /\ IF manifest' = NoFile
                 THEN pc' = "route" /\ UNCHANGED upVars
                 ELSE Upgrade(manifest')
  /\ UNCHANGED <<netVars, routeVars, general, known, flash, server, cuts>>

----------------------------------------------------------------------------
(* upgrade.sh                                                              *)

\* "restart all": upgrade.sh and its variables end, autoconf.sh goes round its loop
Exit == pc' = "route" /\ want' = Nothing /\ image' = "main" /\ try' = 1

\* wget -c from part beg on, up to part end: beg is the size of the file, or 0
\* when the server knows no ranges and sends it all
Received(c, beg, end) ==
  [k \in 1 .. Parts |-> IF beg < k /\ k <= end THEN server ELSE c[k]]

\* a download that succeeded (a finished file answers 416, success), stalled or
\* was closed (the file is kept) or failed (the file is removed)
Wget ==
  /\ pc = "get" /\ want[image] # 0 /\ try <= Tries
  /\ \/ /\ Reachable
        /\ \E beg \in {0, Size(file[image])} :
             file' = [file EXCEPT ![image] = Received(@, beg, Parts)]
        /\ pc' = "hash" /\ UNCHANGED <<try, fails>>
     \/ /\ Breaks
        /\ \E beg \in {0, Size(file[image])}, end \in 0 .. Parts :
             file' = [file EXCEPT ![image] = Received(@, beg, end)]
        /\ try' = try + 1 /\ UNCHANGED pc
     \/ /\ Fails
        /\ file' = [file EXCEPT ![image] = Blank]
        /\ try' = try + 1 /\ UNCHANGED pc
  /\ UNCHANGED <<netVars, routeVars, descVars, want, image, flash, server, cuts>>

\* the loop ends after Tries downloads, or at once when there is no file name
WgetGivesUp ==
  /\ pc = "get" /\ (want[image] = 0 \/ try > Tries)
  /\ pc' = "hash"
  /\ UNCHANGED <<netVars, routeVars, descVars, upVars, flash, server, fails, cuts>>

\* Mistake: a hash that does not match is reported only
HashUnchecked ==
  /\ pc = "hash"
  /\ IF image = "main" \/ (image = "config" /\ infra = "dsl")
       THEN pc' = "get" /\ image' = (IF image = "main" THEN "config" ELSE "adsl")
       ELSE pc' = "erase" /\ image' = "main"
  /\ try' = 1
  /\ UNCHANGED <<netVars, routeVars, descVars, want, file, flash, server, fails, cuts>>

\* Mistake: the file whose hash does not match is kept
HashKeepsFile ==
  /\ pc = "hash"
  /\ IF want[image] # 0 /\ file[image] = Whole(want[image])
       THEN /\ try' = 1
            /\ IF image = "main" \/ (image = "config" /\ infra = "dsl")
                 THEN pc' = "get" /\ image' = (IF image = "main" THEN "config" ELSE "adsl")
                 ELSE pc' = "erase" /\ image' = "main"
            /\ UNCHANGED want
       ELSE Exit
  /\ UNCHANGED <<netVars, routeVars, descVars, file, flash, server, fails, cuts>>

\* Mistake: the main image is burnt before the others are downloaded
HashBurnsAtOnce ==
  /\ pc = "hash"
  /\ IF want[image] # 0 /\ file[image] = Whole(want[image])
       THEN pc' = "erase" /\ image' = "main" /\ try' = 1 /\ UNCHANGED <<want, file>>
       ELSE file' = [file EXCEPT ![image] = Blank] /\ Exit
  /\ UNCHANGED <<netVars, routeVars, descVars, flash, server, fails, cuts>>

\* sha256sum -c, then the next image; the adsl image only on a dsl access
Hash ==
  /\ pc = "hash"
  /\ IF want[image] # 0 /\ file[image] = Whole(want[image])
       THEN /\ try' = 1
            /\ IF image = "main" \/ (image = "config" /\ infra = "dsl")
                 THEN pc' = "get" /\ image' = (IF image = "main" THEN "config" ELSE "adsl")
                 ELSE pc' = "erase" /\ image' = "main"
            /\ UNCHANGED <<want, file>>
       ELSE file' = [file EXCEPT ![image] = Blank] /\ Exit
  /\ UNCHANGED <<netVars, routeVars, descVars, flash, server, fails, cuts>>

\* flashcp erases the partition first
Erase ==
  /\ pc = "erase"
  /\ flash' = [flash EXCEPT ![image] = Blank]
  /\ pc' = "write"
  /\ UNCHANGED <<netVars, routeVars, descVars, upVars, server, fails, cuts>>

\* Mistake: a second failure is not fatal
WriteGoesOn ==
  /\ pc = "write"
  /\ \/ /\ flash' = [flash EXCEPT ![image] = file[image]]
        /\ pc' = (IF image = "main" THEN "config" ELSE "reboot")
        /\ UNCHANGED <<try, fails>>
     \/ /\ Breaks
        /\ \E t \in Torn(file[image]) : flash' = [flash EXCEPT ![image] = t]
        /\ IF try = 2 THEN pc' = (IF image = "main" THEN "config" ELSE "reboot") /\ UNCHANGED try
                      ELSE pc' = "erase" /\ try' = try + 1
  /\ UNCHANGED <<netVars, routeVars, descVars, want, image, file, server, cuts>>

\* flashcp writes and verifies; safe_flashcp tries twice
Write ==
  /\ pc = "write"
  /\ \/ /\ flash' = [flash EXCEPT ![image] = file[image]]
        /\ pc' = (IF image = "main" THEN "config" ELSE "reboot")
        /\ UNCHANGED <<want, image, try, fails>>
     \/ /\ Breaks
        /\ \E t \in Torn(file[image]) : flash' = [flash EXCEPT ![image] = t]
        /\ IF try = 2 THEN Exit
                      ELSE pc' = "erase" /\ try' = try + 1 /\ UNCHANGED <<want, image>>
  /\ UNCHANGED <<netVars, routeVars, descVars, file, server, cuts>>

\* cp -f $CONFIG_FILE /etc/config/system.xml: its result is not tested
CopyConfig ==
  /\ pc = "config"
  /\ \/ flash' = [flash EXCEPT !["config"] = file["config"]] /\ UNCHANGED fails
     \/ /\ Breaks
        /\ \E t \in Torn(file["config"]) : flash' = [flash EXCEPT !["config"] = t]
  /\ IF infra = "dsl" THEN pc' = "erase" /\ image' = "adsl" /\ try' = 1
                      ELSE pc' = "reboot" /\ UNCHANGED <<image, try>>
  /\ UNCHANGED <<netVars, routeVars, descVars, want, file, server, cuts>>

\* The boot loader starts the main system when its partition is complete, the
\* rescue system otherwise; init.d/config of the rescue system erases the
\* configuration.  /tmp and /var are in memory.
Boot ==
  /\ link' = [l \in Links |-> "down"] /\ access' = "thd"
  /\ via' = "none" /\ route' = "none" /\ infra' = ""
  /\ general' = [a \in Infras |-> "none"] /\ known' = FALSE /\ manifest' = NoFile
  /\ want' = Nothing /\ image' = "main" /\ try' = 1 /\ file' = Empty
  /\ IF Complete(flash["main"])
       THEN pc' = "main" /\ UNCHANGED flash
       ELSE pc' = "route" /\ flash' = [flash EXCEPT !["config"] = Blank]
  /\ UNCHANGED <<server, flaps, fails>>

Reboot == pc = "reboot" /\ Boot /\ UNCHANGED cuts

PowerCut == pc # "main" /\ cuts < MaxCuts /\ cuts' = cuts + 1 /\ Boot

\* the operator publishes the next release under the same names
Publish ==
  /\ pc # "main" /\ server < Releases
  /\ server' = server + 1
  /\ UNCHANGED <<netVars, routeVars, descVars, upVars, flash, pc, fails, cuts>>

Init ==
  /\ link = [l \in Links |-> "down"] /\ access = "thd"
  /\ via = "none" /\ route = "none" /\ infra = ""
  /\ general = [a \in Infras |-> "none"] /\ known = FALSE /\ manifest = NoFile
  /\ want = Nothing /\ image = "main" /\ try = 1 /\ file = Empty
  /\ flash \in {[i \in Images |-> IF i = "main" THEN m ELSE Blank] : m \in {Blank, Whole(1)}}
  /\ pc = "route" /\ server = 1
  /\ flaps = 0 /\ fails = 0 /\ cuts = 0

Script ==
  \/ ChooseLink \/ SetupRoute \/ FetchGeneral \/ FetchFirmware
  \/ Wget \/ WgetGivesUp \/ Hash \/ Erase \/ Write \/ CopyConfig \/ Reboot

Scripts(l) == GatewayWritten(l) \/ AddressRemoved(l)

Next ==
  \/ Script
  \/ WanUp
  \/ \E l \in Links : DslUp(l) \/ Fall(l) \/ Scripts(l)
  \/ PowerCut
  \/ Publish

Spec == Init /\ [][Next]_vars

\* The shell goes on with the script, and a link script that began ends.  That
\* a link comes up, falls, or that something fails, is nobody's promise.
FairSpec == Spec /\ WF_vars(Script) /\ \A l \in Links : WF_vars(Scripts(l))

----------------------------------------------------------------------------
PCs == {"route", "setup", "general", "firmware", "get", "hash", "erase", "write",
        "config", "reboot", "main"}

LinkType  == /\ link \in [Links -> Phases] /\ access \in Infras
             /\ via \in Links \cup {"none"} /\ route \in Links \cup {"none"}
             /\ infra \in Infras \cup {""}
             /\ pc = "setup" => via \in Links
             /\ pc \in {"general", "firmware"} => infra \in Infras
DescType  == /\ general \in [Infras -> {"none", "cut", "whole"}] /\ known \in BOOLEAN
             /\ manifest \in [Images -> 0 .. Releases] \cup {NoFile}
UpType    == want \in [Images -> 0 .. Releases] /\ image \in Images
TryType   == try \in 1 .. (Tries + 1) /\ (pc \in {"erase", "write"} => try <= 2)
StoreType == file \in [Images -> Contents] /\ flash \in [Images -> Contents]
EnvType   == /\ server \in Rel
             /\ flaps \in 0 .. MaxFlaps /\ fails \in 0 .. MaxFails /\ cuts \in 0 .. MaxCuts

TypeOK == pc \in PCs /\ LinkType /\ DescType /\ UpType /\ TryType /\ StoreType /\ EnvType

Needed == IF infra = "dsl" THEN Images ELSE Images \ {"adsl"}

Verified(i) == want[i] # 0 /\ file[i] = Whole(want[i])

OneRelease(m) == \E r \in Rel : \A i \in Images : m[i] \in {0, r}

\* What the script has established at each of its steps: the description is of
\* one release; the images before the current one are verified; all of them are
\* once burning begins; the partitions already burnt hold them.
DescInv == (manifest # NoFile => OneRelease(manifest)) /\ OneRelease(want)

GetInv ==
  pc \in {"get", "hash"} =>
    /\ image # "main" => Verified("main")
    /\ image = "adsl" => Verified("config") /\ infra = "dsl"

BurnInv ==
  pc \in {"erase", "write", "config", "reboot"} =>
    /\ \A i \in Needed : Verified(i)
    /\ pc \in {"erase", "write"} => image = "main" \/ (image = "adsl" /\ infra = "dsl")
    /\ pc \in {"config", "reboot"} \/ image # "main" => flash["main"] = file["main"]
    /\ pc = "reboot" \/ (pc # "config" /\ image # "main") =>
         flash["config"] \in {file["config"]} \cup Torn(file["config"])
    /\ pc = "reboot" /\ infra = "dsl" => flash["adsl"] = file["adsl"]

\* Only images that match the operator's hash are burnt: a partition never mixes
\* releases, whatever "wget -c" put together from partial files of different
\* releases (safe_wget's hash test).
OnlyGenuine ==
  \A i \in Images : \E r \in Rel : \A k \in 1 .. Parts : flash[i][k] \in {0, r}

IInv == TypeOK /\ DescInv /\ GetInv /\ BurnInv /\ OnlyGenuine

\* When upgrade.sh reboots, the main system, its configuration and, on a dsl
\* access, the adsl firmware are those of one release; the configuration, whose
\* copy is not tested, may be a beginning of it.
InstalledTogether ==
  pc = "reboot" =>
    \E r \in Rel :
      /\ flash["main"] = Whole(r)
      /\ flash["config"] \in {Whole(r)} \cup Torn(Whole(r))
      /\ infra = "dsl" => flash["adsl"] = Whole(r)

\* Nothing is burnt before every image needed was downloaded and verified: when
\* a burning begins, what is to be burnt is in memory, so that an interrupted
\* download never costs the system that is on the flash.
BurnsWhenComplete ==
  [][ flash'["main"] # flash["main"]
        => \A i \in Needed : want[i] # 0 /\ file[i] = Whole(want[i]) ]_vars

\* The box leaves the rescue system: if in the end some link stays up, the main
\* system boots, in spite of failed downloads, mixed files, releases published
\* in between, failed burnings and power cuts.
Recovers == <>[](\E l \in Links : link[l] = "up") => <>(pc = "main")

============================================================================
