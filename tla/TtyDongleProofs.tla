-------------------------- MODULE TtyDongleProofs --------------------------
(***************************************************************************)
(* Proofs about TtyDongle: for any number of ttys and of concurrent        *)
(* scripts, and however plugging and unplugging race, the protected zone   *)
(* has one script at most and backup3g does not outlive the device; and a  *)
(* dongle left alone until its scripts are through ends up served.         *)
(***************************************************************************)
EXTENDS TtyDongle, FiniteSetTheorems, TLAPS

\* Initially no script runs.
LEMMA InitInv == Init => IInv
  <1> SUFFICES ASSUME Init PROVE ZoneInv /\ SpacedInv
    BY DEF IInv
  <1>1. ZoneInv
    BY ScriptsAssumption
       DEF Init, NoLinks, ZoneInv, TypeOK, Named, Protected, AddPcs, RemovePcs,
           LockedPcs
  <1>2. SpacedInv
    BY DEF Init, NoLinks, SpacedInv, OwnLinks, RemovedInv, Dismissal, Linked, AddPcs
  <1> QED
    BY <1>1, <1>2

\* Plugging, unplugging and the start of nbd touch no script; an event starts
\* one outside the protected zone.
LEMMA EnvironmentInv ==
  ASSUME ZoneInv, NbdUp \/ Plug \/ Unplug \/ \E s \in Scripts : Kernel(s)
  PROVE  ZoneInv'
  <1> USE DEF ZoneInv, TypeOK, Named, Protected, env, device, history
  <1>1. CASE NbdUp \/ Plug \/ Unplug
    BY <1>1 DEF NbdUp, Plug, Unplug
  <1>2. CASE \E s \in Scripts : Kernel(s)
    <2>1. PICK s \in Scripts, t \in AllTtys : AddEvent(s, t) \/ RemoveEvent(s, t)
      BY <1>2 DEF Kernel
    <2> QED
      BY <2>1, ScriptsAssumption
         DEF AddEvent, RemoveEvent, Event, Goto, AddPcs, RemovePcs, LockedPcs
  <1> QED
    BY <1>1, <1>2

\* The test of an add ends the script, or leads on to the lock, hastily if the
\* tty is not of the dongle.
LEMMA TestCases ==
  ASSUME ZoneInv, NEW s \in Scripts, TestState(s)
  PROVE  /\ pc[s] = "test" /\ UNCHANGED <<env, links, device, lock, dismissed>>
         /\ hasty => hasty'
         /\ hasty' \in BOOLEAN
         /\ \/ Exit(s) /\ hasty' = hasty
            \/ /\ state = "unavailable" /\ Role[tty[s]] \in Ttys
               /\ Goto(s, "lock") /\ tty' = tty
               /\ tty[s] \in Ttys \/ hasty'
  <1>1. tty[s] \in AllTtys /\ hasty \in BOOLEAN
    BY DEF ZoneInv, TypeOK, Named, TestState
  <1>2. Role[tty[s]] \in Ttys \cup {NoTty}
    BY <1>1, RoleAssumption
  <1>3. CASE state # "unavailable" \/ Role[tty[s]] = NoTty
    BY <1>1, <1>3 DEF TestState
  <1>4. CASE ~(state # "unavailable" \/ Role[tty[s]] = NoTty)
    <2>1. hasty' = (hasty \/ tty[s] \in Others)
      BY <1>4 DEF TestState
    <2>2. /\ hasty => hasty'
          /\ hasty' \in BOOLEAN
          /\ tty[s] \in Ttys \/ hasty'
      BY <1>1, <2>1, Zenon DEF AllTtys
    <2> QED
      BY <1>2, <1>4, <2>2 DEF TestState
  <1> QED
    BY <1>3, <1>4

\* Every line of the script keeps the invariant: the zone is entered when the
\* lock is free and left when it is given back.
LEMMA StepInv ==
  ASSUME ZoneInv, NEW s \in Scripts, Step(s)
  PROVE  ZoneInv'
  <1> USE ScriptsAssumption
          DEF ZoneInv, TypeOK, Named, Protected, env, device, history, Goto, AddPcs,
              RemovePcs, LockedPcs
  <1>1. CASE AddLock(s) \/ RemoveLock(s)
    BY <1>1 DEF AddLock, RemoveLock, Lock
  <1>2. CASE TestState(s)
    <2>1. CASE Exit(s)
      BY <1>2, <2>1, TestCases DEF Exit
    <2>2. CASE ~Exit(s)
      BY <1>2, <2>2, TestCases
    <2> QED
      BY <2>1, <2>2
  <1>3. CASE Link(s)
    BY <1>3, RoleAssumption DEF Link
  <1>4. CASE CountAndUnlock(s)
    BY <1>4 DEF CountAndUnlock, Exit
  <1>5. CASE SetProfile(s)
    BY <1>5 DEF SetProfile
  <1>6. CASE SetAvailable(s)
    BY <1>6 DEF SetAvailable
  <1>7. CASE StartBackup3g(s)
    BY <1>7 DEF StartBackup3g, Exit
  <1>8. CASE RemoveLink(s)
    BY <1>8 DEF RemoveLink, Exit
  <1>9. CASE Withdraw(s)
    BY <1>9 DEF Withdraw
  <1>10. CASE ResetProfile(s)
    BY <1>10 DEF ResetProfile
  <1>11. CASE StopBackup3g(s)
    BY <1>11 DEF StopBackup3g
  <1>12. CASE RemoveDirectory(s)
    BY <1>12 DEF RemoveDirectory, NoLinks, Exit
  <1>13. CASE Stopped(s)
    BY <1>13 DEF Stopped, Exit
  <1> QED
    BY <1>1, <1>2, <1>3, <1>4, <1>5, <1>6, <1>7, <1>8, <1>9, <1>10, <1>11, <1>12, <1>13
       DEF Step

-----------------------------------------------------------------------------
(* The dongle that is left alone until the scripts are through.            *)

\* NB_TTY = NB_MAX_TTY says that every tty has its link.
LEMMA CompleteCount == Cardinality(Linked) = Cardinality(Ttys) <=> Linked = Ttys
  BY FS_Subset, TtysAssumption DEF Linked

\* A script that leaves /dev/backup3g alone leaves the set of links.
LEMMA SameLinks == ASSUME links' = links PROVE Linked' = Linked
  BY DEF Linked

\* The script of a tty of the dongle makes the link of that tty.
LEMMA LinkOne ==
  ASSUME ZoneInv, OwnLinks, NEW s \in Scripts, Link(s)
  PROVE  /\ tty[s] \in Ttys /\ Linked' = Linked \cup {tty[s]}
         /\ \A r \in Ttys : links'[r] \in {r, NoTty}
  <1>1. tty[s] \in Ttys /\ Role[tty[s]] = tty[s]
    BY RoleAssumption DEF OwnLinks, Link, AddPcs
  <1>2. links' = [links EXCEPT ![tty[s]] = tty[s]] /\ links \in [Ttys -> AllTtys \cup {NoTty}]
    BY <1>1 DEF Link, ZoneInv, TypeOK
  <1>3. tty[s] # NoTty
    BY <1>1, TtysAssumption DEF AllTtys
  <1> QED
    BY <1>1, <1>2, <1>3 DEF OwnLinks, Linked

\* Removal takes the link of the tty, or none if the tty is not of the dongle.
LEMMA UnlinkOne ==
  ASSUME ZoneInv, OwnLinks, NEW s \in Scripts, RemoveLink(s)
  PROVE  /\ Linked' = Linked \ {tty[s]}
         /\ \A r \in Ttys : links'[r] \in {r, NoTty}
  <1>1. tty[s] # NoTty
    BY TtysAssumption DEF ZoneInv, Named, RemoveLink, AllTtys
  <1> QED
    BY <1>1 DEF RemoveLink, OwnLinks, Linked

\* No link but to the dongle's own ttys comes about by any line of the script.
LEMMA OwnLinksStep ==
  ASSUME ZoneInv, OwnLinks, NEW s \in Scripts, Step(s), ~hasty'
  PROVE  OwnLinks'
  <1> USE DEF ZoneInv, TypeOK, OwnLinks, Goto, AddPcs, RemovePcs, Exit
  <1>1. CASE TestState(s)
    BY <1>1, TestCases
  <1>2. CASE AddLock(s) \/ RemoveLock(s)
    BY <1>2 DEF AddLock, RemoveLock, Lock
  <1>3. CASE Link(s)
    BY <1>3, LinkOne DEF Link
  <1>4. CASE CountAndUnlock(s) \/ SetProfile(s) \/ SetAvailable(s) \/ StartBackup3g(s)
    BY <1>4 DEF CountAndUnlock, SetProfile, SetAvailable, StartBackup3g
  <1>5. CASE RemoveLink(s)
    BY <1>5, UnlinkOne DEF RemoveLink
  <1>6. CASE Withdraw(s) \/ ResetProfile(s) \/ StopBackup3g(s) \/ Stopped(s)
    BY <1>6 DEF Withdraw, ResetProfile, StopBackup3g, Stopped
  <1>7. CASE RemoveDirectory(s)
    BY <1>7 DEF RemoveDirectory, NoLinks
  <1> QED
    BY <1>1, <1>2, <1>3, <1>4, <1>5, <1>6, <1>7 DEF Step

\* While the dongle is in and settled, all links are there.
LEMMA SettledLinks ==
  ASSUME InsertedInv, ~Settling
  PROVE  Linked = Ttys /\ \A s \in Scripts : pc[s] \in AddPcs => tty[s] \notin Ttys
  BY DEF InsertedInv, Settling, Linked, AddPcs

\* While the dongle is in, the scripts of add go on as InsertedInv says.
LEMMA InsertedAdd ==
  ASSUME ZoneInv, OwnLinks, InsertedInv, inserted, NEW s \in Scripts, ~hasty',
         \/ TestState(s) \/ AddLock(s) \/ Link(s) \/ CountAndUnlock(s)
         \/ SetProfile(s) \/ SetAvailable(s) \/ StartBackup3g(s)
  PROVE  InsertedInv'
  <1>0. /\ pc \in [Scripts -> AddPcs \cup RemovePcs \cup {"idle"}]
        /\ tty \in [Scripts -> AllTtys \cup {NoTty}]
        /\ \A w \in Scripts : pc[w] \in LockedPcs <=> lock = w
    BY DEF ZoneInv, TypeOK, Protected
  <1>1. CASE tty[s] \notin Ttys
    <2>1. TestState(s) /\ Exit(s)
      BY <1>1, TestCases
         DEF OwnLinks, AddPcs, AddLock, Lock, Link, CountAndUnlock, SetProfile, SetAvailable,
             StartBackup3g
    <2>2. Linked' = Linked /\ UNCHANGED <<env, links, device, lock, dismissed>>
      BY <2>1, SameLinks, TestCases
    <2>3. /\ pc[s] = "test" /\ pc'[s] = "idle"
          /\ \A w \in Scripts \ {s} : pc'[w] = pc[w] /\ tty'[w] = tty[w]
      BY <1>0, <2>1 DEF TestState, Exit, Goto
    <2>4. (Removing' <=> Removing) /\ (Settling' <=> Settling)
      BY <1>1, <2>2, <2>3 DEF Removing, Settling, AddPcs, RemovePcs, env
    <2>5. Dismissal' = Dismissal
      BY <2>2, <2>3 DEF Dismissal, device
    <2>6. Arrival' = Arrival
      BY <2>2, <2>3 DEF Arrival, device
    <2> QED
      BY <1>1, <2>2, <2>3, <2>4, <2>5, <2>6
         DEF InsertedInv, Ending, AddPcs, RemovePcs, env, device
  <1>2. CASE tty[s] \in Ttys
    <2>1. pc[s] \in AddPcs
      BY TestCases DEF AddPcs, AddLock, Lock, Link, CountAndUnlock, SetProfile, SetAvailable,
                       StartBackup3g
    <2>2. ~Removing /\ ~dismissed
      BY <1>2, <2>1 DEF InsertedInv, Settling
    <2>3. \A w \in Scripts : pc[w] \notin RemovePcs
      BY <2>2 DEF Removing
    <2> SUFFICES /\ \A w \in Scripts : pc'[w] \notin RemovePcs
                 /\ dismissed' = dismissed
                 /\ Linked' \subseteq present'
                 /\ \A t \in (present' \cap Ttys) \ Linked' :
                      \E w \in Scripts : tty'[w] = t /\ pc'[w] \in {"test", "lock", "link"}
                 /\ \A w \in Scripts : pc'[w] \in AddPcs /\ tty'[w] \in Ttys
                                         => tty'[w] \in present'
                 /\ Linked' # Ttys =>
                      /\ state' = "unavailable" /\ profile' = "unknown" /\ ~backup3g'
                      /\ \A w \in Scripts : pc'[w] \notin {"profile", "available", "start"}
                 /\ Linked' = Ttys => Arrival'
      BY <2>2 DEF InsertedInv, Removing, Ending, RemovePcs
    <2>11. /\ Linked \subseteq present
           /\ \A t \in (present \cap Ttys) \ Linked :
                \E w \in Scripts : tty[w] = t /\ pc[w] \in {"test", "lock", "link"}
           /\ \A w \in Scripts : pc[w] \in AddPcs /\ tty[w] \in Ttys => tty[w] \in present
           /\ Linked # Ttys =>
                /\ state = "unavailable" /\ profile = "unknown" /\ ~backup3g
                /\ \A w \in Scripts : pc[w] \notin {"profile", "available", "start"}
           /\ Linked = Ttys => Arrival
      BY <2>2 DEF InsertedInv
    <2> USE <1>0, <2>11 DEF Arrival, AddPcs, RemovePcs, LockedPcs, Goto, env,
                     device, history
    <2>4. CASE TestState(s)
      <3>1. Linked' = Linked /\ UNCHANGED <<env, links, device, lock, dismissed>>
        BY <2>4, SameLinks, TestCases
      <3>2. CASE state # "unavailable"
        <4>1. Linked = Ttys /\ Exit(s) /\ pc[s] = "test"
          BY <2>4, <3>2, TestCases
        <4>2. Arrival'
          BY <3>1, <4>1 DEF Exit
        <4> QED
          BY <2>3, <3>1, <4>1, <4>2 DEF Exit
      <3>3. CASE state = "unavailable"
        <4>1. /\ pc' = [pc EXCEPT ![s] = "lock"] /\ tty' = tty /\ pc[s] = "test"
          BY <1>2, <2>4, <3>3, RoleAssumption, TtysAssumption DEF TestState, AllTtys
        <4> QED
          BY <2>3, <3>1, <3>3, <4>1
      <3> QED
        BY <3>2, <3>3
    <2>5. CASE AddLock(s)
      BY <2>3, <2>5, SameLinks DEF AddLock, Lock
    <2>6. CASE Link(s)
      <3>1. Linked' = Linked \cup {tty[s]}
        BY <2>6, LinkOne
      <3> QED
        BY <1>2, <2>3, <2>6, <3>1 DEF Link
    <2>7. CASE CountAndUnlock(s)
      BY <2>3, <2>7, CompleteCount, SameLinks DEF CountAndUnlock, Exit
    <2>8. CASE SetProfile(s)
      BY <2>3, <2>8, SameLinks DEF SetProfile
    <2>9. CASE SetAvailable(s)
      BY <2>3, <2>9, SameLinks DEF SetAvailable
    <2>10. CASE StartBackup3g(s)
      <3>1. Linked = Ttys /\ Linked' = Linked
        BY <2>10, SameLinks DEF StartBackup3g
      <3>2. backup3g' = (backup3g \/ state = "available")
        BY <2>10 DEF StartBackup3g
      <3>3. state = "available" => backup3g' = TRUE
        BY <3>2, Zenon
      <3>4. Arrival'
        BY <2>10, <3>1, <3>3 DEF StartBackup3g, Exit
      <3> QED
        BY <2>3, <2>10, <3>1, <3>4 DEF StartBackup3g, Exit
    <2> QED
      BY <2>4, <2>5, <2>6, <2>7, <2>8, <2>9, <2>10
  <1> QED
    BY <1>1, <1>2

\* While the dongle is in, the removal of another device's tty dismisses it.
LEMMA InsertedRemove ==
  ASSUME ZoneInv, OwnLinks, InsertedInv, inserted, NEW s \in Scripts,
         \/ RemoveLock(s) \/ RemoveLink(s) \/ Withdraw(s) \/ ResetProfile(s)
         \/ StopBackup3g(s) \/ Stopped(s) \/ RemoveDirectory(s)
  PROVE  InsertedInv'
  <1>1. pc[s] \in RemovePcs
    BY DEF RemovePcs, RemoveLock, Lock, RemoveLink, Withdraw, ResetProfile,
           StopBackup3g, Stopped, RemoveDirectory
  <1>2. tty[s] \in Others /\ ~Settling /\ pc[s] # "rmdir"
    BY <1>1 DEF InsertedInv, Removing
  <1>3. Linked = Ttys /\ \A w \in Scripts : pc[w] \in AddPcs => tty[w] \notin Ttys
    BY <1>2, SettledLinks
  <1>4. \A w \in Scripts : pc[w] \notin AddPcs \ {"test"}
    BY <1>3 DEF OwnLinks
  <1>5. Ttys \subseteq present /\ Ttys # {} /\ Ttys \cap Others = {}
    BY <1>2, TtysAssumption DEF Settling
  <1> USE <1>2, <1>3, <1>4, <1>5
          DEF ZoneInv, TypeOK, Named, Protected, InsertedInv, Removing, Settling,
              Arrival, Dismissal, Ending, AddPcs, RemovePcs, LockedPcs, Goto, env,
              device, history
  <1>6. CASE RemoveLock(s)
    BY <1>6, SameLinks DEF RemoveLock, Lock
  <1>7. CASE RemoveLink(s)
    BY <1>7, UnlinkOne DEF RemoveLink, Exit
  <1>8. CASE Withdraw(s)
    BY <1>8, SameLinks DEF Withdraw
  <1>9. CASE ResetProfile(s)
    BY <1>9, SameLinks DEF ResetProfile
  <1>10. CASE StopBackup3g(s)
    BY <1>10, SameLinks DEF StopBackup3g
  <1>11. CASE Stopped(s)
    BY <1>11, SameLinks DEF Stopped, Exit
  <1>12. CASE RemoveDirectory(s)
    BY <1>12 DEF RemoveDirectory
  <1> QED
    BY <1>6, <1>7, <1>8, <1>9, <1>10, <1>11, <1>12

\* While it is out, the scripts of remove go on as RemovedInv says.
LEMMA RemovedStep ==
  ASSUME ZoneInv, OwnLinks, RemovedInv, ~inserted, NEW s \in Scripts, Step(s), ~hasty'
  PROVE  RemovedInv'
  <1>1. pc[s] \in AddPcs => pc[s] = "test" /\ tty[s] \in Others
    BY TtysAssumption DEF OwnLinks, RemovedInv
  <1> USE TtysAssumption
          DEF ZoneInv, TypeOK, Named, Protected, RemovedInv, Dismissal, Service,
              Ending, AddPcs, RemovePcs, LockedPcs, Goto, env, device, history
  <1>2. CASE TestState(s)
    BY <1>1, <1>2, SameLinks, TestCases DEF Exit
  <1>3. CASE RemoveLock(s)
    BY <1>3, SameLinks DEF RemoveLock, Lock
  <1>4. CASE RemoveLink(s)
    <2>1. Linked' = Linked \ {tty[s]} /\ lock = s /\ Linked \subseteq Ttys
      BY <1>4, UnlinkOne DEF RemoveLink, Linked
    <2>2. CASE state = "available"
      BY <1>4, <2>1, <2>2 DEF RemoveLink
    <2>3. CASE state # "available"
      BY <1>4, <2>1, <2>3 DEF RemoveLink, Exit
    <2> QED
      BY <2>2, <2>3
  <1>5. CASE Withdraw(s)
    BY <1>5, SameLinks DEF Withdraw
  <1>6. CASE ResetProfile(s)
    BY <1>6, SameLinks DEF ResetProfile
  <1>7. CASE StopBackup3g(s)
    BY <1>7, SameLinks DEF StopBackup3g
  <1>8. CASE Stopped(s)
    BY <1>8, SameLinks DEF Stopped, Exit
  <1>9. CASE RemoveDirectory(s)
    <2>1. Linked = {} /\ Linked' = {}
      BY <1>9 DEF RemoveDirectory, NoLinks, Linked
    <2> QED
      BY <1>9, <2>1 DEF RemoveDirectory, Exit
  <1> QED
    BY <1>1, <1>2, <1>3, <1>4, <1>5, <1>6, <1>7, <1>8, <1>9
       DEF Step, AddLock, Lock, Link, CountAndUnlock, SetProfile, SetAvailable,
           StartBackup3g

\* The kernel starts a script for every tty that comes or goes, and plugging
\* and unplugging leave one of the two invariants for the other.
LEMMA EnvironmentSpaced ==
  ASSUME IInv, NbdUp \/ Plug \/ Unplug \/ \E s \in Scripts : Kernel(s)
  PROVE  SpacedInv'
  <1> USE DEF IInv, ZoneInv, TypeOK, SpacedInv, OwnLinks, env, device, history
  <1> SUFFICES ASSUME ~hasty' PROVE SpacedInv'
    OBVIOUS
  <1>0. Linked' = Linked
    BY SameLinks DEF NbdUp, Plug, Unplug, Kernel, AddEvent, RemoveEvent, Event
  <1>1. CASE NbdUp
    BY <1>0, <1>1 DEF NbdUp, InsertedInv, RemovedInv, Removing, Settling, Arrival,
                      Dismissal, Service
  <1>2. CASE Plug
    <2>1. RemovedInv /\ ~Removing /\ present \cap Ttys = {} /\ ready
      BY <1>2 DEF Plug
    <2>2. Linked = {}
      BY <2>1 DEF RemovedInv, Removing, RemovePcs, Linked
    <2>3. state = "unavailable" /\ profile = "unknown" /\ ~backup3g /\ ~dismissed
      BY <2>1, <2>2, TtysAssumption
         DEF RemovedInv, Removing, RemovePcs, Dismissal
    <2>4. \A s \in Scripts : \/ pc[s] = "idle"
                             \/ pc[s] = "test" /\ tty[s] \notin Ttys
      BY <1>2, <2>1, TtysAssumption DEF Plug, RemovedInv, Removing, AddPcs, RemovePcs
    <2>5. /\ UNCHANGED <<ready, present, links, state, profile, backup3g, pc, tty, dismissed>>
          /\ inserted'
      BY <1>2 DEF Plug
    <2>6. InsertedInv'
      BY <1>0, <2>1, <2>2, <2>3, <2>4, <2>5, TtysAssumption
         DEF InsertedInv, Removing, AddPcs, RemovePcs, Ending
    <2> QED
      BY <1>2, <2>1, <2>5, <2>6 DEF Plug
  <1>3. CASE Unplug
    <2>1. InsertedInv /\ ~Settling /\ Ttys \subseteq present /\ ready
      BY <1>3 DEF Unplug, Settling
    <2>2. Linked = Ttys /\ \A s \in Scripts : pc[s] \in AddPcs => tty[s] \notin Ttys
      BY <2>1, SettledLinks
    <2>3. \A s \in Scripts : pc[s] \notin AddPcs \ {"test"}
      BY <1>3, <2>2 DEF Unplug
    <2>4. Service \/ Dismissal
      BY <2>1, <2>2, <2>3 DEF InsertedInv, Arrival, Service, AddPcs
    <2>5. Service' = Service /\ Dismissal' = Dismissal
      BY <1>3 DEF Unplug, Service, Dismissal
    <2> QED
      BY <1>0, <1>3, <2>1, <2>2, <2>3, <2>4, <2>5, TtysAssumption
         DEF Unplug, InsertedInv, RemovedInv, Named, AddPcs, RemovePcs, AllTtys
  <1>4. ASSUME NEW s \in Scripts, NEW t \in AllTtys, AddEvent(s, t)
        PROVE  SpacedInv'
    BY <1>0, <1>4, TtysAssumption
       DEF AddEvent, Event, Goto, InsertedInv, RemovedInv, Removing, Settling, Arrival,
           Dismissal, Service, Ending, AddPcs, RemovePcs, AllTtys
  <1>5. ASSUME NEW s \in Scripts, NEW t \in AllTtys, RemoveEvent(s, t)
        PROVE  SpacedInv'
    <2>1. CASE inserted
      <3>1. /\ t \in Others /\ ~Settling /\ ~hasty
            /\ pc[s] = "idle" /\ ready /\ InsertedInv
        BY <1>5, <2>1 DEF RemoveEvent, Event, AllTtys
      <3>2. /\ pc' = [pc EXCEPT ![s] = "rlock"] /\ tty' = [tty EXCEPT ![s] = t]
            /\ present' = present \ {t}
            /\ UNCHANGED <<ready, inserted, links, state, profile, backup3g, dismissed>>
        BY <1>5, <3>1 DEF RemoveEvent, Event, Goto
      <3>3. ~Settling' /\ Ttys \subseteq present /\ Linked = Ttys
        BY <3>1, <3>2, SettledLinks, TtysAssumption DEF Settling, AddPcs
      <3>4. (Arrival => Arrival') /\ (Dismissal => Dismissal')
        BY <3>1, <3>2 DEF Arrival, Dismissal
      <3> QED
        BY <1>0, <2>1, <3>1, <3>2, <3>3, <3>4, TtysAssumption
           DEF InsertedInv, Ending, AddPcs, RemovePcs
    <2>2. CASE ~inserted
      <3>1. ~hasty /\ pc[s] = "idle" /\ RemovedInv
        BY <1>5, <2>2 DEF RemoveEvent, Event
      <3>2. CASE ready
        <4>1. /\ pc' = [pc EXCEPT ![s] = "rlock"] /\ tty' = [tty EXCEPT ![s] = t]
              /\ present' = present \ {t}
              /\ UNCHANGED <<ready, inserted, links, state, profile, backup3g, dismissed>>
          BY <1>5, <3>2 DEF RemoveEvent, Event, Goto
        <4>2. (Service => Service') /\ (Dismissal => Dismissal')
          BY <3>1, <4>1 DEF Service, Dismissal, Ending
        <4> QED
          BY <1>0, <2>2, <3>1, <3>2, <4>1, <4>2 DEF RemovedInv, AddPcs
      <3>3. CASE ~ready
        <4>1. /\ present' = present \ {t} /\ present \cap Ttys = {}
              /\ UNCHANGED <<ready, inserted, links, state, profile, backup3g, pc, tty,
                             dismissed>>
          BY <1>5, <2>2, <3>1, <3>3 DEF RemoveEvent, Event
        <4>2. Service' = Service /\ Dismissal' = Dismissal /\ Linked \subseteq Ttys
          BY <4>1 DEF Service, Dismissal, Linked
        <4>3. RemovedInv'
          BY <1>0, <3>1, <4>1, <4>2 DEF RemovedInv
        <4> QED
          BY <2>2, <3>1, <4>1, <4>3
      <3> QED
        BY <3>2, <3>3
    <2> QED
      BY <2>1, <2>2
  <1> QED
    BY <1>1, <1>2, <1>3, <1>4, <1>5 DEF Kernel

\* IInv is an invariant: scripts keep to the protected zone, and each move of a
\* dongle left alone is carried out to its end.
THEOREM ScriptsProtected == Spec => []IInv
  <1>1. IInv /\ [Next]_vars => IInv'
    <2> SUFFICES ASSUME IInv, [Next]_vars PROVE IInv'
      OBVIOUS
    <2>1. CASE UNCHANGED vars
      BY <2>1 DEF IInv, ZoneInv, TypeOK, Named, Protected, SpacedInv, OwnLinks,
                  InsertedInv, RemovedInv, Removing, Settling, Arrival, Dismissal,
                  Service, Linked, vars, env, device, history
    <2>2. ASSUME NEW s \in Scripts, Step(s) PROVE IInv'
      <3>1. ZoneInv'
        BY <2>2, StepInv DEF IInv
      <3>2. UNCHANGED env /\ (hasty => hasty')
        BY <2>2, TestCases DEF IInv, Step, AddLock, Lock, Link, CountAndUnlock, SetProfile,
                    SetAvailable, StartBackup3g, RemoveLock, RemoveLink, Withdraw,
                    ResetProfile, StopBackup3g, Stopped, RemoveDirectory, history
      <3>3. SpacedInv'
        <4> SUFFICES ASSUME ~hasty' PROVE SpacedInv'
          BY DEF SpacedInv
        <4>1. ~hasty /\ OwnLinks
          BY <3>2 DEF IInv, SpacedInv
        <4>2. OwnLinks'
          BY <2>2, <4>1, OwnLinksStep DEF IInv
        <4>3. CASE inserted
          <5>1. InsertedInv
            BY <4>1, <4>3 DEF IInv, SpacedInv
          <5>2. InsertedInv'
            BY <2>2, <4>1, <4>3, <5>1, InsertedAdd, InsertedRemove DEF IInv, Step
          <5> QED
            BY <3>2, <4>1, <4>2, <4>3, <5>2 DEF IInv, SpacedInv, env
        <4>4. CASE ~inserted
          <5>1. RemovedInv
            BY <4>1, <4>4 DEF IInv, SpacedInv
          <5>2. RemovedInv'
            BY <2>2, <4>1, <4>4, <5>1, RemovedStep DEF IInv
          <5> QED
            BY <3>2, <4>1, <4>2, <4>4, <5>2 DEF IInv, SpacedInv, env
        <4> QED
          BY <4>3, <4>4
      <3> QED
        BY <3>1, <3>3 DEF IInv
    <2>3. CASE NbdUp \/ Plug \/ Unplug \/ \E s \in Scripts : Kernel(s)
      BY <2>3, EnvironmentInv, EnvironmentSpaced DEF IInv
    <2> QED
      BY <2>1, <2>2, <2>3 DEF Next
  <1> QED
    BY <1>1, InitInv, PTL DEF Spec

\* When all scripts are through, a dongle that was left alone has all its links
\* exactly if it is plugged in, and its profile and backup3g exactly if, besides,
\* the removal of no other device's tty has dismissed it.
THEOREM DongleServed == Spec => []SpacedDongle
  <1>1. IInv => SpacedDongle
    <2> SUFFICES ASSUME IInv, Quiet, ~hasty PROVE SpacedDongle
      BY DEF SpacedDongle
    <2>1. \A s \in Scripts : pc[s] = "idle"
      BY DEF Quiet
    <2>2. OwnLinks /\ links \in [Ttys -> AllTtys \cup {NoTty}]
      BY DEF IInv, SpacedInv, ZoneInv, TypeOK
    <2>3. CASE inserted
      <3>1. InsertedInv /\ Ttys \subseteq present
        BY <2>3 DEF IInv, SpacedInv, Quiet
      <3>2. Linked = Ttys
        BY <2>1, <3>1 DEF InsertedInv, Linked
      <3>3. links = [r \in Ttys |-> r]
        BY <2>2, <3>2 DEF Linked, OwnLinks
      <3>4. CASE dismissed
        <4>1. state = "unavailable" /\ profile = "unknown" /\ ~backup3g
          BY <2>1, <3>1, <3>2, <3>4 DEF InsertedInv, Dismissal
        <4> QED
          BY <2>3, <3>3, <3>4, <4>1 DEF SpacedDongle
      <3>5. CASE ~dismissed
        <4>1. state = "available" /\ profile = "known" /\ backup3g
          BY <2>1, <3>1, <3>2, <3>5 DEF InsertedInv, Arrival
        <4> QED
          BY <2>3, <3>3, <3>5, <4>1 DEF SpacedDongle
      <3> QED
        BY <3>4, <3>5
    <2>4. CASE ~inserted
      <3>1. RemovedInv /\ present \cap Ttys = {}
        BY <2>4 DEF IInv, SpacedInv, Quiet
      <3>2. Linked = {}
        BY <2>1, <3>1 DEF RemovedInv, Linked
      <3>3. links = [r \in Ttys |-> NoTty]
        BY <2>2, <3>2 DEF Linked
      <3>4. state = "unavailable" /\ profile = "unknown" /\ ~backup3g
        BY <2>1, <3>1, <3>2, TtysAssumption DEF RemovedInv, Dismissal
      <3> QED
        BY <2>4, <3>3, <3>4 DEF SpacedDongle
    <2> QED
      BY <2>3, <2>4
  <1> QED
    BY <1>1, ScriptsProtected, PTL

\* backup3g runs only while there is a device or a stop is still to come.
THEOREM StopsWithDevice == Spec => []NotWithoutDevice
  <1>1. Init => NotWithoutDevice
    BY DEF Init, NotWithoutDevice
  <1>2. IInv /\ NotWithoutDevice /\ [Next]_vars => NotWithoutDevice'
    <2> SUFFICES ASSUME IInv, NotWithoutDevice, [Next]_vars
                 PROVE  NotWithoutDevice'
      OBVIOUS
    <2> USE DEF NotWithoutDevice, IInv, ZoneInv, TypeOK, env, device, history, Goto
    <2>1. CASE UNCHANGED vars
      BY <2>1 DEF vars
    <2>2. CASE NbdUp \/ Plug \/ Unplug
      BY <2>2 DEF NbdUp, Plug, Unplug
    <2>3. ASSUME NEW s \in Scripts, Kernel(s)
          PROVE  NotWithoutDevice'
      BY <2>3 DEF Kernel, AddEvent, RemoveEvent, Event
    <2>4. ASSUME NEW s \in Scripts, Step(s)
          PROVE  NotWithoutDevice'
      <3>1. CASE TestState(s) \/ CountAndUnlock(s) \/ RemoveLink(s)
                 \/ RemoveDirectory(s)
        BY <3>1 DEF TestState, CountAndUnlock, RemoveLink, RemoveDirectory, Exit
      <3>2. CASE AddLock(s) \/ RemoveLock(s) \/ Link(s) \/ SetProfile(s)
        BY <3>2 DEF AddLock, RemoveLock, Lock, Link, SetProfile
      <3>3. CASE SetAvailable(s) \/ StartBackup3g(s)
        BY <3>3 DEF SetAvailable, StartBackup3g, Exit
      <3>4. CASE Withdraw(s) \/ ResetProfile(s) \/ StopBackup3g(s) \/ Stopped(s)
        BY <3>4 DEF Withdraw, ResetProfile, StopBackup3g, Stopped, Exit
      <3> QED
        BY <2>4, <3>1, <3>2, <3>3, <3>4 DEF Step
    <2> QED
      BY <2>1, <2>2, <2>3, <2>4 DEF Next
  <1> QED
    BY <1>1, <1>2, ScriptsProtected, PTL DEF Spec
=============================================================================
