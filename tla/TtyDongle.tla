----------------------------- MODULE TtyDongle -----------------------------
(***************************************************************************)
(* The hotplug script of the ttys of a 3G dongle,                          *)
(* efixo-base-files/files/gprs/etc/hotplug.d/tty/30-tty-3gDongle.          *)
(*                                                                         *)
(* A dongle brings several ttys; the kernel starts one instance of the     *)
(* script for each that comes or goes, and instances run concurrently.  An *)
(* add makes a link in /dev/backup3g and counts the links under a lock;    *)
(* the one that finds them complete publishes the device and starts        *)
(* backup3g a second later.  A remove deletes the link and, for the first  *)
(* of them, withdraws the device and stops backup3g.  The test whether     *)
(* there is a device, the publication and the final rm -rf are outside the *)
(* lock.                                                                   *)
(*                                                                         *)
(* An add stops at a tty that the table of vendors and products does not   *)
(* know, and at any tty while there is a device.  A remove tests neither:  *)
(* the ttys of other devices and of a second dongle, which the add passed  *)
(* over, go through all of it when they leave.                             *)
(***************************************************************************)
EXTENDS Naturals, FiniteSets

CONSTANTS
  Ttys,      \* the ttys of the dongle, NB_MAX_TTY of them
  Others,    \* ttys that are not of the dongle
  Role,      \* the link a tty gets (ttyCMD, ttyDATA...), named by the tty of
             \* the dongle that has it; NoTty if its device is not in the table
  Scripts,   \* script instances; an idle one may serve a later event
  NoTty, NoScript

AllTtys == Ttys \cup Others

ASSUME TtysAssumption ==
  IsFiniteSet(Ttys) /\ Ttys # {} /\ Ttys \cap Others = {} /\ NoTty \notin AllTtys
ASSUME RoleAssumption ==
  Role \in [AllTtys -> Ttys \cup {NoTty}] /\ \A t \in Ttys : Role[t] = t
ASSUME ScriptsAssumption == NoScript \notin Scripts

VARIABLES
  ready,      \* nbd.socket exists
  inserted,   \* the user has the dongle plugged in
  present,    \* ttys the kernel has
  links,      \* /dev/backup3g: the tty each link leads to
  state,      \* status keys gprs_device_state and gprs_device_profile
  profile,
  lock,       \* holder of /var/lock/backup3g.lock
  backup3g,   \* whether backup3g runs
  pc, tty,    \* of each script: its place and TTY_NAME
  dismissed,  \* history: the removal of another device's tty has withdrawn the
              \* dongle that is plugged in
  hasty       \* history: an event came before those of the opposite direction
              \* were through or before nbd was there, or a second dongle's tty
              \* found no device

env == <<ready, inserted, present>>
device == <<state, profile, backup3g>>
history == <<dismissed, hasty>>
vars == <<env, links, device, lock, pc, tty, history>>

AddPcs == {"test", "lock", "link", "count", "profile", "available", "start"}
RemovePcs ==
  {"rlock", "rm", "withdraw", "rprofile", "stop", "stopping", "rmdir"}
LockedPcs == {"link", "count", "rm", "withdraw", "rprofile", "stop"}

Linked == {r \in Ttys : links[r] # NoTty}
NoLinks == [r \in Ttys |-> NoTty]

Removing == \E s \in Scripts : pc[s] \in RemovePcs
\* The dongle is in, but the scripts of its ttys are not through.
Settling ==
  \/ ~(Ttys \subseteq present)
  \/ \E s \in Scripts : pc[s] \in AddPcs /\ tty[s] \in Ttys
Quiet ==
  /\ \A s \in Scripts : pc[s] = "idle"
  /\ present \cap Ttys = IF inserted THEN Ttys ELSE {}

Init ==
  /\ ready = FALSE /\ inserted = FALSE /\ present = {} /\ links = NoLinks
  /\ state = "unavailable" /\ profile = "unknown" /\ backup3g = FALSE
  /\ lock = NoScript
  /\ pc = [s \in Scripts |-> "idle"] /\ tty = [s \in Scripts |-> NoTty]
  /\ dismissed = FALSE /\ hasty = FALSE

Goto(s, place) == pc' = [pc EXCEPT ![s] = place]
Exit(s) == Goto(s, "idle") /\ tty' = [tty EXCEPT ![s] = NoTty]

-----------------------------------------------------------------------------
(* The user and the kernel.                                                *)

NbdUp == /\ ~ready /\ ready' = TRUE
         /\ UNCHANGED <<inserted, present, links, device, lock, pc, tty, history>>

Plug ==
  /\ ~inserted /\ present \cap Ttys = {}
  /\ inserted' = TRUE
  /\ hasty' = (hasty \/ Removing \/ ~ready)
  /\ UNCHANGED <<ready, present, links, device, lock, pc, tty, dismissed>>

Unplug ==
  /\ inserted
  /\ inserted' = FALSE /\ dismissed' = FALSE
  /\ hasty' = (hasty \/ Settling)
  /\ UNCHANGED <<ready, present, links, device, lock, pc, tty>>

\* An event starts an instance; without nbd it exits at once.
Event(s, t, place) ==
  /\ pc[s] = "idle"
  /\ IF ready THEN Goto(s, place) /\ tty' = [tty EXCEPT ![s] = t]
              ELSE UNCHANGED <<pc, tty>>
  /\ UNCHANGED <<ready, inserted, links, device, lock, dismissed>>

AddEvent(s, t) ==
  /\ t \notin present /\ (t \in Ttys => inserted)
  /\ present' = present \cup {t}
  /\ Event(s, t, "test")
  /\ UNCHANGED hasty

RemoveEvent(s, t) ==
  /\ t \in present /\ (t \in Ttys => ~inserted)
  /\ present' = present \ {t}
  /\ hasty' = (hasty \/ (inserted /\ Settling))
  /\ Event(s, t, "rlock")

-----------------------------------------------------------------------------
(* add                                                                     *)

TestState(s) ==
  /\ pc[s] = "test"
  /\ IF state # "unavailable" \/ Role[tty[s]] = NoTty
     THEN Exit(s) /\ UNCHANGED hasty
     ELSE /\ hasty' = (hasty \/ tty[s] \in Others)
          /\ Goto(s, "lock") /\ UNCHANGED tty
  /\ UNCHANGED <<env, links, device, lock, dismissed>>

\* Mistake: nobody waits for the lock.
LockNoWait(s, from, to) ==
  /\ pc[s] = from
  /\ lock' = s /\ Goto(s, to)
  /\ UNCHANGED <<env, links, device, tty, history>>

Lock(s, from, to) ==
  /\ pc[s] = from /\ lock = NoScript
  /\ lock' = s /\ Goto(s, to)
  /\ UNCHANGED <<env, links, device, tty, history>>

Link(s) ==
  /\ pc[s] = "link"
  /\ links' = [links EXCEPT ![Role[tty[s]]] = tty[s]]
  /\ Goto(s, "count")
  /\ UNCHANGED <<env, device, lock, tty, history>>

\* Mistake: the script waits for the other ttys instead of leaving it to them.
CountAndPoll(s) ==
  /\ pc[s] = "count"
  /\ lock' = NoScript
  /\ Goto(s, IF Cardinality(Linked) # Cardinality(Ttys) THEN "lock" ELSE "profile")
  /\ UNCHANGED <<env, links, device, tty, history>>

CountAndUnlock(s) ==
  /\ pc[s] = "count"
  /\ lock' = NoScript
  /\ IF Cardinality(Linked) # Cardinality(Ttys) THEN Exit(s)
     ELSE Goto(s, "profile") /\ UNCHANGED tty
  /\ UNCHANGED <<env, links, device, history>>

SetProfile(s) ==
  /\ pc[s] = "profile"
  /\ profile' = "known"
  /\ Goto(s, "available")
  /\ UNCHANGED <<env, links, state, backup3g, lock, tty, history>>

\* Mistake: the device is not published.
SetAvailableNot(s) ==
  /\ pc[s] = "available"
  /\ Goto(s, "start")
  /\ UNCHANGED <<env, links, device, lock, tty, history>>

SetAvailable(s) ==
  /\ pc[s] = "available"
  /\ state' = "available"
  /\ Goto(s, "start")
  /\ UNCHANGED <<env, links, profile, backup3g, lock, tty, history>>

\* nbctl async_run: the daemon runs backup3g some time after the script has
\* ended; it starts only if there is a device (init.d/services says so).
StartBackup3g(s) ==
  /\ pc[s] = "start"
  /\ backup3g' = (backup3g \/ state = "available")
  /\ Exit(s)
  /\ UNCHANGED <<env, links, state, profile, lock, history>>

-----------------------------------------------------------------------------
(* remove                                                                  *)

RemoveLink(s) ==
  /\ pc[s] = "rm"
  /\ links' = [r \in Ttys |-> IF links[r] = tty[s] THEN NoTty ELSE links[r]]
  /\ IF state = "available"
     THEN /\ dismissed' = (dismissed \/ (inserted /\ tty[s] \in Others))
          /\ Goto(s, "withdraw") /\ UNCHANGED <<lock, tty>>
     ELSE /\ lock' = NoScript
          /\ IF Linked' # {} THEN Exit(s) ELSE Goto(s, "rmdir") /\ UNCHANGED tty
          /\ UNCHANGED dismissed
  /\ UNCHANGED <<env, device, hasty>>

Withdraw(s) ==
  /\ pc[s] = "withdraw"
  /\ state' = "unavailable"
  /\ Goto(s, "rprofile")
  /\ UNCHANGED <<env, links, profile, backup3g, lock, tty, history>>

ResetProfile(s) ==
  /\ pc[s] = "rprofile"
  /\ profile' = "unknown"
  /\ Goto(s, "stop")
  /\ UNCHANGED <<env, links, state, backup3g, lock, tty, history>>

\* Mistake: the script exits without a stop.
StopBackup3gNot(s) ==
  /\ pc[s] = "stop"
  /\ lock' = NoScript
  /\ Exit(s)
  /\ UNCHANGED <<env, links, device, history>>

\* nbctl async_run: the lock is given back before backup3g has stopped.
StopBackup3g(s) ==
  /\ pc[s] = "stop"
  /\ lock' = NoScript
  /\ Goto(s, "stopping")
  /\ UNCHANGED <<env, links, device, tty, history>>

Stopped(s) ==
  /\ pc[s] = "stopping"
  /\ backup3g' = FALSE
  /\ Exit(s)
  /\ UNCHANGED <<env, links, state, profile, lock, history>>

RemoveDirectory(s) ==
  /\ pc[s] = "rmdir"
  /\ links' = NoLinks
  /\ Exit(s)
  /\ UNCHANGED <<env, device, lock, history>>

AddLock(s) == Lock(s, "lock", "link")
RemoveLock(s) == Lock(s, "rlock", "rm")

Step(s) ==
  \/ TestState(s) \/ AddLock(s) \/ Link(s) \/ CountAndUnlock(s)
  \/ SetProfile(s) \/ SetAvailable(s) \/ StartBackup3g(s)
  \/ RemoveLock(s) \/ RemoveLink(s) \/ Withdraw(s) \/ ResetProfile(s)
  \/ StopBackup3g(s) \/ Stopped(s) \/ RemoveDirectory(s)

Kernel(s) == \E t \in AllTtys : AddEvent(s, t) \/ RemoveEvent(s, t)

Next == NbdUp \/ Plug \/ Unplug \/ \E s \in Scripts : Kernel(s) \/ Step(s)

\* Scripts run on, and whoever waits for the lock gets it in the end.
Fairness ==
  \A s \in Scripts : WF_vars(Step(s)) /\ SF_vars(AddLock(s) \/ RemoveLock(s))

Spec == Init /\ [][Next]_vars /\ Fairness

-----------------------------------------------------------------------------
(* Properties *)

TypeOK ==
  /\ ready \in BOOLEAN /\ inserted \in BOOLEAN
  /\ dismissed \in BOOLEAN /\ hasty \in BOOLEAN
  /\ present \subseteq AllTtys /\ links \in [Ttys -> AllTtys \cup {NoTty}]
  /\ state \in {"unavailable", "available"}
  /\ profile \in {"unknown", "known"}
  /\ backup3g \in BOOLEAN
  /\ lock \in Scripts \cup {NoScript}
  /\ pc \in [Scripts -> AddPcs \cup RemovePcs \cup {"idle"}]
  /\ tty \in [Scripts -> AllTtys \cup {NoTty}]

\* The "PROTECTED ZONE": at most one script is in it, the holder of the lock.
Protected == \A s \in Scripts : pc[s] \in LockedPcs <=> lock = s

\* A running script has a tty, and past the table one with a role.
Named ==
  \A s \in Scripts :
    /\ pc[s] # "idle" => tty[s] \in AllTtys
    /\ pc[s] \in {"lock", "link"} => Role[tty[s]] \in Ttys

ZoneInv == TypeOK /\ Named /\ Protected

Ending == {"withdraw", "rprofile", "stop", "stopping"}

\* The device is withdrawn and backup3g stopped, or a script is about to do the
\* next of it.
Dismissal ==
  \/ state = "available" /\ \E s \in Scripts : pc[s] = "withdraw"
  \/ state = "unavailable" /\ \E s \in Scripts : pc[s] = "rprofile"
  \/ /\ state = "unavailable" /\ profile = "unknown"
     /\ ~backup3g \/ \E s \in Scripts : pc[s] \in {"stop", "stopping"}

\* The device is published and backup3g runs, and no script is about to undo it.
Service ==
  /\ state = "available" /\ profile = "known" /\ backup3g
  /\ \A s \in Scripts : pc[s] \notin Ending

\* The same, or a script is about to do the next of it.
Arrival ==
  \/ \E s \in Scripts : pc[s] \in {"count", "profile"}
  \/ profile = "known" /\ \E s \in Scripts : pc[s] = "available"
  \/ /\ profile = "known" /\ state = "available"
     /\ backup3g \/ \E s \in Scripts : pc[s] = "start"

\* While the dongle is in: a tty has its link or a script that will make it, and
\* once the links are complete the device is published and backup3g started,
\* unless the remove of another device's tty has dismissed it.
InsertedInv ==
  /\ \A s \in Scripts : pc[s] \in RemovePcs => tty[s] \in Others /\ pc[s] # "rmdir"
  /\ Removing \/ dismissed => ~Settling
  /\ Linked \subseteq present
  /\ \A t \in (present \cap Ttys) \ Linked :
       \E s \in Scripts : tty[s] = t /\ pc[s] \in {"test", "lock", "link"}
  /\ \A s \in Scripts : pc[s] \in AddPcs /\ tty[s] \in Ttys => tty[s] \in present
  /\ Linked # Ttys =>
       /\ state = "unavailable" /\ profile = "unknown" /\ ~backup3g
       /\ \A s \in Scripts : pc[s] \notin {"profile", "available", "start"}
  /\ ~dismissed => \A s \in Scripts : pc[s] \notin Ending
  /\ Linked = Ttys => IF dismissed THEN Dismissal ELSE Arrival

\* While it is out: a link has its tty or a script that will remove it, and once
\* a link is gone the device is withdrawn and backup3g stopped, or a script is
\* about to do the next of it.
RemovedInv ==
  /\ ~dismissed
  /\ \A s \in Scripts : pc[s] \in AddPcs => tty[s] \in Others
  /\ present \cap Ttys \subseteq Linked
  /\ \A t \in Linked \ present :
       \E s \in Scripts : tty[s] = t /\ pc[s] \in {"rlock", "rm"}
  /\ \A s \in Scripts : pc[s] \in {"rlock", "rm"} => tty[s] \notin present \cap Ttys
  /\ \A s \in Scripts : pc[s] = "rmdir" => Linked = {}
  /\ (Linked = Ttys /\ Service) \/ Dismissal

\* /dev/backup3g holds links to the dongle's own ttys, made by their scripts.
OwnLinks ==
  /\ \A r \in Ttys : links[r] \in {r, NoTty}
  /\ \A s \in Scripts : pc[s] \in AddPcs \ {"test"} => tty[s] \in Ttys

\* Scripts of one direction only run at a time, and none was lost before nbd
\* was there, as long as the dongle is left alone until they are through and no
\* tty of a second dongle gets past the test of the device.
SpacedInv ==
  ~hasty =>
    /\ inserted \/ present \cap Ttys # {} => ready
    /\ OwnLinks
    /\ inserted => InsertedInv
    /\ ~inserted => RemovedInv

IInv == ZoneInv /\ SpacedInv

\* However plugging and unplugging race, backup3g never stays up after the
\* device was withdrawn: a start that comes after the stop finds no device.
NotWithoutDevice ==
  (\A s \in Scripts : pc[s] \notin {"rprofile", "stop", "stopping"}) =>
    (backup3g => state = "available")

\* "when we have all the tty inserted, launch backup3g": when all scripts are
\* through, every link is there exactly if the dongle is in, and it is published
\* with backup3g running exactly if it is in and no tty of another device has
\* been removed since it was served, provided it was always left alone until
\* the scripts of its last move were through.
SpacedDongle ==
  Quiet /\ ~hasty =>
    /\ backup3g <=> inserted /\ ~dismissed
    /\ state = "available" <=> inserted /\ ~dismissed
    /\ profile = "known" <=> inserted /\ ~dismissed
    /\ links = [r \in Ttys |-> IF inserted THEN r ELSE NoTty]

\* No script waits for the lock, or for the ttys still missing, for ever.
ScriptsEnd == \A s \in Scripts : pc[s] # "idle" ~> pc[s] = "idle"
=============================================================================
