---------------------------- MODULE HotplugMount ----------------------------
(***************************************************************************)
(* The USB mass-storage hotplug script of the box,                         *)
(* efixo-base-files/files/main/etc/hotplug.d/block/10-mount.               *)
(*                                                                         *)
(* The kernel starts one instance of the script for every add or remove    *)
(* event of a block device; instances run concurrently ("IT'S              *)
(* ASYNCHRONOUS").  Instances for the partitions of one disk share a queue *)
(* file and a lock per direction (/var/run/sda.mount, mount_sda.lock and   *)
(* /var/run/sda.umount, umount_sda.lock).  The instance that creates the   *)
(* queue file is the master: it sleeps, then mounts (or unmounts) every    *)
(* queued block, restarts the services that export the mounted             *)
(* partitions and removes the file.                                        *)
(*                                                                         *)
(* The queue file is never visible empty (touch and the first append are   *)
(* in one critical section), so the empty sequence stands for "no file".   *)
(***************************************************************************)
EXTENDS Naturals, Sequences

CONSTANTS
  Scripts,    \* script instances, one per kernel event (bounds the events)
  Blocks,     \* block devices: sda, sda1, sda2 ...
  Disks,      \* their disks: sda, sdb ...
  DevRoot,    \* DEVROOT: the disk of a block
  Mountable,  \* the blocks holding a file system one of the mounts accepts
  Like,       \* the blocks with names that begin with the name of a block
  None        \* no lock holder

Acts == {"add", "remove"}
Queues == Disks \X Acts

ASSUME DevRootAssumption == DevRoot \in [Blocks -> Disks]
ASSUME BlocksAssumption == Blocks # {}
ASSUME MountableAssumption == Mountable \subseteq Blocks
ASSUME LikeAssumption ==
  Like \in [Blocks -> SUBSET Blocks] /\ \A b \in Blocks : b \in Like[b]
ASSUME NoneAssumption == None \notin Scripts

VARIABLES
  present,    \* blocks plugged in
  mounted,    \* blocks mounted on /mnt/usb/<block>
  dirs,       \* blocks whose mount point directory exists
  file,       \* the queue files; a line is named by the script that wrote it
  lock,       \* the holder of each queue's lock
  pc, act, blk, \* of each script: its place, $ACTION and $DEVICE
  todo,       \* the lines the master has still to treat
  restart,    \* RESTART_FLAG
  boot,       \* progress of init.d/services: "init", "coldplug", "up"
  served,     \* the mounted blocks each service saw when it last (re)started
  treated,    \* history: the scripts whose line a master has been through
  hasty       \* history: blocks with an event before their last was treated

vars == <<present, mounted, dirs, file, lock, pc, act, blk, todo, restart,
          boot, served, treated, hasty>>
scriptVars == <<act, blk>>

Services == {"fastcgi", "samba", "ushare"}

Key(s) == <<DevRoot[blk[s]], act[s]>>

MasterPcs == {"sleep", "work", "mount", "hup", "samba", "ushare", "rm"}
LockedPcs == {"push", "work", "mount", "hup", "samba", "ushare", "rm"}
Pcs == MasterPcs \cup LockedPcs \cup {"idle", "start", "done"}

\* The event of s has not been treated yet.
Untreated(s) == pc[s] # "idle" /\ s \notin treated

Busy(b) == \E s \in Scripts : blk[s] = b /\ Untreated(s)

Init ==
  /\ present = {}
  /\ mounted = {}
  /\ dirs = {}
  /\ file = [q \in Queues |-> <<>>]
  /\ lock = [q \in Queues |-> None]
  /\ pc = [s \in Scripts |-> "idle"]
  /\ act = [s \in Scripts |-> "add"]
  /\ blk = [s \in Scripts |-> CHOOSE b \in Blocks : TRUE]
  /\ todo = [s \in Scripts |-> <<>>]
  /\ restart = [s \in Scripts |-> FALSE]
  /\ boot = "init"
  /\ served = [v \in Services |-> {}]
  /\ treated = {}
  /\ hasty = {}

-----------------------------------------------------------------------------
(* The user and the kernel: an event starts a script instance.             *)

Event(s, b, a) ==
  /\ pc[s] = "idle"
  /\ hasty' = IF Busy(b) THEN hasty \cup {b} ELSE hasty
  /\ pc' = [pc EXCEPT ![s] = "start"]
  /\ act' = [act EXCEPT ![s] = a]
  /\ blk' = [blk EXCEPT ![s] = b]
  /\ UNCHANGED <<mounted, dirs, file, lock, todo, restart, boot, served,
                 treated>>

\* The kernel does not reuse the name of a disk that is still mounted.
Plug(s, b) ==
  /\ b \notin present
  /\ b \notin mounted
  /\ present' = present \cup {b}
  /\ Event(s, b, "add")

Unplug(s, b) ==
  /\ b \in present
  /\ present' = present \ {b}
  /\ Event(s, b, "remove")

-----------------------------------------------------------------------------
(* Both branches of the script: queue the block, elect a master.           *)

\* Mistake: the first critical section does not wait for the lock.
LockNoWait(s) ==
  /\ pc[s] = "start"
  /\ lock' = [lock EXCEPT ![Key(s)] = s]
  /\ pc' = [pc EXCEPT ![s] = "push"]
  /\ UNCHANGED <<present, mounted, dirs, file, scriptVars, todo, restart, boot,
                 served, treated, hasty>>

Lock(s) ==
  /\ pc[s] = "start"
  /\ lock[Key(s)] = None
  /\ lock' = [lock EXCEPT ![Key(s)] = s]
  /\ pc' = [pc EXCEPT ![s] = "push"]
  /\ UNCHANGED <<present, mounted, dirs, file, scriptVars, todo, restart, boot,
                 served, treated, hasty>>

\* Mistake: the script does not look for the queue file before it claims to be
\* the master.
PushAlwaysMaster(s) ==
  /\ pc[s] = "push"
  /\ file' = [file EXCEPT ![Key(s)] = Append(@, s)]
  /\ pc' = [pc EXCEPT ![s] = "sleep"]
  /\ lock' = [lock EXCEPT ![Key(s)] = None]
  /\ UNCHANGED <<present, mounted, dirs, scriptVars, todo, restart, boot,
                 served, treated, hasty>>

Push(s) ==
  /\ pc[s] = "push"
  /\ file' = [file EXCEPT ![Key(s)] = Append(@, s)]
  /\ pc' = [pc EXCEPT ![s] = IF file[Key(s)] = <<>> THEN "sleep" ELSE "done"]
  /\ lock' = [lock EXCEPT ![Key(s)] = None]
  /\ UNCHANGED <<present, mounted, dirs, scriptVars, todo, restart, boot,
                 served, treated, hasty>>

\* After "sleep 2" the master takes the lock and reads the file.
Wake(s) ==
  /\ pc[s] = "sleep"
  /\ lock[Key(s)] = None
  /\ lock' = [lock EXCEPT ![Key(s)] = s]
  /\ todo' = [todo EXCEPT ![s] = file[Key(s)]]
  /\ pc' = [pc EXCEPT ![s] = "work"]
  /\ UNCHANGED <<present, mounted, dirs, file, scriptVars, restart, boot,
                 served, treated, hasty>>

-----------------------------------------------------------------------------
(* The master treats its lines.                                            *)

MkMountPoint(s) ==
  /\ pc[s] = "work"
  /\ act[s] = "add"
  /\ todo[s] # <<>>
  /\ dirs' = dirs \cup {blk[Head(todo[s])]}
  /\ pc' = [pc EXCEPT ![s] = "mount"]
  /\ UNCHANGED <<present, mounted, file, lock, scriptVars, todo, restart, boot,
                 served, treated, hasty>>

\* One of the five mount commands succeeds.
CanMount(b) == b \in (present \cap Mountable \cap dirs) \ mounted

\* rmdir fails on a directory that is a mount point.
Rmdir(b, mnt) == IF b \in mnt THEN dirs ELSE dirs \ {b}

\* Mistake: the loop over the lines of the mount file stops after the first one.
MountFirstLine(s) ==
  LET b == blk[Head(todo[s])] IN
  /\ pc[s] = "mount"
  /\ mounted' = IF CanMount(b) THEN mounted \cup {b} ELSE mounted
  /\ restart' = [restart EXCEPT ![s] = CanMount(b)]
  /\ todo' = [todo EXCEPT ![s] = <<>>]
  /\ treated' = treated \cup {Head(todo[s])}
  /\ pc' = [pc EXCEPT ![s] = "work"]
  /\ UNCHANGED <<present, dirs, file, lock, scriptVars, boot, served, hasty>>

Mount(s) ==
  LET b == blk[Head(todo[s])] IN
  /\ pc[s] = "mount"
  /\ IF CanMount(b)
     THEN /\ mounted' = mounted \cup {b}
          /\ restart' = [restart EXCEPT ![s] = TRUE]
          /\ UNCHANGED dirs
     ELSE /\ dirs' = Rmdir(b, mounted)
          /\ UNCHANGED <<mounted, restart>>
  /\ todo' = [todo EXCEPT ![s] = Tail(@)]
  /\ treated' = treated \cup {Head(todo[s])}
  /\ pc' = [pc EXCEPT ![s] = "work"]
  /\ UNCHANGED <<present, file, lock, scriptVars, boot, served, hasty>>

\* Mistake: a successful umount does not set RESTART_FLAG.
UmountNoRestart(s) ==
  LET b == blk[Head(todo[s])] IN
  /\ pc[s] = "work"
  /\ act[s] = "remove"
  /\ todo[s] # <<>>
  /\ mounted' = mounted \ {b}
  /\ dirs' = Rmdir(b, mounted')
  /\ todo' = [todo EXCEPT ![s] = Tail(@)]
  /\ treated' = treated \cup {Head(todo[s])}
  /\ UNCHANGED <<present, file, lock, pc, scriptVars, restart, boot, served,
                 hasty>>

\* The search of /proc/mounts for /mnt/usb/sda also finds /mnt/usb/sda1: then
\* umount -l fails, for sda is no mount point, and rmdir follows all the same.
\* Of a mount point, a lazy umount does not fail.
FoundMounted(b) == Like[b] \cap mounted # {}

Umount(s) ==
  LET b == blk[Head(todo[s])] IN
  /\ pc[s] = "work"
  /\ act[s] = "remove"
  /\ todo[s] # <<>>
  /\ mounted' = mounted \ {b}
  /\ restart' = IF b \in mounted THEN [restart EXCEPT ![s] = TRUE] ELSE restart
  /\ dirs' = IF FoundMounted(b) THEN Rmdir(b, mounted') ELSE dirs
  /\ todo' = [todo EXCEPT ![s] = Tail(@)]
  /\ treated' = treated \cup {Head(todo[s])}
  /\ UNCHANGED <<present, file, lock, pc, scriptVars, boot, served, hasty>>

-----------------------------------------------------------------------------
(* The master restarts the services, if it changed the mount table, and    *)
(* resigns.                                                                *)

EndLoop(s) ==
  /\ pc[s] = "work"
  /\ todo[s] = <<>>
  /\ pc' = [pc EXCEPT ![s] = IF restart[s] THEN "hup" ELSE "rm"]
  /\ UNCHANGED <<present, mounted, dirs, file, lock, scriptVars, todo, restart,
                 boot, served, treated, hasty>>

RestartService(s, here, service, next) ==
  /\ pc[s] = here
  /\ boot = "up"
  /\ served' = [served EXCEPT ![service] = mounted]
  /\ pc' = [pc EXCEPT ![s] = next]
  /\ UNCHANGED <<present, mounted, dirs, file, lock, scriptVars, todo, restart,
                 boot, treated, hasty>>

RestartServices(s) ==
  \/ RestartService(s, "hup", "fastcgi", "samba")
  \/ RestartService(s, "samba", "samba", "ushare")
  \/ RestartService(s, "ushare", "ushare", "rm")

\* Mistake: the master resigns without removing its queue file.
FinishKeepFile(s) ==
  /\ pc[s] = "rm"
  /\ lock' = [lock EXCEPT ![Key(s)] = None]
  /\ pc' = [pc EXCEPT ![s] = "done"]
  /\ UNCHANGED <<present, mounted, dirs, file, scriptVars, todo, restart, boot,
                 served, treated, hasty>>

\* Mistake: the lock is released before the file is removed.
FinishUnlocked(s) ==
  /\ pc[s] = "rm"
  /\ \/ /\ lock[Key(s)] = s
        /\ lock' = [lock EXCEPT ![Key(s)] = None]
        /\ UNCHANGED <<pc, file>>
     \/ /\ lock[Key(s)] # s
        /\ file' = [file EXCEPT ![Key(s)] = <<>>]
        /\ pc' = [pc EXCEPT ![s] = "done"]
        /\ UNCHANGED lock
  /\ UNCHANGED <<present, mounted, dirs, scriptVars, todo, restart, boot,
                 served, treated, hasty>>

Finish(s) ==
  /\ pc[s] = "rm"
  /\ file' = [file EXCEPT ![Key(s)] = <<>>]
  /\ lock' = [lock EXCEPT ![Key(s)] = None]
  /\ pc' = [pc EXCEPT ![s] = "done"]
  /\ UNCHANGED <<present, mounted, dirs, scriptVars, todo, restart, boot,
                 served, treated, hasty>>

-----------------------------------------------------------------------------
(* init.d/services: start the services, then create /var/state/services.   *)

BootServices ==
  /\ boot = "init"
  /\ boot' = "coldplug"
  /\ served' = [v \in Services |-> mounted]
  /\ UNCHANGED <<present, mounted, dirs, file, lock, pc, scriptVars, todo,
                 restart, treated, hasty>>

ServicesUp ==
  /\ boot = "coldplug"
  /\ boot' = "up"
  /\ UNCHANGED <<present, mounted, dirs, file, lock, pc, scriptVars, todo,
                 restart, served, treated, hasty>>

-----------------------------------------------------------------------------

Step(s) ==
  \/ Lock(s) \/ Push(s) \/ Wake(s) \/ MkMountPoint(s) \/ Mount(s) \/ Umount(s)
  \/ EndLoop(s) \/ RestartServices(s) \/ Finish(s)

Next ==
  \/ \E s \in Scripts, b \in Blocks : Plug(s, b) \/ Unplug(s, b)
  \/ \E s \in Scripts : Step(s)
  \/ BootServices
  \/ ServicesUp

\* Every script instance is a process the scheduler runs; init runs the boot
\* script.  The events number at most |Scripts|, so weak fairness is enough for
\* a script waiting for a lock.
Fairness ==
  /\ \A s \in Scripts : WF_vars(Step(s))
  /\ WF_vars(BootServices \/ ServicesUp)

Spec == Init /\ [][Next]_vars
FairSpec == Spec /\ Fairness

-----------------------------------------------------------------------------
TypeOK ==
  /\ present \subseteq Blocks
  /\ mounted \subseteq Blocks
  /\ dirs \subseteq Blocks
  /\ file \in [Queues -> Seq(Scripts)]
  /\ lock \in [Queues -> Scripts \cup {None}]
  /\ pc \in [Scripts -> Pcs]
  /\ act \in [Scripts -> Acts]
  /\ blk \in [Scripts -> Blocks]
  /\ todo \in [Scripts -> Seq(Scripts)]
  /\ restart \in [Scripts -> BOOLEAN]
  /\ boot \in {"init", "coldplug", "up"}
  /\ served \in [Services -> SUBSET Blocks]
  /\ treated \subseteq Scripts
  /\ hasty \subseteq Blocks

\* A script is inside a critical section of 10-mount exactly when it holds a
\* lock, and that lock is the one of its own disk and direction.
LockInv ==
  \A s \in Scripts, q \in Queues :
    lock[q] = s <=> pc[s] \in LockedPcs /\ q = Key(s)

\* A queue never has two masters.
OneMaster ==
  \A s, t \in Scripts :
    pc[s] \in MasterPcs /\ pc[t] \in MasterPcs /\ Key(s) = Key(t) => s = t

\* No block is left behind in a queue file without a master to treat it, and
\* the master's file is still there when it wakes up.
QueueHasMaster ==
  \A q \in Queues :
    file[q] # <<>> <=> \E s \in Scripts : pc[s] \in MasterPcs /\ Key(s) = q

\* s has a line in the sequence q.
In(s, q) == \E i \in DOMAIN q : q[i] = s

\* No event is lost: the line a script has queued has been treated, or a master
\* of its queue is about to read it from the file, or has it in its loop.
NoLostLine ==
  \A s \in Scripts :
    pc[s] \in MasterPcs \cup {"done"} =>
      \/ s \in treated
      \/ \E m \in Scripts :
           /\ Key(m) = Key(s)
           /\ \/ pc[m] = "sleep" /\ In(s, file[Key(s)])
              \/ pc[m] \in {"work", "mount"} /\ In(s, todo[m])

\* The services left to restart at a place of the script.
Pending(p) ==
  CASE p \in {"work", "mount", "hup"} -> Services
    [] p = "samba"  -> {"samba", "ushare"}
    [] p = "ushare" -> {"ushare"}
    [] OTHER -> {}

\* Once the services run, a service that does not know the current mount table
\* has a restart ahead of it: some master changed the table (RESTART_FLAG) and
\* has not restarted that service yet.
ServedInv ==
  boot # "init" =>
    \A v \in Services :
      served[v] = mounted
      \/ \E s \in Scripts : restart[s] /\ v \in Pending(pc[s])

\* A master about to mount has a line to mount.
LineInv == \A s \in Scripts : pc[s] = "mount" => todo[s] # <<>>

\* The lines a master of queue k has ahead of it: each is there once, and is of
\* a script of that queue.
Ahead(lines, k) ==
  /\ \A i \in DOMAIN lines :
       /\ Key(lines[i]) = k /\ lines[i] \notin treated
       /\ pc[lines[i]] \in MasterPcs \cup {"done"}
  /\ \A i, j \in DOMAIN lines : lines[i] = lines[j] => i = j

AheadOf(m) ==
  /\ pc[m] = "sleep" => Ahead(file[Key(m)], Key(m))
  /\ pc[m] \in {"work", "mount"} => Ahead(todo[m], Key(m))
  /\ pc[m] = "mount" => act[m] = "add" /\ blk[Head(todo[m])] \in dirs \cup hasty
  /\ m \in treated => pc[m] \in MasterPcs \cup {"done"}

AheadInv == \A m \in Scripts : AheadOf(m)

\* A block left alone until its last event was treated has at most one event
\* under way, and is mounted as the events treated say.
SpacedInv ==
  \A b \in Blocks \ hasty :
    /\ ~Busy(b) => (b \in mounted <=> b \in present \cap Mountable)
    /\ \A s \in Scripts : Untreated(s) /\ blk[s] = b =>
         /\ act[s] = "add" => b \in present \ mounted
         /\ act[s] = "remove" => b \notin present /\ (b \in mounted <=> b \in Mountable)
         /\ \A u \in Scripts : Untreated(u) /\ blk[u] = b => u = s

\* The inductive invariant of the election, the treatment of the lines and the
\* restarts.
IInv ==
  /\ TypeOK /\ LineInv /\ LockInv
  /\ OneMaster /\ QueueHasMaster /\ NoLostLine /\ ServedInv
  /\ AheadInv /\ SpacedInv

\* All script instances have ended.
Quiet == \A s \in Scripts : pc[s] \in {"idle", "done"}

\* "and finally, restart usb dependent services": whatever the order in which
\* masters of both directions and of all disks ran, when they are all done the
\* services export the partitions that are mounted.
ServicesCurrent ==
  Quiet /\ boot # "init" => \A v \in Services : served[v] = mounted

\* "Mount/Umount available partitions when plugin/plugout usb device": when all
\* scripts are done, every partition that was left alone until its last event
\* had been treated is mounted exactly if it is plugged in and mountable,
\* whatever happened to the other partitions of its disk.
SpacedMatch ==
  Quiet => \A b \in Blocks \ hasty :
             b \in mounted <=> b \in present \cap Mountable

\* Every event is treated: a master goes through the line of its block.
EventsTreated == \A s \in Scripts : pc[s] = "start" ~> s \in treated
=============================================================================
