------------------------- MODULE HotplugMountProofs -------------------------
(* Proofs for HotplugMount: for any number of script instances, blocks and *)
(* disks, a queue has one master exactly while it has lines, no line is    *)
(* lost, and when all scripts have ended the services know the mount table *)
(* and the blocks that were not replugged in haste are mounted as they are *)
(* plugged.                                                                *)
EXTENDS HotplugMount, TLAPS

USE DevRootAssumption, BlocksAssumption, NoneAssumption

\* The queue of a script is one of the queues.
LEMMA KeyInQueues ==
  ASSUME TypeOK
  PROVE  \A s \in Scripts : Key(s) \in Queues
BY DEF TypeOK, Key, Queues

\* A queue file is not empty after a push.
LEMMA AppendNotEmpty ==
  ASSUME NEW S, NEW q \in Seq(S), NEW x \in S
  PROVE  Append(q, x) # <<>>
OBVIOUS

\* A push keeps the lines of a file and adds one.
LEMMA InAppend ==
  ASSUME NEW S, NEW q \in Seq(S), NEW x \in S
  PROVE  In(x, Append(q, x)) /\ \A y : In(y, q) => In(y, Append(q, x))
<1>1. /\ DOMAIN Append(q, x) = 1 .. Len(q) + 1
      /\ Append(q, x)[Len(q) + 1] = x
      /\ \A i \in 1 .. Len(q) : Append(q, x)[i] = q[i]
  OBVIOUS
<1>2. DOMAIN q = 1 .. Len(q) /\ Len(q) \in Nat
  OBVIOUS
<1>3. QED
  BY <1>1, <1>2 DEF In

\* Going to the next line of the loop leaves all lines but the first.
LEMMA InTail ==
  ASSUME NEW S, NEW q \in Seq(S), q # <<>>, NEW y, In(y, q)
  PROVE  y = Head(q) \/ In(y, Tail(q))
<1>1. PICK i \in DOMAIN q : q[i] = y
  BY DEF In
<1>2. CASE i = 1
  BY <1>1, <1>2
<1>3. CASE i # 1
  <2>1. i - 1 \in DOMAIN Tail(q) /\ Tail(q)[i - 1] = q[i]
    BY <1>3
  <2>2. QED
    BY <1>1, <2>1 DEF In
<1>4. QED
  BY <1>2, <1>3

\* The initial state satisfies the inductive invariant.
LEMMA InitIInv == Init => IInv
<1> SUFFICES ASSUME Init PROVE IInv
  OBVIOUS
<1>1. TypeOK
  <2>1. (CHOOSE b \in Blocks : TRUE) \in Blocks
    OBVIOUS
  <2>2. QED
    BY <2>1 DEF Init, TypeOK, Queues, Acts, Pcs
<1>2. LockInv
  BY <1>1, KeyInQueues DEF Init, LockInv, LockedPcs
<1>3. OneMaster /\ QueueHasMaster /\ NoLostLine
  BY DEF Init, OneMaster, QueueHasMaster, NoLostLine, MasterPcs
<1>4. ServedInv /\ LineInv
  BY DEF Init, ServedInv, LineInv
<1>5. AheadInv /\ SpacedInv
  BY DEF Init, AheadInv, AheadOf, SpacedInv, Busy, Untreated
<1>6. QED
  BY <1>1, <1>2, <1>3, <1>4, <1>5 DEF IInv

\* Every step keeps the variables in their types.
LEMMA NextTypeOK == TypeOK /\ LineInv /\ [Next]_vars => TypeOK'
<1> SUFFICES ASSUME TypeOK /\ LineInv, [Next]_vars PROVE TypeOK'
  OBVIOUS
<1> USE DEF TypeOK, LineInv, scriptVars, Acts, Pcs, MasterPcs, LockedPcs, Services
<1> \A t \in Scripts : Key(t) \in Queues
  BY KeyInQueues
<1>1. ASSUME NEW s \in Scripts, NEW b \in Blocks, Plug(s, b) PROVE TypeOK'
  BY <1>1 DEF Plug, Event
<1>2. ASSUME NEW s \in Scripts, NEW b \in Blocks, Unplug(s, b) PROVE TypeOK'
  BY <1>2 DEF Unplug, Event
<1>3. ASSUME NEW s \in Scripts, Lock(s) PROVE TypeOK'
  BY <1>3 DEF Lock
<1>4. ASSUME NEW s \in Scripts, Push(s) PROVE TypeOK'
  BY <1>4 DEF Push
<1>5. ASSUME NEW s \in Scripts, Wake(s) PROVE TypeOK'
  BY <1>5 DEF Wake
<1>6. ASSUME NEW s \in Scripts, MkMountPoint(s) PROVE TypeOK'
  BY <1>6 DEF MkMountPoint
<1>7. ASSUME NEW s \in Scripts, Mount(s) PROVE TypeOK'
  <2>1. todo[s] \in Seq(Scripts) /\ todo[s] # <<>>
    BY <1>7 DEF Mount
  <2>2. Head(todo[s]) \in Scripts /\ Tail(todo[s]) \in Seq(Scripts)
    BY <2>1
  <2> HIDE DEF LineInv
  <2>3. (/\ present \subseteq Blocks /\ mounted \subseteq Blocks
         /\ dirs \subseteq Blocks)'
    BY <1>7, <2>2 DEF Mount, CanMount, Rmdir
  <2>4. (restart \in [Scripts -> BOOLEAN])'
    BY <1>7 DEF Mount
  <2>5. (/\ todo \in [Scripts -> Seq(Scripts)] /\ pc \in [Scripts -> Pcs]
         /\ treated \subseteq Scripts)'
    BY <1>7, <2>2 DEF Mount
  <2>6. QED
    BY <1>7, <2>3, <2>4, <2>5 DEF Mount
<1>8. ASSUME NEW s \in Scripts, Umount(s) PROVE TypeOK'
  <2>1. todo[s] \in Seq(Scripts) /\ todo[s] # <<>>
    BY <1>8 DEF Umount
  <2>2. Head(todo[s]) \in Scripts /\ Tail(todo[s]) \in Seq(Scripts)
    BY <2>1
  <2> HIDE DEF LineInv
  <2>3. (/\ present \subseteq Blocks /\ mounted \subseteq Blocks
         /\ dirs \subseteq Blocks)'
    BY <1>8, <2>2 DEF Umount, Rmdir
  <2>4. (restart \in [Scripts -> BOOLEAN])'
    BY <1>8 DEF Umount
  <2>5. (/\ todo \in [Scripts -> Seq(Scripts)] /\ pc \in [Scripts -> Pcs]
         /\ treated \subseteq Scripts)'
    BY <1>8, <2>2 DEF Umount
  <2>6. QED
    BY <1>8, <2>3, <2>4, <2>5 DEF Umount
<1>9. ASSUME NEW s \in Scripts, EndLoop(s) PROVE TypeOK'
  BY <1>9 DEF EndLoop
<1>10. ASSUME NEW s \in Scripts, RestartServices(s) PROVE TypeOK'
  <2>1. CASE RestartService(s, "hup", "fastcgi", "samba")
    BY <2>1 DEF RestartService
  <2>2. CASE RestartService(s, "samba", "samba", "ushare")
    BY <2>2 DEF RestartService
  <2>3. CASE RestartService(s, "ushare", "ushare", "rm")
    BY <2>3 DEF RestartService
  <2>4. QED
    BY <1>10, <2>1, <2>2, <2>3 DEF RestartServices
<1>11. ASSUME NEW s \in Scripts, Finish(s) PROVE TypeOK'
  BY <1>11 DEF Finish
<1>12. CASE BootServices
  BY <1>12 DEF BootServices
<1>13. CASE ServicesUp
  BY <1>13 DEF ServicesUp
<1>14. CASE UNCHANGED vars
  BY <1>14 DEF vars
<1>15. QED
  BY <1>1, <1>2, <1>3, <1>4, <1>5, <1>6, <1>7, <1>8, <1>9, <1>10, <1>11,
     <1>12, <1>13, <1>14 DEF Next, Step

\* Only MkMountPoint leads to Mount, with a line in hand.
LEMMA NextLineInv == TypeOK /\ LineInv /\ [Next]_vars => LineInv'
<1> SUFFICES ASSUME TypeOK /\ LineInv, [Next]_vars PROVE LineInv'
  OBVIOUS
<1> USE DEF TypeOK, LineInv, scriptVars, Pcs, MasterPcs, LockedPcs
<1>1. ASSUME NEW s \in Scripts, NEW b \in Blocks, Plug(s, b) PROVE LineInv'
  BY <1>1 DEF Plug, Event
<1>2. ASSUME NEW s \in Scripts, NEW b \in Blocks, Unplug(s, b) PROVE LineInv'
  BY <1>2 DEF Unplug, Event
<1>3. ASSUME NEW s \in Scripts, Lock(s) PROVE LineInv'
  BY <1>3 DEF Lock
<1>4. ASSUME NEW s \in Scripts, Push(s) PROVE LineInv'
  BY <1>4 DEF Push
<1>5. ASSUME NEW s \in Scripts, Wake(s) PROVE LineInv'
  BY <1>5 DEF Wake
<1>6. ASSUME NEW s \in Scripts, MkMountPoint(s) PROVE LineInv'
  BY <1>6 DEF MkMountPoint
<1>7. ASSUME NEW s \in Scripts, Mount(s) PROVE LineInv'
  BY <1>7 DEF Mount, CanMount, Rmdir
<1>8. ASSUME NEW s \in Scripts, Umount(s) PROVE LineInv'
  BY <1>8 DEF Umount, Rmdir
<1>9. ASSUME NEW s \in Scripts, EndLoop(s) PROVE LineInv'
  BY <1>9 DEF EndLoop
<1>10. ASSUME NEW s \in Scripts, RestartServices(s) PROVE LineInv'
  BY <1>10 DEF RestartServices, RestartService
<1>11. ASSUME NEW s \in Scripts, Finish(s) PROVE LineInv'
  BY <1>11 DEF Finish
<1>12. CASE BootServices
  BY <1>12 DEF BootServices
<1>13. CASE ServicesUp
  BY <1>13 DEF ServicesUp
<1>14. CASE UNCHANGED vars
  BY <1>14 DEF vars
<1>15. QED
  BY <1>1, <1>2, <1>3, <1>4, <1>5, <1>6, <1>7, <1>8, <1>9, <1>10, <1>11,
     <1>12, <1>13, <1>14 DEF Next, Step

\* The lock of a queue follows the critical sections of its scripts.
LEMMA NextLockInv == TypeOK /\ LockInv /\ [Next]_vars => LockInv'
<1> SUFFICES ASSUME TypeOK /\ LockInv, [Next]_vars PROVE LockInv'
  OBVIOUS
<1> USE DEF TypeOK, LockInv, Key, scriptVars, Acts, Pcs, MasterPcs, LockedPcs
<1> \A t \in Scripts : Key(t) \in Queues
  BY KeyInQueues
<1>1. ASSUME NEW s \in Scripts, NEW b \in Blocks, Plug(s, b) PROVE LockInv'
  BY <1>1 DEF Plug, Event
<1>2. ASSUME NEW s \in Scripts, NEW b \in Blocks, Unplug(s, b) PROVE LockInv'
  BY <1>2 DEF Unplug, Event
<1>3. ASSUME NEW s \in Scripts, Lock(s) PROVE LockInv'
  BY <1>3 DEF Lock
<1>4. ASSUME NEW s \in Scripts, Push(s) PROVE LockInv'
  BY <1>4 DEF Push
<1>5. ASSUME NEW s \in Scripts, Wake(s) PROVE LockInv'
  BY <1>5 DEF Wake
<1>6. ASSUME NEW s \in Scripts, MkMountPoint(s) PROVE LockInv'
  BY <1>6 DEF MkMountPoint
<1>7. ASSUME NEW s \in Scripts, Mount(s) PROVE LockInv'
  BY <1>7 DEF Mount, CanMount, Rmdir
<1>8. ASSUME NEW s \in Scripts, Umount(s) PROVE LockInv'
  BY <1>8 DEF Umount, Rmdir
<1>9. ASSUME NEW s \in Scripts, EndLoop(s) PROVE LockInv'
  BY <1>9 DEF EndLoop
<1>10. ASSUME NEW s \in Scripts, RestartServices(s) PROVE LockInv'
  <2>1. CASE RestartService(s, "hup", "fastcgi", "samba")
    BY <2>1 DEF RestartService
  <2>2. CASE RestartService(s, "samba", "samba", "ushare")
    BY <2>2 DEF RestartService
  <2>3. CASE RestartService(s, "ushare", "ushare", "rm")
    BY <2>3 DEF RestartService
  <2>4. QED
    BY <1>10, <2>1, <2>2, <2>3 DEF RestartServices
<1>11. ASSUME NEW s \in Scripts, Finish(s) PROVE LockInv'
  BY <1>11 DEF Finish
<1>12. CASE BootServices
  BY <1>12 DEF BootServices
<1>13. CASE ServicesUp
  BY <1>13 DEF ServicesUp
<1>14. CASE UNCHANGED vars
  BY <1>14 DEF vars
<1>15. QED
  BY <1>1, <1>2, <1>3, <1>4, <1>5, <1>6, <1>7, <1>8, <1>9, <1>10, <1>11,
     <1>12, <1>13, <1>14 DEF Next, Step

\* Mastership and the queue file come and go together.
LEMMA NextMaster == TypeOK /\ LockInv /\ OneMaster /\ QueueHasMaster /\ [Next]_vars => (OneMaster /\ QueueHasMaster)'
<1> SUFFICES ASSUME TypeOK /\ LockInv /\ OneMaster /\ QueueHasMaster, [Next]_vars PROVE (OneMaster /\ QueueHasMaster)'
  OBVIOUS
<1> USE DEF TypeOK, LockInv, OneMaster, QueueHasMaster, Key, scriptVars, Acts, Pcs, MasterPcs, LockedPcs
<1> \A t \in Scripts : Key(t) \in Queues
  BY KeyInQueues
<1>1. ASSUME NEW s \in Scripts, NEW b \in Blocks, Plug(s, b) PROVE (OneMaster /\ QueueHasMaster)'
  <2>1. \A t \in Scripts :
          t # s => pc'[t] = pc[t] /\ blk'[t] = blk[t] /\ act'[t] = act[t]
    BY <1>1 DEF Plug, Event
  <2>2. pc[s] \notin MasterPcs /\ pc'[s] \notin MasterPcs /\ file' = file
    BY <1>1 DEF Plug, Event
  <2> HIDE DEF TypeOK, MasterPcs, LockInv
  <2>3. OneMaster'
    BY <2>1, <2>2
  <2>4. QueueHasMaster'
    BY <2>1, <2>2
  <2>5. QED
    BY <2>3, <2>4
<1>2. ASSUME NEW s \in Scripts, NEW b \in Blocks, Unplug(s, b) PROVE (OneMaster /\ QueueHasMaster)'
  <2>1. \A t \in Scripts :
          t # s => pc'[t] = pc[t] /\ blk'[t] = blk[t] /\ act'[t] = act[t]
    BY <1>2 DEF Unplug, Event
  <2>2. pc[s] \notin MasterPcs /\ pc'[s] \notin MasterPcs /\ file' = file
    BY <1>2 DEF Unplug, Event
  <2> HIDE DEF TypeOK, MasterPcs, LockInv
  <2>3. OneMaster'
    BY <2>1, <2>2
  <2>4. QueueHasMaster'
    BY <2>1, <2>2
  <2>5. QED
    BY <2>3, <2>4
<1>3. ASSUME NEW s \in Scripts, Lock(s) PROVE (OneMaster /\ QueueHasMaster)'
  BY <1>3 DEF Lock
<1>4. ASSUME NEW s \in Scripts, Push(s) PROVE (OneMaster /\ QueueHasMaster)'
  <2>1. file' = [file EXCEPT ![Key(s)] = Append(file[Key(s)], s)]
    BY <1>4 DEF Push
  <2>2. Append(file[Key(s)], s) # <<>>
    <3>1. file[Key(s)] \in Seq(Scripts)
      OBVIOUS
    <3> HIDE DEF TypeOK, LockInv, OneMaster, QueueHasMaster, Key
    <3>2. QED
      BY <3>1, AppendNotEmpty
  <2>3. file'[Key(s)] # <<>> /\ \A q \in Queues : q # Key(s) => file'[q] = file[q]
    <3>1. DOMAIN file = Queues
      OBVIOUS
    <3> HIDE DEF TypeOK, LockInv, OneMaster, QueueHasMaster, Key, MasterPcs
    <3>2. QED
      BY <2>1, <2>2, <3>1
  <2>4. \A t \in Scripts : t # s => pc'[t] = pc[t]
    BY <1>4 DEF Push
  <2>5. pc[s] \notin MasterPcs /\ (pc'[s] \in MasterPcs <=> file[Key(s)] = <<>>)
    BY <1>4 DEF Push
  <2>6. blk' = blk /\ act' = act
    BY <1>4 DEF Push
  <2> HIDE DEF TypeOK, MasterPcs, LockInv
  <2>7. OneMaster'
    BY <2>4, <2>5, <2>6
  <2>8. QueueHasMaster'
    BY <2>3, <2>4, <2>5, <2>6
  <2>9. QED
    BY <2>7, <2>8
<1>5. ASSUME NEW s \in Scripts, Wake(s) PROVE (OneMaster /\ QueueHasMaster)'
  BY <1>5 DEF Wake
<1>6. ASSUME NEW s \in Scripts, MkMountPoint(s) PROVE (OneMaster /\ QueueHasMaster)'
  BY <1>6 DEF MkMountPoint
<1>7. ASSUME NEW s \in Scripts, Mount(s) PROVE (OneMaster /\ QueueHasMaster)'
  BY <1>7 DEF Mount, CanMount, Rmdir
<1>8. ASSUME NEW s \in Scripts, Umount(s) PROVE (OneMaster /\ QueueHasMaster)'
  BY <1>8 DEF Umount, Rmdir
<1>9. ASSUME NEW s \in Scripts, EndLoop(s) PROVE (OneMaster /\ QueueHasMaster)'
  BY <1>9 DEF EndLoop
<1>10. ASSUME NEW s \in Scripts, RestartServices(s) PROVE (OneMaster /\ QueueHasMaster)'
  <2>1. CASE RestartService(s, "hup", "fastcgi", "samba")
    BY <2>1 DEF RestartService
  <2>2. CASE RestartService(s, "samba", "samba", "ushare")
    BY <2>2 DEF RestartService
  <2>3. CASE RestartService(s, "ushare", "ushare", "rm")
    BY <2>3 DEF RestartService
  <2>4. QED
    BY <1>10, <2>1, <2>2, <2>3 DEF RestartServices
<1>11. ASSUME NEW s \in Scripts, Finish(s) PROVE (OneMaster /\ QueueHasMaster)'
  BY <1>11 DEF Finish
<1>12. CASE BootServices
  BY <1>12 DEF BootServices
<1>13. CASE ServicesUp
  BY <1>13 DEF ServicesUp
<1>14. CASE UNCHANGED vars
  BY <1>14 DEF vars
<1>15. QED
  BY <1>1, <1>2, <1>3, <1>4, <1>5, <1>6, <1>7, <1>8, <1>9, <1>10, <1>11,
     <1>12, <1>13, <1>14 DEF Next, Step

\* No step drops the line of a script before a master has been through it.
LEMMA NextNoLostLine ==
  TypeOK /\ LineInv /\ LockInv /\ OneMaster /\ QueueHasMaster /\ NoLostLine
    /\ [Next]_vars => NoLostLine'
<1> DEFINE Waits(u, m) ==
       /\ Key(m) = Key(u)
       /\ \/ pc[m] = "sleep" /\ In(u, file[Key(u)])
          \/ pc[m] \in {"work", "mount"} /\ In(u, todo[m])
    Covered(u) == u \in treated \/ \E m \in Scripts : Waits(u, m)
<1> SUFFICES ASSUME TypeOK, LineInv, LockInv, OneMaster, QueueHasMaster, NoLostLine,
                    [Next]_vars,
                    NEW t \in Scripts, pc'[t] \in MasterPcs \cup {"done"}
             PROVE  Covered(t)'
  BY DEF NoLostLine
<1>0. pc[t] \in MasterPcs \cup {"done"} => Covered(t)
  BY DEF NoLostLine
<1> USE DEF TypeOK, scriptVars
<1>1. ASSUME NEW s \in Scripts, NEW b \in Blocks, Plug(s, b) PROVE Covered(t)'
  <2>1. t # s /\ pc[t] = pc'[t]
    BY <1>1 DEF Plug, Event, MasterPcs
  <2>2. \A m \in Scripts : Waits(t, m) => Waits(t, m)'
    BY <1>1, <2>1 DEF Plug, Event, Key
  <2>3. QED
    BY <1>0, <1>1, <2>1, <2>2 DEF Plug, Event
<1>2. ASSUME NEW s \in Scripts, NEW b \in Blocks, Unplug(s, b) PROVE Covered(t)'
  <2>1. t # s /\ pc[t] = pc'[t]
    BY <1>2 DEF Unplug, Event, MasterPcs
  <2>2. \A m \in Scripts : Waits(t, m) => Waits(t, m)'
    BY <1>2, <2>1 DEF Unplug, Event, Key
  <2>3. QED
    BY <1>0, <1>2, <2>1, <2>2 DEF Unplug, Event
<1>3. ASSUME NEW s \in Scripts, Lock(s) PROVE Covered(t)'
  <2>1. t # s /\ pc[t] = pc'[t]
    BY <1>3 DEF Lock, MasterPcs
  <2>2. \A m \in Scripts : Waits(t, m) => Waits(t, m)'
    BY <1>3, <2>1 DEF Lock, Key
  <2>3. QED
    BY <1>0, <1>3, <2>1, <2>2 DEF Lock
<1>4. ASSUME NEW s \in Scripts, Push(s) PROVE Covered(t)'
  <2>1. Key(s) \in Queues /\ file[Key(s)] \in Seq(Scripts)
    BY KeyInQueues
  <2>2. file' = [file EXCEPT ![Key(s)] = Append(file[Key(s)], s)]
    BY <1>4 DEF Push
  <2>3. file'[Key(s)] = Append(file[Key(s)], s)
    BY <2>1, <2>2
  <2>0. /\ In(s, Append(file[Key(s)], s))
        /\ \A y : In(y, file[Key(s)]) => In(y, Append(file[Key(s)], s))
    <3> DEFINE q == file[Key(s)]
    <3>1. q \in Seq(Scripts)
      BY <2>1
    <3> HIDE DEF q, TypeOK
    <3>2. In(s, Append(q, s)) /\ \A y : In(y, q) => In(y, Append(q, s))
      BY <3>1, InAppend
    <3>3. QED
      BY <3>2 DEF q
  <2>4. blk' = blk /\ act' = act /\ todo' = todo /\ treated' = treated
    BY <1>4 DEF Push
  <2>5. \A m \in Scripts : m # s => pc'[m] = pc[m]
    BY <1>4 DEF Push
  <2>6. CASE t = s
    <3>1. In(t, file'[Key(t)])
      BY <2>0, <2>3, <2>6
    <3>2. PICK m \in Scripts : Key(m) = Key(s) /\ pc'[m] = "sleep"
      <4>1. CASE file[Key(s)] = <<>>
        <5>1. pc'[s] = "sleep"
          BY <1>4, <4>1 DEF Push
        <5>2. QED
          BY <5>1
      <4>2. CASE file[Key(s)] # <<>>
        <5>1. PICK m \in Scripts : pc[m] \in MasterPcs /\ Key(m) = Key(s)
          BY <2>1, <4>2 DEF QueueHasMaster
        <5>2. pc[s] = "push" /\ lock[Key(s)] = s
          BY <1>4, <2>1 DEF Push, LockInv, LockedPcs
        <5>3. m # s
          BY <5>1, <5>2 DEF MasterPcs
        <5>4. pc[m] \notin LockedPcs
          BY <2>1, <5>1, <5>2, <5>3 DEF LockInv
        <5>5. pc'[m] = "sleep"
          BY <2>5, <5>1, <5>3, <5>4 DEF MasterPcs, LockedPcs
        <5>6. QED
          BY <5>1, <5>5
      <4>3. QED
        BY <4>1, <4>2
    <3>3. Key(m)' = Key(m) /\ Key(t)' = Key(t)
      BY <2>4 DEF Key
    <3>4. Waits(t, m)'
      BY <2>6, <3>1, <3>2, <3>3
    <3>5. QED
      BY <3>4
  <2>7. CASE t # s
    <3>1. Covered(t)
      BY <1>0, <2>5, <2>7
    <3>2. In(t, file[Key(t)]) => In(t, file'[Key(t)])
      <4>1. CASE Key(t) = Key(s)
        <5>1. In(t, file[Key(s)]) => In(t, file'[Key(s)])
          BY <2>0, <2>3
        <5>2. QED
          BY <4>1, <5>1
      <4>2. CASE Key(t) # Key(s)
        BY <2>2, <4>2, KeyInQueues
      <4>3. QED
        BY <4>1, <4>2
    <3>3. ASSUME NEW m \in Scripts, Waits(t, m) PROVE Waits(t, m)'
      <4>1. m # s
        BY <1>4, <3>3 DEF Push
      <4>2. pc'[m] = pc[m] /\ Key(m)' = Key(m) /\ Key(t)' = Key(t)
        BY <2>4, <2>5, <4>1 DEF Key
      <4>3. QED
        BY <2>4, <3>2, <3>3, <4>2
    <3>4. QED
      BY <2>4, <3>1, <3>3
  <2>8. QED
    BY <2>6, <2>7
<1>5. ASSUME NEW s \in Scripts, Wake(s) PROVE Covered(t)'
  <2>1. pc[t] \in MasterPcs \cup {"done"}
    BY <1>5 DEF Wake, MasterPcs
  <2>2. ASSUME NEW m \in Scripts, Waits(t, m) PROVE Waits(t, m)'
    <3>1. CASE m = s
      BY <1>5, <2>2, <3>1 DEF Wake, Key
    <3>2. CASE m # s
      BY <1>5, <2>2, <3>2 DEF Wake, Key
    <3>3. QED
      BY <3>1, <3>2
  <2>3. QED
    BY <1>0, <1>5, <2>1, <2>2 DEF Wake
<1>6. ASSUME NEW s \in Scripts, MkMountPoint(s) PROVE Covered(t)'
  <2>1. pc[t] \in MasterPcs \cup {"done"}
    BY <1>6 DEF MkMountPoint, MasterPcs
  <2>2. \A m \in Scripts : Waits(t, m) => Waits(t, m)'
    BY <1>6 DEF MkMountPoint, Key
  <2>3. QED
    BY <1>0, <1>6, <2>1, <2>2 DEF MkMountPoint
<1>7. ASSUME NEW s \in Scripts, Mount(s) PROVE Covered(t)'
  <2>1. pc[t] \in MasterPcs \cup {"done"}
    BY <1>7 DEF Mount, MasterPcs
  <2>2. todo[s] \in Seq(Scripts) /\ todo[s] # <<>>
    BY <1>7 DEF Mount, LineInv
  <2>3. /\ todo' = [todo EXCEPT ![s] = Tail(todo[s])]
        /\ treated' = treated \cup {Head(todo[s])}
        /\ file' = file /\ blk' = blk /\ act' = act
        /\ pc'[s] = "work" /\ pc[s] \in {"work", "mount"}
        /\ \A m \in Scripts : m # s => pc'[m] = pc[m]
    BY <1>7 DEF Mount
  <2>4. ASSUME NEW m \in Scripts, Waits(t, m) PROVE Covered(t)'
    <3>1. CASE m # s
      BY <2>3, <2>4, <3>1 DEF Key
    <3>2. CASE m = s
      <4>1. In(t, todo[s])
        BY <2>3, <2>4, <3>2
      <4>2. t = Head(todo[s]) \/ In(t, Tail(todo[s]))
        BY <2>2, <4>1, InTail
      <4>3. todo'[s] = Tail(todo[s])
        BY <2>3
      <4>4. Key(m)' = Key(m) /\ Key(t)' = Key(t)
        BY <2>3 DEF Key
      <4>5. QED
        BY <2>3, <2>4, <3>2, <4>2, <4>3, <4>4
    <3>3. QED
      BY <3>1, <3>2
  <2>5. QED
    BY <1>0, <2>1, <2>3, <2>4
<1>8. ASSUME NEW s \in Scripts, Umount(s) PROVE Covered(t)'
  <2>1. pc[t] \in MasterPcs \cup {"done"}
    BY <1>8 DEF Umount, MasterPcs
  <2>2. todo[s] \in Seq(Scripts) /\ todo[s] # <<>>
    BY <1>8 DEF Umount, LineInv
  <2>3. /\ todo' = [todo EXCEPT ![s] = Tail(todo[s])]
        /\ treated' = treated \cup {Head(todo[s])}
        /\ file' = file /\ blk' = blk /\ act' = act
        /\ pc'[s] = "work" /\ pc[s] \in {"work", "mount"}
        /\ \A m \in Scripts : m # s => pc'[m] = pc[m]
    BY <1>8 DEF Umount
  <2>4. ASSUME NEW m \in Scripts, Waits(t, m) PROVE Covered(t)'
    <3>1. CASE m # s
      BY <2>3, <2>4, <3>1 DEF Key
    <3>2. CASE m = s
      <4>1. In(t, todo[s])
        BY <2>3, <2>4, <3>2
      <4>2. t = Head(todo[s]) \/ In(t, Tail(todo[s]))
        BY <2>2, <4>1, InTail
      <4>3. todo'[s] = Tail(todo[s])
        BY <2>3
      <4>4. Key(m)' = Key(m) /\ Key(t)' = Key(t)
        BY <2>3 DEF Key
      <4>5. QED
        BY <2>3, <2>4, <3>2, <4>2, <4>3, <4>4
    <3>3. QED
      BY <3>1, <3>2
  <2>5. QED
    BY <1>0, <2>1, <2>3, <2>4
<1>9. ASSUME NEW s \in Scripts, EndLoop(s) PROVE Covered(t)'
  <2>1. pc[t] \in MasterPcs \cup {"done"}
    BY <1>9 DEF EndLoop, MasterPcs
  <2>2. ASSUME NEW m \in Scripts, Waits(t, m) PROVE Waits(t, m)'
    <3>1. m # s
      BY <1>9, <2>2 DEF EndLoop, In
    <3>2. QED
      BY <1>9, <2>2, <3>1 DEF EndLoop, Key
  <2>3. QED
    BY <1>0, <1>9, <2>1, <2>2 DEF EndLoop
<1>10. ASSUME NEW s \in Scripts, RestartServices(s) PROVE Covered(t)'
  <2>1. /\ pc[s] \in {"hup", "samba", "ushare"}
        /\ \A m \in Scripts : m # s => pc'[m] = pc[m]
        /\ treated' = treated /\ todo' = todo /\ file' = file /\ blk' = blk /\ act' = act
    BY <1>10 DEF RestartServices, RestartService
  <2>2. pc[t] \in MasterPcs \cup {"done"}
    BY <2>1 DEF MasterPcs
  <2>3. \A m \in Scripts : Waits(t, m) => Waits(t, m)'
    BY <2>1 DEF Key
  <2>4. QED
    BY <1>0, <2>1, <2>2, <2>3
<1>11. ASSUME NEW s \in Scripts, Finish(s) PROVE Covered(t)'
  <2>1. pc[t] \in MasterPcs \cup {"done"}
    BY <1>11 DEF Finish, MasterPcs
  <2>2. ASSUME NEW m \in Scripts, Waits(t, m) PROVE Waits(t, m)'
    <3>1. m # s /\ pc[m] \in MasterPcs /\ pc[s] \in MasterPcs
      BY <1>11, <2>2 DEF Finish, MasterPcs
    <3>2. Key(m) # Key(s) /\ Key(t) # Key(s)
      BY <2>2, <3>1 DEF OneMaster
    <3>3. file'[Key(t)] = file[Key(t)]
      BY <1>11, <3>2, KeyInQueues DEF Finish
    <3>4. Key(m)' = Key(m) /\ Key(t)' = Key(t)
      BY <1>11 DEF Finish, Key
    <3>5. QED
      BY <1>11, <2>2, <3>1, <3>3, <3>4 DEF Finish
  <2>3. QED
    BY <1>0, <1>11, <2>1, <2>2 DEF Finish
<1>12. CASE BootServices \/ ServicesUp \/ UNCHANGED vars
  <2>1. /\ pc' = pc /\ treated' = treated /\ todo' = todo /\ file' = file
        /\ blk' = blk /\ act' = act
    BY <1>12 DEF BootServices, ServicesUp, vars
  <2>2. QED
    BY <1>0, <2>1 DEF Key
<1>13. QED
  BY <1>1, <1>2, <1>3, <1>4, <1>5, <1>6, <1>7, <1>8, <1>9, <1>10, <1>11, <1>12
     DEF Next, Step

\* A change of the mount table leaves a restart pending for every service.
LEMMA NextServedInv == TypeOK /\ ServedInv /\ [Next]_vars => ServedInv'
<1> SUFFICES ASSUME TypeOK /\ ServedInv, [Next]_vars PROVE ServedInv'
  OBVIOUS
<1> USE DEF TypeOK, ServedInv, Pending, scriptVars, Services, Pcs, MasterPcs, LockedPcs
<1>1. ASSUME NEW s \in Scripts, NEW b \in Blocks, Plug(s, b) PROVE ServedInv'
  BY <1>1 DEF Plug, Event
<1>2. ASSUME NEW s \in Scripts, NEW b \in Blocks, Unplug(s, b) PROVE ServedInv'
  BY <1>2 DEF Unplug, Event
<1>3. ASSUME NEW s \in Scripts, Lock(s) PROVE ServedInv'
  BY <1>3 DEF Lock
<1>4. ASSUME NEW s \in Scripts, Push(s) PROVE ServedInv'
  BY <1>4 DEF Push
<1>5. ASSUME NEW s \in Scripts, Wake(s) PROVE ServedInv'
  BY <1>5 DEF Wake
<1>6. ASSUME NEW s \in Scripts, MkMountPoint(s) PROVE ServedInv'
  BY <1>6 DEF MkMountPoint
<1>7. ASSUME NEW s \in Scripts, Mount(s) PROVE ServedInv'
  BY <1>7 DEF Mount, CanMount, Rmdir
<1>8. ASSUME NEW s \in Scripts, Umount(s) PROVE ServedInv'
  <2> DEFINE b == blk[Head(todo[s])]
  <2>1. CASE b \in mounted
    <3>1. restart' = [restart EXCEPT ![s] = TRUE] /\ pc' = pc /\ pc[s] = "work"
      BY <1>8, <2>1 DEF Umount
    <3>2. restart'[s] /\ Pending(pc'[s]) = Services
      BY <3>1
    <3>3. QED
      BY <1>8, <3>2
  <2>2. CASE b \notin mounted
    <3>1. UNCHANGED <<mounted, restart, pc, boot, served>>
      BY <1>8, <2>2 DEF Umount
    <3>2. QED
      BY <3>1
  <2>3. QED
    BY <2>1, <2>2
<1>9. ASSUME NEW s \in Scripts, EndLoop(s) PROVE ServedInv'
  BY <1>9 DEF EndLoop
<1>10. ASSUME NEW s \in Scripts, RestartServices(s) PROVE ServedInv'
  <2>1. CASE RestartService(s, "hup", "fastcgi", "samba")
    BY <2>1 DEF RestartService
  <2>2. CASE RestartService(s, "samba", "samba", "ushare")
    BY <2>2 DEF RestartService
  <2>3. CASE RestartService(s, "ushare", "ushare", "rm")
    BY <2>3 DEF RestartService
  <2>4. QED
    BY <1>10, <2>1, <2>2, <2>3 DEF RestartServices
<1>11. ASSUME NEW s \in Scripts, Finish(s) PROVE ServedInv'
  BY <1>11 DEF Finish
<1>12. CASE BootServices
  BY <1>12 DEF BootServices
<1>13. CASE ServicesUp
  BY <1>13 DEF ServicesUp
<1>14. CASE UNCHANGED vars
  BY <1>14 DEF vars
<1>15. QED
  BY <1>1, <1>2, <1>3, <1>4, <1>5, <1>6, <1>7, <1>8, <1>9, <1>10, <1>11,
     <1>12, <1>13, <1>14 DEF Next, Step

\* What the lines of a file or a loop look like after a push and after a line.
LEMMA LinesShape ==
  ASSUME NEW S, NEW q \in Seq(S), NEW x \in S
  PROVE  /\ DOMAIN q = 1 .. Len(q) /\ Len(q) \in Nat
         /\ \A i \in DOMAIN q : q[i] \in S
         /\ DOMAIN Append(q, x) = 1 .. Len(q) + 1 /\ Append(q, x)[Len(q) + 1] = x
         /\ \A i \in 1 .. Len(q) : Append(q, x)[i] = q[i]
         /\ q # <<>> => /\ 1 \in DOMAIN q /\ Head(q) = q[1]
                        /\ \A i \in DOMAIN Tail(q) :
                             i \in Nat /\ i + 1 \in DOMAIN q /\ Tail(q)[i] = q[i + 1]
<1>1. /\ DOMAIN q = 1 .. Len(q) /\ Len(q) \in Nat
      /\ \A i \in DOMAIN q : q[i] \in S
  OBVIOUS
<1>2. /\ DOMAIN Append(q, x) = 1 .. Len(q) + 1 /\ Append(q, x)[Len(q) + 1] = x
      /\ \A i \in 1 .. Len(q) : Append(q, x)[i] = q[i]
  OBVIOUS
<1>3. ASSUME q # <<>>
      PROVE  /\ 1 \in DOMAIN q /\ Head(q) = q[1]
             /\ \A i \in DOMAIN Tail(q) :
                  i \in Nat /\ i + 1 \in DOMAIN q /\ Tail(q)[i] = q[i + 1]
  BY <1>3
<1>4. QED
  BY <1>1, <1>2, <1>3

\* The places after the first critical section.
LEMMA PlacesAre ==
  MasterPcs \cup {"done"}
    = {"sleep", "work", "mount", "hup", "samba", "ushare", "rm", "done"}
BY DEF MasterPcs

\* The line a master has in hand is of a script of its queue, untreated, and the
\* only such script of its block unless that was hasty.
LEMMA LineInHand ==
  ASSUME TypeOK, AheadInv, SpacedInv, NEW m \in Scripts,
         pc[m] \in {"work", "mount"}, todo[m] # <<>>
  PROVE  LET h == Head(todo[m]) IN
         /\ h \in Scripts /\ Key(h) = Key(m) /\ act[h] = act[m] /\ Untreated(h)
         /\ pc[h] \in MasterPcs \cup {"done"}
         /\ blk[h] \notin hasty =>
              \A u \in Scripts : Untreated(u) /\ blk[u] = blk[h] => u = h
<1>1. todo[m] \in Seq(Scripts) /\ Ahead(todo[m], Key(m))
  BY DEF TypeOK, AheadInv, AheadOf
<1>2. 1 \in DOMAIN todo[m] /\ Head(todo[m]) = todo[m][1] /\ todo[m][1] \in Scripts
  BY <1>1, LinesShape
<1>3. /\ Key(todo[m][1]) = Key(m) /\ todo[m][1] \notin treated
      /\ pc[todo[m][1]] \in MasterPcs \cup {"done"}
  BY <1>1, <1>2 DEF Ahead
<1>4. act[todo[m][1]] = act[m] /\ Untreated(todo[m][1])
  BY <1>3, PlacesAre DEF Key, Untreated
<1>5. blk[todo[m][1]] \in Blocks
  BY <1>2 DEF TypeOK
<1>6. QED
  BY <1>2, <1>3, <1>4, <1>5 DEF SpacedInv

\* Every step leaves in front of a master the untreated lines of its queue.
LEMMA NextAheadInv == IInv /\ [Next]_vars => AheadInv'
<1> SUFFICES ASSUME IInv, [Next]_vars PROVE AheadInv'
  OBVIOUS
<1> /\ TypeOK /\ LineInv /\ LockInv /\ OneMaster /\ QueueHasMaster /\ AheadInv
    /\ SpacedInv
  BY DEF IInv
<1> DEFINE MD == MasterPcs \cup {"done"}
<1>0. \A t \in Scripts : /\ Key(t) \in Queues
                         /\ todo[t] \in Seq(Scripts) /\ file[Key(t)] \in Seq(Scripts)
  BY KeyInQueues DEF TypeOK
<1> USE PlacesAre
\* The lines that a step leaves in a file or a loop.
<1> DEFINE KeyN(u) == <<DevRoot[blk'[u]], act'[u]>>
           AheadN(q, k) ==
             /\ \A i \in DOMAIN q :
                  KeyN(q[i]) = k /\ q[i] \notin treated' /\ pc'[q[i]] \in MD
             /\ \A i, j \in DOMAIN q : q[i] = q[j] => i = j
           Kept == \A u \in Scripts : pc[u] \in MD =>
                     pc'[u] \in MD /\ blk'[u] = blk[u] /\ act'[u] = act[u]
\* The lines that a step leaves in a file or a loop.
<1>1. ASSUME NEW q \in Seq(Scripts), NEW m \in Scripts, Ahead(q, Key(m)), Kept,
             KeyN(m) = Key(m), \A i \in DOMAIN q : q[i] \notin treated'
      PROVE  AheadN(q, Key(m))
  <2>1. \A i \in DOMAIN q : q[i] \in Scripts
    OBVIOUS
  <2>2. QED
    BY <1>1, <2>1 DEF Ahead, Key
<1>1a. \A m \in Scripts : /\ AheadN(todo'[m], KeyN(m)) => Ahead(todo[m], Key(m))'
                          /\ AheadN(file'[KeyN(m)], KeyN(m)) => Ahead(file[Key(m)], Key(m))'
  BY DEF Ahead, Key
<1> HIDE DEF AheadN
\* A master whose lines the step of another script leaves alone.
<1>2. ASSUME NEW t \in Scripts, NEW m \in Scripts \ {t}, Kept, pc'[m] = pc[m],
             todo'[m] = todo[m],
             pc[m] = "sleep" => file'[Key(m)] = file[Key(m)],
             \/ treated' = treated
             \/ /\ pc[t] \in {"work", "mount"} /\ todo[t] # <<>>
                /\ treated' = treated \cup {Head(todo[t])},
             pc[m] = "mount" => blk[Head(todo[m])] \in dirs' \cup hasty'
      PROVE  AheadOf(m)'
  <2>1. ASSUME NEW q \in Seq(Scripts), Ahead(q, Key(m)), pc[m] \in MasterPcs
        PROVE  \A i \in DOMAIN q : q[i] \notin treated'
    <3>1. CASE treated' = treated
      BY <2>1, <3>1 DEF Ahead
    <3>2. CASE /\ pc[t] \in {"work", "mount"} /\ todo[t] # <<>>
               /\ treated' = treated \cup {Head(todo[t])}
      <4>1. Key(m) # Key(t)
        BY <2>1, <3>2 DEF OneMaster, MasterPcs
      <4>2. Key(Head(todo[t])) = Key(t)
        BY <3>2, LineInHand
      <4>3. QED
        BY <2>1, <3>2, <4>1, <4>2 DEF Ahead
    <3>3. QED
      BY <1>2, <3>1, <3>2
  <2>2. pc[m] \in MD => KeyN(m) = Key(m)
    BY <1>2 DEF Key
  <2>3. pc'[m] = "sleep" => Ahead(file[Key(m)], Key(m))'
    <3>1. pc[m] = "sleep" => Ahead(file[Key(m)], Key(m))
      BY DEF AheadInv, AheadOf
    <3>2. QED
      BY <1>0, <1>1, <1>1a, <1>2, <2>1, <2>2, <3>1 DEF MasterPcs
  <2>4. pc'[m] \in {"work", "mount"} => Ahead(todo[m], Key(m))'
    <3>1. pc[m] \in {"work", "mount"} => Ahead(todo[m], Key(m))
      BY DEF AheadInv, AheadOf
    <3>2. QED
      BY <1>0, <1>1, <1>1a, <1>2, <2>1, <2>2, <3>1 DEF MasterPcs
  <2>5. ASSUME pc'[m] = "mount"
        PROVE  act'[m] = "add" /\ blk'[Head(todo'[m])] \in dirs' \cup hasty'
    <3>1. pc[m] = "mount" /\ todo[m] # <<>> /\ act[m] = "add"
      BY <1>2, <2>5 DEF LineInv, AheadInv, AheadOf
    <3>2. Head(todo[m]) \in Scripts /\ pc[Head(todo[m])] \in MD
      BY <3>1, LineInHand
    <3>3. QED
      BY <1>2, <3>1, <3>2
  <2>6. m \in treated' => pc'[m] \in MD
    <3>1. /\ pc[t] \in {"work", "mount"} /\ todo[t] # <<>> => pc[Head(todo[t])] \in MD
          /\ m \in treated => pc[m] \in MD
      BY LineInHand DEF AheadInv, AheadOf
    <3>2. QED
      BY <1>2, <3>1
  <2>7. QED
    BY <2>3, <2>4, <2>5, <2>6 DEF AheadOf
<1>3. ASSUME NEW t \in Scripts, \A m \in Scripts \ {t} : AheadOf(m)', AheadOf(t)'
      PROVE  AheadInv'
  BY <1>3 DEF AheadInv
<1>4. ASSUME NEW t \in Scripts, pc'[t] \notin {"sleep", "work", "mount"},
             pc[t] \in MD => pc'[t] \in MD, UNCHANGED treated
      PROVE  AheadOf(t)'
  BY <1>4 DEF AheadInv, AheadOf
<1> HIDE DEF Kept
<1>5. ASSUME NEW s \in Scripts, NEW b \in Blocks, Plug(s, b) \/ Unplug(s, b)
      PROVE  AheadInv'
  <2>1. /\ pc[s] = "idle" /\ pc'[s] = "start"
        /\ \A u \in Scripts \ {s} : pc'[u] = pc[u] /\ blk'[u] = blk[u] /\ act'[u] = act[u]
        /\ UNCHANGED <<treated, todo, dirs, file>> /\ hasty \subseteq hasty'
    BY <1>5 DEF Plug, Unplug, Event, TypeOK
  <2>2. Kept
    BY <2>1 DEF Kept
  <2>3. \A m \in Scripts : pc[m] = "mount" => blk[Head(todo[m])] \in dirs' \cup hasty'
    BY <2>1 DEF AheadInv, AheadOf
  <2>4. QED
    BY <1>2, <1>3, <1>4, <2>1, <2>2, <2>3
<1>6. ASSUME NEW s \in Scripts, Lock(s) \/ EndLoop(s) \/ RestartServices(s)
      PROVE  AheadInv'
  <2>1. /\ \A u \in Scripts \ {s} : pc'[u] = pc[u]
        /\ pc[s] \in MD => pc'[s] \in MD
        /\ pc'[s] \notin {"sleep", "work", "mount"}
        /\ UNCHANGED <<blk, act, treated, todo, dirs, file, hasty>>
    BY <1>6 DEF Lock, EndLoop, RestartServices, RestartService, TypeOK, scriptVars
  <2>2. Kept
    BY <2>1 DEF Kept
  <2>3. \A m \in Scripts : pc[m] = "mount" => blk[Head(todo[m])] \in dirs' \cup hasty'
    BY <2>1 DEF AheadInv, AheadOf
  <2>4. QED
    BY <1>2, <1>3, <1>4, <2>1, <2>2, <2>3
<1>7. ASSUME NEW s \in Scripts, Finish(s) PROVE AheadInv'
  <2>1. /\ \A u \in Scripts \ {s} : pc'[u] = pc[u]
        /\ pc[s] = "rm" /\ pc'[s] = "done"
        /\ UNCHANGED <<blk, act, treated, todo, dirs, hasty>>
        /\ \A q \in Queues \ {Key(s)} : file'[q] = file[q]
    BY <1>0, <1>7 DEF Finish, TypeOK, scriptVars
  <2>2. \A m \in Scripts \ {s} : pc[m] = "sleep" => Key(m) # Key(s)
    BY <2>1 DEF OneMaster, MasterPcs
  <2>3. Kept
    BY <2>1 DEF Kept
  <2>4. \A m \in Scripts : pc[m] = "mount" => blk[Head(todo[m])] \in dirs' \cup hasty'
    BY <2>1 DEF AheadInv, AheadOf
  <2>5. QED
    BY <1>0, <1>2, <1>3, <1>4, <2>1, <2>2, <2>3, <2>4
\* The queue gets a line, of a script that was not in it.
<1>8. ASSUME NEW s \in Scripts, Push(s) PROVE AheadInv'
  <2>1. /\ \A u \in Scripts \ {s} : pc'[u] = pc[u]
        /\ pc[s] = "push" /\ pc'[s] = IF file[Key(s)] = <<>> THEN "sleep" ELSE "done"
        /\ UNCHANGED <<blk, act, treated, todo, dirs, hasty>>
        /\ file'[Key(s)] = Append(file[Key(s)], s)
        /\ \A q \in Queues \ {Key(s)} : file'[q] = file[q]
    BY <1>0, <1>8 DEF Push, TypeOK, scriptVars
  <2>2. Kept /\ \A u \in Scripts : KeyN(u) = Key(u)
    BY <2>1 DEF Kept, Key
  <2>3. \A m \in Scripts : pc[m] = "mount" => blk[Head(todo[m])] \in dirs' \cup hasty'
    BY <2>1 DEF AheadInv, AheadOf
  <2>4. s \notin treated
    BY <2>1 DEF AheadInv, AheadOf
  <2>5. ASSUME Ahead(file[Key(s)], Key(s)), NEW m \in Scripts, Key(m) = Key(s)
        PROVE  Ahead(file[Key(m)], Key(m))'
    <3> DEFINE q == file[Key(s)]
               r == Append(q, s)
    <3>1. /\ q \in Seq(Scripts) /\ Ahead(q, Key(s))
          /\ \A i \in DOMAIN q : q[i] \notin treated'
      BY <1>0, <2>1, <2>5 DEF Ahead
    <3>2. \A i \in DOMAIN q : q[i] # s
      BY <2>1, <3>1 DEF Ahead
    <3> HIDE DEF q
    <3>3. AheadN(q, Key(s))
      BY <1>1, <2>2, <3>1
    <3>4. /\ DOMAIN q = 1 .. Len(q) /\ Len(q) \in Nat
          /\ DOMAIN r = 1 .. Len(q) + 1 /\ r[Len(q) + 1] = s
          /\ \A i \in 1 .. Len(q) : r[i] = q[i]
      BY <3>1, LinesShape
    <3> HIDE DEF r
    <3>5. \A i \in DOMAIN r : i \in DOMAIN q \/ i = Len(q) + 1
      BY <3>4
    <3>6. \A i \in DOMAIN r :
            KeyN(r[i]) = Key(s) /\ r[i] \notin treated' /\ pc'[r[i]] \in MD
      BY <2>1, <2>2, <2>4, <3>3, <3>4, <3>5 DEF AheadN
    <3>7. \A i, j \in DOMAIN r : r[i] = r[j] => i = j
      BY <3>2, <3>3, <3>4, <3>5 DEF AheadN
    <3>8. file'[KeyN(m)] = r /\ KeyN(m) = Key(s)
      BY <2>1, <2>2, <2>5 DEF q, r
    <3>9. QED
      BY <1>1a, <3>6, <3>7, <3>8 DEF AheadN
  <2>6. ASSUME NEW m \in Scripts, pc'[m] = "sleep", Key(m) = Key(s)
        PROVE  Ahead(file[Key(m)], Key(m))'
    <3>1. CASE file[Key(s)] = <<>>
      <4>1. Ahead(file[Key(s)], Key(s))
        BY <3>1 DEF Ahead
      <4>2. QED
        BY <2>5, <2>6, <4>1
    <3>2. CASE file[Key(s)] # <<>>
      <4>1. pc[m] = "sleep"
        BY <2>1, <2>6, <3>2
      <4>2. Ahead(file[Key(s)], Key(s))
        BY <2>6, <4>1 DEF AheadInv, AheadOf
      <4>3. QED
        BY <2>5, <2>6, <4>2
    <3>3. QED
      BY <3>1, <3>2
  <2>7. AheadOf(s)'
    BY <2>1, <2>4, <2>6 DEF AheadOf
  <2>8. ASSUME NEW m \in Scripts \ {s} PROVE AheadOf(m)'
    <3>1. CASE pc[m] = "sleep" /\ Key(m) = Key(s)
      BY <2>1, <2>6, <3>1 DEF AheadOf
    <3>2. CASE ~(pc[m] = "sleep" /\ Key(m) = Key(s))
      BY <1>0, <1>2, <2>1, <2>2, <2>3, <3>2
    <3>3. QED
      BY <3>1, <3>2
  <2>9. QED
    BY <1>3, <2>7, <2>8
<1>9. ASSUME NEW s \in Scripts, Wake(s) PROVE AheadInv'
  <2>1. /\ \A u \in Scripts \ {s} : pc'[u] = pc[u] /\ todo'[u] = todo[u]
        /\ pc[s] = "sleep" /\ pc'[s] = "work" /\ todo'[s] = file[Key(s)]
        /\ UNCHANGED <<blk, act, treated, file, dirs, hasty>>
    BY <1>9 DEF Wake, TypeOK, scriptVars
  <2>2. Kept /\ KeyN(s) = Key(s)
    BY <2>1 DEF Kept, Key
  <2>3. \A m \in Scripts : pc[m] = "mount" => blk[Head(todo[m])] \in dirs' \cup hasty'
    BY <2>1 DEF AheadInv, AheadOf
  <2>4. Ahead(file[Key(s)], Key(s))
    BY <2>1 DEF AheadInv, AheadOf
  <2>5. \A i \in DOMAIN file[Key(s)] : file[Key(s)][i] \notin treated'
    BY <2>1, <2>4 DEF Ahead
  <2>6. Ahead(todo[s], Key(s))'
    BY <1>0, <1>1, <1>1a, <2>1, <2>2, <2>4, <2>5
  <2>7. AheadOf(s)'
    BY <2>1, <2>6 DEF AheadOf
  <2>8. QED
    BY <1>2, <1>3, <2>1, <2>2, <2>3, <2>7
<1>10. ASSUME NEW s \in Scripts, MkMountPoint(s) PROVE AheadInv'
  <2>1. /\ \A u \in Scripts \ {s} : pc'[u] = pc[u]
        /\ pc[s] = "work" /\ pc'[s] = "mount" /\ act[s] = "add"
        /\ dirs' = dirs \cup {blk[Head(todo[s])]}
        /\ UNCHANGED <<blk, act, treated, file, todo, hasty>>
    BY <1>10 DEF MkMountPoint, TypeOK, scriptVars
  <2>2. Kept /\ KeyN(s) = Key(s)
    BY <2>1 DEF Kept, Key
  <2>3. \A m \in Scripts : pc[m] = "mount" => blk[Head(todo[m])] \in dirs' \cup hasty'
    BY <2>1 DEF AheadInv, AheadOf
  <2>4. Ahead(todo[s], Key(s))
    BY <2>1 DEF AheadInv, AheadOf
  <2>5. \A i \in DOMAIN todo[s] : todo[s][i] \notin treated'
    BY <2>1, <2>4 DEF Ahead
  <2>6. Ahead(todo[s], Key(s))'
    BY <1>0, <1>1, <1>1a, <2>1, <2>2, <2>4, <2>5
  <2>7. AheadOf(s)'
    BY <2>1, <2>6 DEF AheadOf
  <2>8. QED
    BY <1>2, <1>3, <2>1, <2>2, <2>3, <2>7
\* The first line is treated, and comes no second time.
<1>11. ASSUME NEW s \in Scripts, Mount(s) \/ Umount(s) PROVE AheadInv'
  <2> DEFINE h == Head(todo[s])
             r == Tail(todo[s])
  <2>1. /\ \A u \in Scripts \ {s} : pc'[u] = pc[u] /\ todo'[u] = todo[u]
        /\ pc[s] \in {"work", "mount"} /\ pc'[s] = "work" /\ todo[s] # <<>>
        /\ todo'[s] = r /\ treated' = treated \cup {h}
        /\ UNCHANGED <<blk, act, file, hasty>>
        /\ dirs \ {blk[h]} \subseteq dirs'
    BY <1>11 DEF Mount, Umount, Rmdir, LineInv, TypeOK, scriptVars
  <2>2. Kept /\ KeyN(s) = Key(s)
    BY <2>1 DEF Kept, Key
  <2>3. ASSUME NEW m \in Scripts \ {s}, pc[m] = "mount"
        PROVE  blk[Head(todo[m])] \in dirs' \cup hasty'
    <3>1. blk[Head(todo[m])] \in dirs \cup hasty /\ todo[m] # <<>>
      BY <2>3 DEF AheadInv, AheadOf, LineInv
    <3>2. Key(m) # Key(s)
      BY <2>1, <2>3 DEF OneMaster, MasterPcs
    <3>3. Key(Head(todo[m])) = Key(m) /\ Head(todo[m]) \in Scripts
          /\ Untreated(Head(todo[m]))
      BY <2>3, <3>1, LineInHand
    <3>4. /\ Key(h) = Key(s)
          /\ blk[h] \notin hasty =>
               \A u \in Scripts : Untreated(u) /\ blk[u] = blk[h] => u = h
      BY <2>1, LineInHand
    <3>5. blk[Head(todo[m])] # blk[h] \/ blk[Head(todo[m])] \in hasty
      BY <3>2, <3>3, <3>4
    <3>6. QED
      BY <2>1, <3>1, <3>5
  <2>4. Ahead(r, Key(s)) /\ r \in Seq(Scripts) /\ \A i \in DOMAIN r : r[i] \notin treated'
    <3> DEFINE q == todo[s]
    <3>1. Ahead(q, Key(s)) /\ q \in Seq(Scripts) /\ q # <<>>
      BY <1>0, <2>1 DEF AheadInv, AheadOf
    <3> HIDE DEF q
    <3>2. /\ 1 \in DOMAIN q /\ Head(q) = q[1] /\ q[1] \in Scripts
          /\ \A i \in DOMAIN Tail(q) :
               i \in Nat /\ i + 1 \in DOMAIN q /\ Tail(q)[i] = q[i + 1]
      BY <3>1, LinesShape
    <3>3. Tail(q) \in Seq(Scripts) /\ \A i \in DOMAIN Tail(q) : i # 0
      BY <3>1
    <3>4. \A i \in DOMAIN Tail(q) : Tail(q)[i] # Head(q)
      BY <3>1, <3>2, <3>3 DEF Ahead
    <3>5. Ahead(Tail(q), Key(s))
      BY <3>1, <3>2 DEF Ahead
    <3>6. \A i \in DOMAIN Tail(q) : Tail(q)[i] \notin treated \cup {Head(q)}
      BY <3>4, <3>5 DEF Ahead
    <3>7. QED
      BY <2>1, <3>3, <3>5, <3>6 DEF q
  <2> HIDE DEF r
  <2>5. Ahead(todo[s], Key(s))'
    BY <1>1, <1>1a, <2>1, <2>2, <2>4
  <2>6. AheadOf(s)'
    BY <2>1, <2>5 DEF AheadOf
  <2>7. QED
    BY <1>2, <1>3, <2>1, <2>2, <2>3, <2>6
<1>12. CASE BootServices \/ ServicesUp \/ UNCHANGED vars
  <2>1. UNCHANGED <<pc, act, blk, file, todo, treated, dirs, hasty>>
    BY <1>12 DEF BootServices, ServicesUp, vars, scriptVars
  <2>2. \A m \in Scripts : AheadOf(m)' <=> AheadOf(m)
    BY <2>1 DEF AheadOf, Ahead, Key
  <2>3. QED
    BY <2>2 DEF AheadInv
<1>13. QED
  BY <1>5, <1>6, <1>7, <1>8, <1>9, <1>10, <1>11, <1>12 DEF Next, Step

\* Every step keeps a block that is left alone mounted as its events say.
LEMMA NextSpacedInv == IInv /\ [Next]_vars => SpacedInv'
<1> SUFFICES ASSUME IInv, [Next]_vars PROVE SpacedInv'
  OBVIOUS
<1> TypeOK /\ LineInv /\ AheadInv /\ SpacedInv
  BY DEF IInv
<1> USE PlacesAre
\* A step that treats no line.
<1>1. ASSUME UNCHANGED <<present, mounted, hasty, treated, blk, act>>,
             \A u \in Scripts : pc'[u] = "idle" <=> pc[u] = "idle"
      PROVE  SpacedInv'
  <2>1. \A u \in Scripts : Untreated(u)' <=> Untreated(u)
    BY <1>1 DEF Untreated
  <2>2. QED
    BY <1>1, <2>1 DEF SpacedInv, Busy
\* A block the step is not about.
<1>2. ASSUME NEW c \in Blocks, NEW b \in (Blocks \ hasty) \ {c},
             b \in present' <=> b \in present, b \in mounted' <=> b \in mounted,
             \A u \in Scripts : blk'[u] = b /\ Untreated(u)' <=> blk[u] = b /\ Untreated(u),
             \A u \in Scripts : blk[u] = b /\ Untreated(u) => act'[u] = act[u]
      PROVE  /\ ~Busy(b)' => (b \in mounted' <=> b \in present' \cap Mountable)
             /\ \A s \in Scripts : Untreated(s)' /\ blk'[s] = b =>
                  /\ act'[s] = "add" => b \in present' \ mounted'
                  /\ act'[s] = "remove" =>
                       b \notin present' /\ (b \in mounted' <=> b \in Mountable)
                  /\ \A u \in Scripts : Untreated(u)' /\ blk'[u] = b => u = s
  <2>1. Busy(b)' <=> Busy(b)
    BY <1>2 DEF Busy
  <2>2. QED
    BY <1>2, <2>1 DEF SpacedInv
<1>3. ASSUME NEW s \in Scripts, NEW b \in Blocks, Plug(s, b) \/ Unplug(s, b)
      PROVE  SpacedInv'
  <2>1. /\ pc[s] = "idle" /\ pc'[s] = "start" /\ blk'[s] = b
        /\ \A u \in Scripts \ {s} : pc'[u] = pc[u] /\ blk'[u] = blk[u] /\ act'[u] = act[u]
        /\ UNCHANGED <<treated, mounted>>
        /\ hasty' = IF Busy(b) THEN hasty \cup {b} ELSE hasty
    BY <1>3 DEF Plug, Unplug, Event, TypeOK
  <2>2. s \notin treated
    BY <2>1 DEF AheadInv, AheadOf
  <2>3. /\ Untreated(s)' /\ ~Untreated(s)
        /\ \A u \in Scripts \ {s} : Untreated(u)' <=> Untreated(u)
    BY <2>1, <2>2 DEF Untreated
  <2>4. \A c \in Blocks \ {b} : c \in present' <=> c \in present
    BY <1>3 DEF Plug, Unplug
  <2>5. ASSUME NEW c \in Blocks \ hasty', c # b
        PROVE  /\ ~Busy(c)' => (c \in mounted' <=> c \in present' \cap Mountable)
               /\ \A u \in Scripts : Untreated(u)' /\ blk'[u] = c =>
                    /\ act'[u] = "add" => c \in present' \ mounted'
                    /\ act'[u] = "remove" =>
                         c \notin present' /\ (c \in mounted' <=> c \in Mountable)
                    /\ \A v \in Scripts : Untreated(v)' /\ blk'[v] = c => v = u
    BY <1>2, <2>1, <2>3, <2>4, <2>5
  <2>6. ASSUME b \notin hasty'
        PROVE  /\ Busy(b)'
               /\ \A u \in Scripts : Untreated(u)' /\ blk'[u] = b => u = s
               /\ act'[s] = "add" => b \in present' \ mounted'
               /\ act'[s] = "remove" =>
                    b \notin present' /\ (b \in mounted' <=> b \in Mountable)
    <3>1. b \notin hasty /\ ~Busy(b)
      BY <2>1, <2>6
    <3>2. Busy(b)' /\ \A u \in Scripts : Untreated(u)' /\ blk'[u] = b => u = s
      BY <2>1, <2>3, <3>1 DEF Busy
    <3>3. b \in mounted <=> b \in present \cap Mountable
      BY <3>1 DEF SpacedInv
    <3>4. CASE Plug(s, b)
      <4>1. act'[s] = "add" /\ b \in present' \ mounted'
        BY <2>1, <3>4 DEF Plug, Event, TypeOK
      <4>2. QED
        BY <3>2, <4>1
    <3>5. CASE Unplug(s, b)
      <4>1. /\ act'[s] = "remove" /\ b \notin present'
            /\ b \in mounted' <=> b \in Mountable
        BY <2>1, <3>3, <3>5 DEF Unplug, Event, TypeOK
      <4>2. QED
        BY <3>2, <4>1
    <3>6. QED
      BY <1>3, <3>4, <3>5
  <2>7. QED
    BY <2>5, <2>6 DEF SpacedInv
\* The line of block b is treated: b has no other event under way.
<1>4. ASSUME NEW s \in Scripts, Mount(s) \/ Umount(s) PROVE SpacedInv'
  <2> DEFINE h == Head(todo[s])
             b == blk[h]
  <2>1. /\ pc[s] \in {"work", "mount"} /\ todo[s] # <<>>
        /\ treated' = treated \cup {h} /\ UNCHANGED <<present, blk, act, hasty>>
        /\ \A u \in Scripts : pc'[u] = "idle" <=> pc[u] = "idle"
    BY <1>4 DEF Mount, Umount, LineInv, TypeOK, scriptVars
  <2>2. /\ h \in Scripts /\ act[h] = act[s] /\ Untreated(h)
        /\ b \notin hasty => \A u \in Scripts : Untreated(u) /\ blk[u] = b => u = h
    BY <2>1, LineInHand
  <2> b \in Blocks
    BY <2>2 DEF TypeOK
  <2>3. \A u \in Scripts : Untreated(u)' <=> Untreated(u) /\ u # h
    BY <2>1 DEF Untreated
  <2>4. \A c \in Blocks \ {b} : c \in mounted' <=> c \in mounted
    BY <1>4 DEF Mount, Umount
  <2>5. ASSUME b \notin hasty PROVE b \in mounted' <=> b \in present \cap Mountable
    <3>1. CASE Mount(s)
      <4>1. pc[s] = "mount" /\ act[s] = "add" /\ b \in dirs
        BY <2>5, <3>1 DEF Mount, AheadInv, AheadOf
      <4>2. b \in present \ mounted
        BY <2>2, <2>5, <4>1 DEF SpacedInv
      <4>3. QED
        BY <3>1, <4>1, <4>2 DEF Mount, CanMount
    <3>2. CASE Umount(s)
      <4>1. act[h] = "remove"
        BY <2>2, <3>2 DEF Umount
      <4>2. b \notin present
        BY <2>2, <2>5, <4>1 DEF SpacedInv
      <4>3. QED
        BY <3>2, <4>2 DEF Umount
    <3>3. QED
      BY <1>4, <3>1, <3>2
  <2> HIDE DEF b, h
  <2>6. b \notin hasty => \A u \in Scripts : ~(Untreated(u)' /\ blk[u] = b)
    BY <2>2, <2>3
  <2>7. ASSUME NEW c \in Blocks \ hasty', c # b
        PROVE  /\ ~Busy(c)' => (c \in mounted' <=> c \in present' \cap Mountable)
               /\ \A u \in Scripts : Untreated(u)' /\ blk'[u] = c =>
                    /\ act'[u] = "add" => c \in present' \ mounted'
                    /\ act'[u] = "remove" =>
                         c \notin present' /\ (c \in mounted' <=> c \in Mountable)
                    /\ \A v \in Scripts : Untreated(v)' /\ blk'[v] = c => v = u
    <3>1. \A u \in Scripts : blk'[u] = c /\ Untreated(u)' <=> blk[u] = c /\ Untreated(u)
      BY <2>1, <2>3, <2>7 DEF b
    <3>2. QED
      BY <1>2, <2>1, <2>4, <2>7, <3>1
  <2>8. QED
    BY <2>1, <2>5, <2>6, <2>7 DEF SpacedInv
<1>5. ASSUME NEW s \in Scripts,
             \/ Lock(s) \/ Push(s) \/ Wake(s) \/ MkMountPoint(s) \/ EndLoop(s)
             \/ RestartServices(s) \/ Finish(s)
      PROVE  SpacedInv'
  <2>1. UNCHANGED <<present, mounted, hasty, treated, blk, act>>
    BY <1>5 DEF Lock, Push, Wake, MkMountPoint, EndLoop, RestartServices,
                RestartService, Finish, scriptVars
  <2>2. \A u \in Scripts : pc'[u] = "idle" <=> pc[u] = "idle"
    BY <1>5 DEF Lock, Push, Wake, MkMountPoint, EndLoop, RestartServices,
                RestartService, Finish, TypeOK
  <2>3. QED
    BY <1>1, <2>1, <2>2
<1>6. CASE BootServices \/ ServicesUp \/ UNCHANGED vars
  BY <1>1, <1>6 DEF BootServices, ServicesUp, vars, scriptVars
<1>7. QED
  BY <1>3, <1>4, <1>5, <1>6 DEF Next, Step

-----------------------------------------------------------------------------

\* The election and restart protocol of 10-mount keeps its inductive invariant.
THEOREM InductiveInvariant == Spec => []IInv
<1>1. IInv /\ [Next]_vars => IInv'
  BY NextTypeOK, NextLineInv, NextLockInv, NextMaster, NextNoLostLine,
     NextServedInv, NextAheadInv, NextSpacedInv DEF IInv
<1>2. QED
  BY <1>1, InitIInv, PTL DEF Spec

\* A queue of mount or umount requests never has two masters.
THEOREM SingleMaster == Spec => []OneMaster
<1>1. IInv => OneMaster
  BY DEF IInv
<1>2. QED
  BY <1>1, InductiveInvariant, PTL

\* The line of a script is treated, or a master is there to treat it.
THEOREM NoLostEvent == Spec => []NoLostLine
<1>1. IInv => NoLostLine
  BY DEF IInv
<1>2. QED
  BY <1>1, InductiveInvariant, PTL

\* When every script has ended, the services know the mount table.
THEOREM ServicesFollowMounts == Spec => []ServicesCurrent
<1>1. IInv => ServicesCurrent
  BY DEF IInv, ServedInv, ServicesCurrent, Quiet, Pending
<1>2. QED
  BY <1>1, InductiveInvariant, PTL

\* When every script has ended, a partition that was left alone until its last
\* event had been treated is mounted exactly if it is plugged in and mountable.
THEOREM MountsFollowPlugs == Spec => []SpacedMatch
<1>1. IInv => SpacedMatch
  <2> SUFFICES ASSUME IInv, Quiet, NEW b \in Blocks \ hasty
               PROVE  b \in mounted <=> b \in present \cap Mountable
    BY DEF SpacedMatch
  <2>1. ~Busy(b)
    <3> SUFFICES ASSUME NEW s \in Scripts, Untreated(s) PROVE FALSE
      BY DEF Busy
    <3>1. pc[s] = "done"
      BY DEF Untreated, Quiet
    <3>2. \E m \in Scripts : pc[m] \in {"sleep", "work", "mount"}
      BY <3>1 DEF IInv, NoLostLine, Untreated
    <3>3. QED
      BY <3>2 DEF Quiet
  <2>2. QED
    BY <2>1 DEF IInv, SpacedInv
<1>2. QED
  BY <1>1, InductiveInvariant, PTL
=============================================================================
