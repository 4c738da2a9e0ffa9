--------------------------- MODULE NbdLinkProofs ---------------------------
(* Proofs for NbdLink: for any number of threads, calls, connections and   *)
(* crashes of the daemon, the mutex serialises the use of the link, the    *)
(* link is never a closed descriptor, reopening it leaks no socket, and a  *)
(* call reads no answer but its own from a link that is not dirty.         *)
EXTENDS NbdLink, SequenceTheorems, TLAPS

USE NoneAssumption

\* The bounds are natural numbers.
LEMMA BoundsNat ==
  /\ MaxCalls \in Nat /\ MaxConn \in Nat /\ MaxCrashes \in Nat
  /\ MaxCount \in Nat
BY BoundsAssumption

\* An answer of the daemon is a sequence of units.
LEMMA AnswerType ==
  ASSUME NEW q \in Queries, NEW n \in Nat
  PROVE  Answer(q, n) \in Seq(Units)
<1>1. \A k \in Kinds, v \in Nat : Unit(q, k, v) \in Units
  BY DEF Unit, Units
<1>2. <<Unit(q, "ret", 0), Unit(q, "count", n)>> \in Seq(Units)
  BY <1>1 DEF Kinds
<1>3. [i \in 1 .. n |-> Unit(q, "data", i)] \in Seq(Units)
  BY <1>1 DEF Kinds
<1>4. QED
  BY <1>2, <1>3 DEF Answer

\* What remains of, or is cut from, a sequence of units is one.
LEMMA CutType ==
  ASSUME NEW s \in Seq(Units), NEW n \in Nat
  PROVE  /\ SubSeq(s, n + 1, Len(s)) \in Seq(Units)
         /\ s # <<>> => Tail(s) \in Seq(Units) /\ Head(s) \in Units
<1>1. \A i \in (n + 1) .. Len(s) : s[i] \in Units
  OBVIOUS
<1>2. SubSeq(s, n + 1, Len(s)) \in Seq(Units)
  BY <1>1
<1>3. s # <<>> => Tail(s) \in Seq(Units) /\ Head(s) \in Units
  OBVIOUS
<1>4. QED
  BY <1>2, <1>3

\* The daemon may die after the first k units of an answer.
LEMMA PrefixType ==
  ASSUME NEW s \in Seq(Units), NEW k \in Nat, k <= Len(s)
  PROVE  SubSeq(s, 1, k) \in Seq(Units)
<1>1. \A i \in 1 .. k : s[i] \in Units
  OBVIOUS
<1>2. QED
  BY <1>1

\* The initial state satisfies the inductive invariant.
LEMMA InitIInv == Init => IInv /\ NoLeak
<1> SUFFICES ASSUME Init PROVE IInv /\ NoLeak
  OBVIOUS
<1>1. NoQuery \in Queries
  BY DEF Queries
<1>2. LinkType /\ WireType /\ DaemonType
  BY <1>1, BoundsNat DEF Init, LinkType, WireType, DaemonType
<1>3. CallType /\ HistoryType
  BY BoundsNat DEF Init, CallType, HistoryType, Rets, Pcs
<1>4. MutexInv /\ LinkInv /\ NoLeak
  BY DEF Init, MutexInv, LinkInv, NoLeak, Locked, Sending, Receiving
<1>5. StreamInv
  BY DEF Init, StreamInv, FreshInv, GreetInv, CleanInv
<1>6. QED
  BY <1>2, <1>3, <1>4, <1>5 DEF IInv, TypeOK

\* Take of the first n units keeps the types of the two variables it changes.
LEMMA TakeType ==
  ASSUME TypeOK, NEW t \in Threads, fd # 0, NEW n \in Nat,
         n <= Len(rx[fd]), Take(t, n)
  PROVE  /\ rx' \in [Conns -> Seq(Units)]
         /\ got' \in [Threads -> SUBSET (Conns \X Queries)]
<1>1. fd \in Conns /\ rx[fd] \in Seq(Units)
  BY DEF TypeOK, LinkType, WireType
<1>2. rx' \in [Conns -> Seq(Units)]
  BY <1>1, CutType DEF TypeOK, WireType, Take
<1>3. \A i \in 1 .. n : rx[fd][i] \in Units
  BY <1>1
<1>4. {<<fd, rx[fd][i].q>> : i \in 1 .. n} \subseteq Conns \X Queries
  BY <1>1, <1>3 DEF Units
<1>5. got' \in [Threads -> SUBSET (Conns \X Queries)]
  BY <1>4 DEF TypeOK, HistoryType, Take
<1>6. QED
  BY <1>2, <1>5

\* The start of a call keeps the types of the variables it changes.
LEMMA CallKeepsType ==
  ASSUME TypeOK, NEW t \in Threads, NEW o, Call(t, o)
  PROVE  /\ op' \in [Threads -> {"open", "close", "query", "new"}]
         /\ calls' \in [Threads -> 0 .. MaxCalls]
         /\ ret' \in [Threads -> Rets]
         /\ got' \in [Threads -> SUBSET (Conns \X Queries)]
<1>1. op' \in [Threads -> {"open", "close", "query", "new"}]
  BY OpsAssumption DEF TypeOK, CallType, Call
<1>2. calls' \in [Threads -> 0 .. MaxCalls]
  BY BoundsNat DEF TypeOK, CallType, Call
<1>3. ret' \in [Threads -> Rets]
  BY DEF TypeOK, CallType, Call, Rets
<1>4. got' \in [Threads -> SUBSET (Conns \X Queries)]
  BY DEF TypeOK, HistoryType, Call
<1>5. QED
  BY <1>1, <1>2, <1>3, <1>4

\* The end of __nbd_open keeps the types of the variables it changes.
LEMMA OpenedType ==
  ASSUME TypeOK, NEW t \in Threads, NEW c \in Conns \cup {0}, Opened(t, c)
  PROVE  /\ LinkType'
         /\ lost' \subseteq Conns
         /\ sock' \in [Threads -> Conns \cup {0}]
         /\ tries' \in [Threads -> Nat]
         /\ pc' \in [Threads -> Pcs]
<1>1. LinkType'
  BY DEF TypeOK, LinkType, Opened
<1>2. lost' \subseteq Conns
  BY DEF TypeOK, LinkType, HistoryType, Opened
<1>3. sock' \in [Threads -> Conns \cup {0}]
  BY DEF TypeOK, CallType, Opened
<1>4. tries' \in [Threads -> Nat]
  BY DEF TypeOK, CallType, Opened
<1>5. {"idle", "connect", "relen", "failed"} \subseteq Pcs
  BY DEF Pcs, Locked, Sending
<1>6. pc' \in [Threads -> Pcs]
  <2>1. PICK p \in {"idle", "connect", "relen", "failed"} : Goto(t, p)
    BY DEF Opened
  <2>2. QED
    BY <1>5, <2>1 DEF TypeOK, CallType, Goto
<1>7. QED
  BY <1>1, <1>2, <1>3, <1>4, <1>6

\* A step to another place keeps the type of pc.
LEMMA GotoType ==
  ASSUME CallType, NEW t \in Threads, NEW p \in Pcs, Goto(t, p)
  PROVE  pc' \in [Threads -> Pcs]
BY DEF CallType, Goto

\* The places of a thread.
LEMMA PcsAre ==
  \A p : p \in {"idle", "olock", "qlock", "connect", "ack", "failed", "len",
                "relen", "body", "ret", "count", "data"} => p \in Pcs
BY DEF Pcs, Locked, Sending, Receiving

\* Every step keeps the variables in their types.
LEMMA NextTypeOK == IInv /\ [Next]_vars => TypeOK'
<1> SUFFICES ASSUME IInv, [Next]_vars PROVE TypeOK'
  OBVIOUS
<1> TypeOK /\ LinkInv
  BY DEF IInv
<1> LinkType /\ WireType /\ DaemonType /\ CallType /\ HistoryType
  BY DEF TypeOK
<1> NoQuery \in Queries
  BY DEF Queries
<1> USE PcsAre, GotoType DEF TypeOK, link, wire, daemon, local, history
<1>1. ASSUME NEW t \in Threads, Open(t) PROVE TypeOK'
  <2>1. LinkType' /\ WireType' /\ DaemonType'
    BY <1>1 DEF Open, LinkType, WireType, DaemonType
  <2>2. pc' \in [Threads -> Pcs]
    BY <1>1 DEF Open
  <2>3. CallType' /\ HistoryType'
    BY <1>1, <2>2, CallKeepsType DEF Open, CallType, HistoryType
  <2>4. QED
    BY <2>1, <2>3
<1>2. ASSUME NEW t \in Threads, CloseLink(t) PROVE TypeOK'
  <2>1. LinkType' /\ WireType' /\ DaemonType'
    BY <1>2 DEF CloseLink, Close, LinkType, WireType, DaemonType
  <2>2. CallType' /\ HistoryType'
    BY <1>2, CallKeepsType DEF CloseLink, CallType, HistoryType
  <2>3. QED
    BY <2>1, <2>2
<1>3. ASSUME NEW t \in Threads, NEW o \in {"query", "new"}, Query(t, o)
      PROVE  TypeOK'
  <2>1. LinkType' /\ WireType' /\ DaemonType'
    BY <1>3 DEF Query, LinkType, WireType, DaemonType
  <2>2. CallType' /\ HistoryType'
    BY <1>3, CallKeepsType DEF Query, CallType, HistoryType
  <2>3. QED
    BY <2>1, <2>2
<1>4. ASSUME NEW t \in Threads, OpenLock(t) PROVE TypeOK'
  <2>1. LinkType' /\ WireType' /\ DaemonType' /\ HistoryType'
    BY <1>4 DEF OpenLock, LinkType, WireType, DaemonType, HistoryType
  <2>2. CallType'
    BY <1>4 DEF OpenLock, CallType
  <2>3. QED
    BY <2>1, <2>2
<1>5. ASSUME NEW t \in Threads, Connect(t) PROVE TypeOK'
  <2>1. DaemonType'
    BY <1>5 DEF Connect, DaemonType
  <2>2. CASE made < MaxConn /\ sock' = [sock EXCEPT ![t] = made + 1]
             /\ made' = made + 1 /\ copen' = copen \cup {made + 1}
             /\ sopen' = sopen \cup {made + 1} /\ Goto(t, "ack")
             /\ UNCHANGED <<link, tries, lost>>
    <3>1. made + 1 \in Conns /\ made + 1 \in 0 .. MaxConn
      BY <2>2, BoundsNat DEF WireType, Conns
    <3>2. LinkType' /\ WireType' /\ HistoryType'
      BY <1>5, <2>2, <3>1 DEF Connect, LinkType, WireType, HistoryType
    <3>3. CallType'
      BY <1>5, <2>2, <3>1 DEF Connect, CallType
    <3>4. QED
      BY <2>1, <3>2, <3>3
  <2>3. CASE Opened(t, 0) /\ UNCHANGED <<made, copen, sopen>>
    <3>1. WireType' /\ LinkType' /\ HistoryType'
      BY <1>5, <2>3, OpenedType DEF Connect, WireType, HistoryType
    <3>2. CallType'
      BY <1>5, <2>3, OpenedType DEF Connect, CallType
    <3>3. QED
      BY <2>1, <3>1, <3>2
  <2>4. QED
    BY <1>5, <2>2, <2>3 DEF Connect
<1>6. ASSUME NEW t \in Threads, ReadAck(t) PROVE TypeOK'
  <2>1. sock[t] \in Conns /\ rx[sock[t]] \in Seq(Units)
    BY <1>6 DEF ReadAck, LinkInv, WireType
  <2>2. rx' \in [Conns -> Seq(Units)]
    BY <1>6, <2>1, CutType DEF ReadAck, WireType
  <2>3. WireType' /\ DaemonType'
    BY <1>6, <2>2 DEF ReadAck, Close, WireType, DaemonType
  <2>4. Opened(t, 0) \/ Opened(t, sock[t])
    BY <1>6 DEF ReadAck
  <2>5. LinkType' /\ HistoryType'
    BY <1>6, <2>1, <2>4, OpenedType DEF ReadAck, HistoryType
  <2>6. CallType'
    BY <1>6, <2>1, <2>4, OpenedType DEF ReadAck, CallType
  <2>7. QED
    BY <2>3, <2>5, <2>6
<1>7. ASSUME NEW t \in Threads, QueryLock(t) PROVE TypeOK'
  <2>1. LinkType' /\ WireType' /\ DaemonType' /\ HistoryType'
    BY <1>7 DEF QueryLock, LinkType, WireType, DaemonType, HistoryType
  <2>2. CallType'
    BY <1>7 DEF QueryLock, CallType, LinkType
  <2>3. QED
    BY <2>1, <2>2
<1>8. ASSUME NEW t \in Threads, SendLen(t) PROVE TypeOK'
  <2>1. LinkType' /\ WireType' /\ DaemonType' /\ HistoryType'
    BY <1>8 DEF SendLen, Close, LinkType, WireType, DaemonType, HistoryType
  <2>2. pc' \in [Threads -> Pcs]
    BY <1>8 DEF SendLen
  <2>3. CallType'
    BY <1>8, <2>2 DEF SendLen, CallType
  <2>4. QED
    BY <2>1, <2>3
<1>9. ASSUME NEW t \in Threads, ResendLen(t) PROVE TypeOK'
  <2>1. LinkType' /\ WireType' /\ DaemonType' /\ HistoryType'
    BY <1>9 DEF ResendLen, LinkType, WireType, DaemonType, HistoryType
  <2>2. pc' \in [Threads -> Pcs]
    BY <1>9 DEF ResendLen
  <2>3. CallType'
    BY <1>9, <2>2 DEF ResendLen, CallType
  <2>4. QED
    BY <2>1, <2>3
<1>10. ASSUME NEW t \in Threads, SendBody(t) PROVE TypeOK'
  <2>1. Qid(t) \in Queries
    BY DEF Qid, Queries, CallType
  <2>2. LinkType' /\ WireType' /\ DaemonType' /\ HistoryType'
    BY <1>10, <2>1 DEF SendBody, LinkType, WireType, DaemonType, HistoryType
  <2>3. pc' \in [Threads -> Pcs]
    BY <1>10 DEF SendBody
  <2>4. CallType'
    BY <1>10, <2>3 DEF SendBody, CallType, Rets
  <2>5. QED
    BY <2>2, <2>4
<1>11. ASSUME NEW t \in Threads, SendFailed(t) PROVE TypeOK'
  <2>1. LinkType' /\ WireType' /\ DaemonType' /\ HistoryType'
    BY <1>11 DEF SendFailed, Close, LinkType, WireType, DaemonType, HistoryType
  <2>2. CallType'
    BY <1>11 DEF SendFailed, CallType, Rets
  <2>3. QED
    BY <2>1, <2>2
<1>12. ASSUME NEW t \in Threads, NEW r \in Rets, Return(t, r)
       PROVE  /\ mutex' \in Threads \cup {None}
              /\ ret' \in [Threads -> Rets]
              /\ pc' \in [Threads -> Pcs]
  BY <1>12 DEF Return, CallType
<1>13. ASSUME NEW t \in Threads, ReadError(t)
       PROVE  \E r \in Rets : Return(t, r)
  BY <1>13 DEF ReadError, CallType, Rets
<1>14. ASSUME NEW t \in Threads, RecvRet(t) PROVE TypeOK'
  <2>1. fd \in Conns /\ rx[fd] \in Seq(Units)
    BY <1>14 DEF RecvRet, LinkInv, Receiving, LinkType, WireType
  <2>2. /\ rx' \in [Conns -> Seq(Units)]
        /\ got' \in [Threads -> SUBSET (Conns \X Queries)]
    <3>1. CASE rx[fd] # <<>> /\ Take(t, 1)
      <4>1. 1 <= Len(rx[fd]) /\ fd # 0
        BY <2>1, <3>1, BoundsNat DEF Conns
      <4>2. QED
        BY <3>1, <4>1, TakeType
    <3>2. QED
      BY <1>14, <3>1 DEF RecvRet, WireType, HistoryType
  <2>3. WireType' /\ DaemonType' /\ HistoryType'
    BY <1>14, <2>2 DEF RecvRet, WireType, DaemonType, HistoryType
  <2>4. /\ mutex' \in Threads \cup {None}
        /\ ret' \in [Threads -> Rets]
        /\ pc' \in [Threads -> Pcs]
    BY <1>14, <1>12, <1>13 DEF RecvRet, CallType, LinkType, Rets
  <2>5. LinkType' /\ CallType'
    BY <1>14, <2>4 DEF RecvRet, LinkType, CallType
  <2>6. QED
    BY <2>3, <2>5
<1>15. ASSUME NEW t \in Threads, RecvCount(t) PROVE TypeOK'
  <2>1. fd \in Conns /\ rx[fd] \in Seq(Units)
    BY <1>15 DEF RecvCount, LinkInv, Receiving, LinkType, WireType
  <2>2. /\ rx' \in [Conns -> Seq(Units)]
        /\ got' \in [Threads -> SUBSET (Conns \X Queries)]
    <3>1. CASE rx[fd] # <<>> /\ Take(t, 1)
      <4>1. 1 <= Len(rx[fd]) /\ fd # 0
        BY <2>1, <3>1, BoundsNat DEF Conns
      <4>2. QED
        BY <3>1, <4>1, TakeType
    <3>2. QED
      BY <1>15, <3>1 DEF RecvCount, WireType, HistoryType
  <2>3. WireType' /\ DaemonType' /\ HistoryType'
    BY <1>15, <2>2 DEF RecvCount, WireType, DaemonType, HistoryType
  <2>4. /\ mutex' \in Threads \cup {None}
        /\ ret' \in [Threads -> Rets]
        /\ pc' \in [Threads -> Pcs]
    BY <1>15, <1>12, <1>13 DEF RecvCount, CallType, LinkType
  <2>5. count' \in [Threads -> Nat]
    <3>1. \/ UNCHANGED count
          \/ \E n \in 0 .. MaxCount : count' = [count EXCEPT ![t] = n]
      BY <1>15 DEF RecvCount
    <3>2. QED
      BY <3>1, BoundsNat DEF CallType
  <2>6. LinkType' /\ CallType'
    BY <1>15, <2>4, <2>5 DEF RecvCount, LinkType, CallType
  <2>7. QED
    BY <2>3, <2>6
<1>16. ASSUME NEW t \in Threads, pc[t] = "data", ReadData(t) \/ LeaveData
       PROVE  /\ rx' \in [Conns -> Seq(Units)]
              /\ got' \in [Threads -> SUBSET (Conns \X Queries)]
  <2>1. /\ fd \in Conns /\ fd # 0
        /\ rx[fd] \in Seq(Units) /\ Len(rx[fd]) \in Nat
        /\ count[t] \in Nat
    BY <1>16 DEF LinkInv, Receiving, LinkType, WireType, CallType
  <2>2. CASE ReadData(t)
    <3>1. CASE Len(rx[fd]) >= count[t] /\ Take(t, count[t])
      BY <2>1, <3>1, TakeType
    <3>2. CASE Take(t, Len(rx[fd]))
      BY <2>1, <3>2, TakeType
    <3>3. QED
      BY <2>2, <3>1, <3>2 DEF ReadData
  <2>3. CASE LeaveData
    BY <2>3 DEF LeaveData, WireType, HistoryType
  <2>4. QED
    BY <1>16, <2>2, <2>3
<1>17. ASSUME NEW t \in Threads, RecvData(t) PROVE TypeOK'
  <2>1. /\ rx' \in [Conns -> Seq(Units)]
        /\ got' \in [Threads -> SUBSET (Conns \X Queries)]
    BY <1>16, <1>17 DEF RecvData
  <2>2. dirty' \subseteq Conns
    BY <1>17 DEF RecvData, LeaveData, LinkInv, Receiving, LinkType, HistoryType
  <2>3. WireType' /\ DaemonType' /\ HistoryType'
    BY <1>17, <2>1, <2>2 DEF RecvData, WireType, DaemonType, HistoryType
  <2>4. \E r \in Rets : Return(t, r)
    BY <1>17 DEF RecvData, CallType, Rets
  <2>5. LinkType' /\ CallType'
    BY <1>17, <1>12, <2>4 DEF RecvData, LinkType, CallType
  <2>6. QED
    BY <2>3, <2>5
<1>18. ASSUME NEW t \in Threads, RecvDataNew(t) PROVE TypeOK'
  <2>1. /\ rx' \in [Conns -> Seq(Units)]
        /\ got' \in [Threads -> SUBSET (Conns \X Queries)]
    BY <1>16, <1>18 DEF RecvDataNew
  <2>2. dirty' \subseteq Conns
    BY <1>18
    DEF RecvDataNew, LeaveData, LinkInv, Receiving, LinkType, HistoryType
  <2>3. WireType' /\ DaemonType' /\ HistoryType'
    BY <1>18, <2>1, <2>2 DEF RecvDataNew, WireType, DaemonType, HistoryType
  <2>4. \E r \in Rets : Return(t, r)
    BY <1>18 DEF RecvDataNew, CallType
  <2>5. LinkType' /\ CallType'
    BY <1>18, <1>12, <2>4 DEF RecvDataNew, LinkType, CallType
  <2>6. QED
    BY <2>3, <2>5
<1>19. ASSUME NEW c \in Conns, Accept(c) PROVE TypeOK'
  <2>1. PICK k \in {"ack", "nak"} :
          rx' = [rx EXCEPT ![c] = Append(@, Unit(NoQuery, k, 0))]
    BY <1>19 DEF Accept
  <2>2. Unit(NoQuery, k, 0) \in Units
    BY DEF Unit, Units, Kinds
  <2>3. rx' \in [Conns -> Seq(Units)]
    BY <2>1, <2>2 DEF WireType
  <2>4. LinkType' /\ WireType' /\ DaemonType'
    BY <1>19, <2>3 DEF Accept, LinkType, WireType, DaemonType
  <2>5. CallType' /\ HistoryType'
    BY <1>19 DEF Accept, CallType, HistoryType
  <2>6. QED
    BY <2>4, <2>5
<1>20. ASSUME NEW c \in Conns, Serve(c) PROVE TypeOK'
  <2>1. PICK n \in 0 .. MaxCount :
          rx' = [rx EXCEPT ![c] = @ \o Answer(req[c], n)]
    BY <1>20 DEF Serve
  <2>2. Answer(req[c], n) \in Seq(Units)
    BY AnswerType, BoundsNat DEF WireType
  <2>3. rx' \in [Conns -> Seq(Units)]
    BY <2>1, <2>2 DEF WireType
  <2>4. LinkType' /\ WireType' /\ DaemonType'
    BY <1>20, <2>3 DEF Serve, LinkType, WireType, DaemonType
  <2>5. CallType' /\ HistoryType'
    BY <1>20 DEF Serve, CallType, HistoryType
  <2>6. QED
    BY <2>4, <2>5
<1>21. CASE Crash
  <2>1. ASSUME NEW c \in sopen, NEW n \in 0 .. MaxCount, NEW k \in 1 .. n + 1,
               rx' = [rx EXCEPT ![c] = @ \o SubSeq(Answer(req[c], n), 1, k)]
        PROVE  rx' \in [Conns -> Seq(Units)]
    <3>1. c \in Conns /\ req[c] \in Queries /\ n \in Nat
      BY BoundsNat DEF WireType
    <3>2. Answer(req[c], n) \in Seq(Units)
      BY <3>1, AnswerType
    <3>3. Len(Answer(req[c], n)) = n + 2
      BY <3>1 DEF Answer
    <3>4. SubSeq(Answer(req[c], n), 1, k) \in Seq(Units)
      BY <3>1, <3>2, <3>3, PrefixType
    <3>5. QED
      BY <2>1, <3>1, <3>4 DEF WireType
  <2>2. rx' \in [Conns -> Seq(Units)]
    BY <1>21, <2>1 DEF Crash, WireType
  <2>3. WireType'
    BY <1>21, <2>2 DEF Crash, WireType
  <2>4. DaemonType'
    <3>1. crashes \in Nat /\ crashes' = crashes + 1
      BY <1>21 DEF Crash, DaemonType
    <3>2. crashes' \in Nat
      BY <3>1
    <3>3. up' \in BOOLEAN
      BY <1>21, Zenon DEF Crash
    <3>4. QED
      BY <3>2, <3>3, Zenon DEF DaemonType
  <2>5. LinkType' /\ CallType' /\ HistoryType'
    BY <1>21 DEF Crash, LinkType, CallType, HistoryType
  <2>6. QED
    BY <2>3, <2>4, <2>5
<1>22. CASE Restart
  BY <1>22 DEF Restart, LinkType, WireType, DaemonType, CallType, HistoryType
<1>23. CASE UNCHANGED vars
  BY <1>23 DEF vars, LinkType, WireType, DaemonType, CallType, HistoryType
<1>24. QED
  BY <1>1, <1>2, <1>3, <1>4, <1>5, <1>6, <1>7, <1>8, <1>9, <1>10, <1>11,
     <1>14, <1>15, <1>17, <1>18, <1>19, <1>20, <1>21, <1>22, <1>23
  DEF Next, Step

\* The daemon's steps leave the client alone.
LEMMA DaemonSteps ==
  ASSUME \/ \E c \in Conns : Accept(c) \/ Serve(c)
         \/ Crash \/ Restart \/ UNCHANGED vars
  PROVE  UNCHANGED <<link, copen, pc, op, sock, lost>>
BY DEF Accept, Serve, Crash, Restart, vars, link, wire, local, history

\* Two threads are not between lock and unlock at the same time.
LEMMA OthersWait ==
  ASSUME MutexInv, NEW t \in Threads, pc[t] \in Locked
  PROVE  mutex = t /\ \A u \in Threads \ {t} : pc[u] \notin Locked
BY DEF MutexInv

\* Which places are between lock and unlock.
LEMMA LockedAre ==
  /\ {"connect", "ack", "failed", "len", "relen", "body", "ret", "count",
      "data"} = Locked
  /\ {"idle", "olock", "qlock"} \cap Locked = {}
BY DEF Locked, Sending, Receiving

\* Every step keeps the mutex with the thread between lock and unlock.
LEMMA NextMutexInv == IInv /\ [Next]_vars => MutexInv'
<1> SUFFICES ASSUME IInv, [Next]_vars PROVE MutexInv'
  OBVIOUS
<1> MutexInv /\ pc \in [Threads -> Pcs]
  BY DEF IInv, TypeOK, CallType
<1>1. ASSUME NEW t \in Threads, NEW p, Goto(t, p), mutex' = mutex,
             p \in Locked <=> pc[t] \in Locked
      PROVE  MutexInv'
  BY <1>1 DEF Goto, MutexInv
<1>2. ASSUME NEW t \in Threads, NEW p, Goto(t, p), mutex' = None,
             p \notin Locked, pc[t] \in Locked
      PROVE  MutexInv'
  BY <1>2 DEF Goto, MutexInv
<1>3. ASSUME NEW t \in Threads, NEW p, Goto(t, p), mutex = None, mutex' = t,
             p \in Locked
      PROVE  MutexInv'
  BY <1>3 DEF Goto, MutexInv
<1> USE LockedAre
<1>4. ASSUME NEW t \in Threads, Open(t) PROVE MutexInv'
  BY <1>1, <1>4 DEF Open, Call, link
<1>5. ASSUME NEW t \in Threads, CloseLink(t) PROVE MutexInv'
  BY <1>5 DEF CloseLink, MutexInv
<1>6. ASSUME NEW t \in Threads, NEW o \in {"query", "new"}, Query(t, o)
      PROVE  MutexInv'
  BY <1>1, <1>6 DEF Query, Call, link
<1>7. ASSUME NEW t \in Threads, OpenLock(t) \/ QueryLock(t) PROVE MutexInv'
  BY <1>3, <1>7 DEF OpenLock, QueryLock
<1>8. ASSUME NEW t \in Threads, NEW c, pc[t] \in Locked, Opened(t, c)
      PROVE  MutexInv'
  <2>1. CASE op[t] = "open"
    BY <1>2, <1>8, <2>1 DEF Opened
  <2>2. CASE op[t] # "open"
    <3>1. PICK p \in {"relen", "failed", "connect"} : Goto(t, p)
      BY <1>8, <2>2 DEF Opened
    <3>2. QED
      BY <1>1, <1>8, <2>2, <3>1 DEF Opened
  <2>3. QED
    BY <2>1, <2>2
<1>9. ASSUME NEW t \in Threads, Connect(t) PROVE MutexInv'
  BY <1>1, <1>8, <1>9 DEF Connect, link
<1>10. ASSUME NEW t \in Threads, ReadAck(t) PROVE MutexInv'
  BY <1>8, <1>10 DEF ReadAck
<1>11. ASSUME NEW t \in Threads, SendLen(t) \/ ResendLen(t) \/ SendBody(t)
       PROVE  MutexInv'
  BY <1>1, <1>11 DEF SendLen, ResendLen, SendBody, link
<1>12. ASSUME NEW t \in Threads, SendFailed(t) PROVE MutexInv'
  BY <1>2, <1>12 DEF SendFailed
<1>13. ASSUME NEW t \in Threads, NEW r, pc[t] \in Locked, Return(t, r)
       PROVE  MutexInv'
  BY <1>2, <1>13 DEF Return
<1>14. ASSUME NEW t \in Threads, RecvRet(t) \/ RecvCount(t) PROVE MutexInv'
  BY <1>1, <1>13, <1>14 DEF RecvRet, RecvCount, ReadError
<1>15. ASSUME NEW t \in Threads, RecvData(t) \/ RecvDataNew(t)
       PROVE  MutexInv'
  BY <1>13, <1>15 DEF RecvData, RecvDataNew
<1>16. ASSUME UNCHANGED <<link, copen, pc, op, sock, lost>> PROVE MutexInv'
  BY <1>16 DEF MutexInv, link
<1>17. QED
  BY <1>4, <1>5, <1>6, <1>7, <1>9, <1>10, <1>11, <1>12, <1>14, <1>15, <1>16,
     DaemonSteps DEF Next, Step

\* Every step keeps the link on an open descriptor, and the calls on the link.
LEMMA NextLinkInv == IInv /\ [Next]_vars => LinkInv'
<1> SUFFICES ASSUME IInv, [Next]_vars PROVE LinkInv'
  OBVIOUS
<1> /\ TypeOK /\ MutexInv /\ LinkInv
    /\ LinkType /\ WireType /\ CallType
  BY DEF IInv, TypeOK
<1> USE LockedAre DEF Goto
<1> DEFINE Same(u) == pc'[u] = pc[u] /\ op'[u] = op[u] /\ sock'[u] = sock[u]
           Steady(u) == pc'[u] \notin {"connect", "ack"} \cup Sending
                                       \cup Receiving
\* A step that leaves the link alone, of a thread that does not use it then.
<1>1. ASSUME NEW t \in Threads, Steady(t), UNCHANGED <<fd, copen>>,
             pc'[t] = "olock" => op'[t] = "open",
             \A u \in Threads \ {t} : Same(u)
      PROVE  LinkInv'
  BY <1>1 DEF LinkInv
\* A step of the mutex's holder that changes the link.
<1>2. ASSUME NEW t \in Threads, pc[t] \in Locked \/ mutex = None,
             fd' # 0 => fd' \in copen',
             pc'[t] \in Sending \cup Receiving => sock'[t] = fd',
             pc'[t] \in Receiving => fd' # 0,
             pc'[t] = "ack" => sock'[t] \in copen', pc'[t] # "olock",
             pc'[t] \in {"connect", "ack"} /\ op'[t] # "open" => fd' = 0,
             \A u \in Threads \ {t} : Same(u)
      PROVE  LinkInv'
  <2>1. \A u \in Threads \ {t} : pc[u] \notin Locked
    BY <1>2, OthersWait DEF MutexInv
  <2>2. QED
    BY <1>2, <2>1 DEF LinkInv, Locked
<1> HIDE DEF Same, Steady
<1>3. ASSUME NEW t \in Threads, Open(t) PROVE LinkInv'
  <2>1. /\ Steady(t) /\ op'[t] = "open"
        /\ \A u \in Threads \ {t} : Same(u)
    BY <1>3 DEF Open, Call, Same, Steady, Sending, Receiving, CallType
  <2>2. QED
    BY <1>1, <1>3, <2>1 DEF Open, link, wire
<1>4. ASSUME NEW t \in Threads, NEW o \in {"query", "new"}, Query(t, o)
      PROVE  LinkInv'
  <2>1. /\ Steady(t) /\ pc'[t] # "olock"
        /\ \A u \in Threads \ {t} : Same(u)
    BY <1>4 DEF Query, Call, Same, Steady, Sending, Receiving, CallType
  <2>2. QED
    BY <1>1, <1>4, <2>1 DEF Query, link, wire
<1>5. ASSUME NEW t \in Threads, CloseLink(t) PROVE LinkInv'
  <2>1. \A u \in Threads \ {t} : Same(u)
    BY <1>5 DEF CloseLink, Call, Same, CallType
  <2>2. QED
    BY <1>2, <1>5, <2>1 DEF CloseLink, Call, Sending, Receiving
<1>6. ASSUME NEW t \in Threads, OpenLock(t) PROVE LinkInv'
  <2>1. \A u \in Threads \ {t} : Same(u)
    BY <1>6 DEF OpenLock, Same, local, CallType
  <2>2. pc'[t] = "connect"
    BY <1>6 DEF OpenLock, CallType
  <2>3. QED
    BY <1>2, <1>6, <2>1, <2>2
    DEF OpenLock, local, wire, Sending, Receiving, LinkInv
<1>7. ASSUME NEW t \in Threads, QueryLock(t) PROVE LinkInv'
  <2>1. \A u \in Threads \ {t} : Same(u)
    BY <1>7 DEF QueryLock, Same, CallType
  <2>2. pc'[t] = "len" /\ sock'[t] = fd
    BY <1>7 DEF QueryLock, CallType
  <2>3. QED
    BY <1>2, <1>7, <2>1, <2>2 DEF QueryLock, wire, Receiving, LinkInv
<1>8. ASSUME NEW t \in Threads, NEW c \in copen' \cup {0}, Opened(t, c),
             UNCHANGED op, pc[t] \in Locked
      PROVE  LinkInv'
  <2>1. \A u \in Threads \ {t} : Same(u)
    BY <1>8 DEF Opened, Same, CallType
  <2>2. fd' = c /\ sock'[t] = c
    BY <1>8 DEF Opened, CallType
  <2>3. /\ op[t] = "open" => pc'[t] = "idle"
        /\ op[t] # "open" => \/ pc'[t] = "relen"
                             \/ pc'[t] \in {"failed", "connect"} /\ c = 0
    BY <1>8 DEF Opened, CallType
  <2>4. QED
    BY <1>2, <1>8, <2>1, <2>2, <2>3 DEF Sending, Receiving
<1>9. ASSUME NEW t \in Threads, Connect(t) PROVE LinkInv'
  <2>1. CASE sock' = [sock EXCEPT ![t] = made + 1]
             /\ made' = made + 1 /\ copen' = copen \cup {made + 1}
             /\ Goto(t, "ack") /\ UNCHANGED <<link, tries, lost>>
    <3>1. \A u \in Threads \ {t} : Same(u)
      BY <1>9, <2>1 DEF Connect, Same, CallType
    <3>2. pc'[t] = "ack" /\ sock'[t] = made + 1
      BY <2>1 DEF CallType
    <3>3. QED
      BY <1>2, <1>9, <2>1, <3>1, <3>2
      DEF Connect, link, Sending, Receiving, LinkInv
  <2>2. CASE Opened(t, 0) /\ UNCHANGED <<made, copen, sopen>>
    BY <1>8, <1>9, <2>2 DEF Connect
  <2>3. QED
    BY <1>9, <2>1, <2>2 DEF Connect
<1>10. ASSUME NEW t \in Threads, ReadAck(t) PROVE LinkInv'
  <2>1. \/ Opened(t, 0)
        \/ Opened(t, sock[t]) /\ UNCHANGED copen
    BY <1>10 DEF ReadAck
  <2>2. pc[t] = "ack" /\ UNCHANGED op /\ sock[t] \in copen
    BY <1>10 DEF ReadAck, LinkInv
  <2>3. QED
    BY <1>8, <2>1, <2>2
<1>11. ASSUME NEW t \in Threads, SendLen(t) PROVE LinkInv'
  <2>1. \A u \in Threads \ {t} : Same(u)
    BY <1>11 DEF SendLen, Same, local, CallType
  <2>2. CASE pc'[t] = "failed" /\ UNCHANGED <<fd, copen>>
    BY <1>2, <1>11, <2>1, <2>2 DEF SendLen, Sending, Receiving, LinkInv
  <2>3. CASE pc'[t] = "body" /\ UNCHANGED <<fd, copen>>
    <3>1. sock'[t] = fd
      BY <1>11 DEF SendLen, local, LinkInv, Sending
    <3>2. QED
      BY <1>2, <1>11, <2>1, <2>3, <3>1 DEF SendLen, Receiving, LinkInv
  <2>4. CASE pc'[t] = "connect" /\ fd' = 0
    BY <1>2, <1>11, <2>1, <2>4 DEF SendLen, Sending, Receiving
  <2>5. QED
    BY <1>11, <2>2, <2>3, <2>4 DEF SendLen, CallType
<1>12. ASSUME NEW t \in Threads, ResendLen(t) PROVE LinkInv'
  <2>1. \A u \in Threads \ {t} : Same(u)
    BY <1>12 DEF ResendLen, Same, local, CallType
  <2>2. pc'[t] \in {"body", "failed"} /\ sock'[t] = fd
    BY <1>12 DEF ResendLen, local, CallType, LinkInv, Sending
  <2>3. QED
    BY <1>2, <1>12, <2>1, <2>2
    DEF ResendLen, link, wire, Receiving, LinkInv
<1>13. ASSUME NEW t \in Threads, SendBody(t) PROVE LinkInv'
  <2>1. \A u \in Threads \ {t} : Same(u)
    BY <1>13 DEF SendBody, Same, CallType
  <2>2. sock'[t] = fd /\ UNCHANGED <<fd, copen>>
    BY <1>13 DEF SendBody, link, LinkInv, Sending
  <2>3. \/ pc'[t] = "failed"
        \/ pc'[t] = "ret" /\ fd \in Conns
    BY <1>13 DEF SendBody, CallType, WireType, LinkInv, Sending
  <2>4. pc'[t] = "ret" => fd # 0
    BY <2>3, BoundsNat DEF Conns
  <2>5. QED
    BY <1>2, <1>13, <2>1, <2>2, <2>3, <2>4
    DEF SendBody, Sending, Receiving, LinkInv
<1>14. ASSUME NEW t \in Threads, SendFailed(t) PROVE LinkInv'
  <2>1. \A u \in Threads \ {t} : Same(u)
    BY <1>14 DEF SendFailed, Same, CallType
  <2>2. pc'[t] = "idle" /\ fd' = 0 /\ pc[t] \in Locked
    BY <1>14 DEF SendFailed, CallType
  <2>3. QED
    BY <1>2, <2>1, <2>2 DEF Sending, Receiving
<1>15. ASSUME NEW t \in Threads, pc[t] \in Receiving,
              \A u \in Threads \ {t} : pc'[u] = pc[u],
              pc'[t] \in Receiving \cup {"idle"},
              UNCHANGED <<fd, copen, op, sock>>
       PROVE  LinkInv'
  <2>1. \A u \in Threads \ {t} : Same(u)
    BY <1>15 DEF Same
  <2>2. sock'[t] = fd /\ fd # 0
    BY <1>15 DEF LinkInv
  <2>3. QED
    BY <1>2, <1>15, <2>1, <2>2 DEF Sending, Receiving, LinkInv
<1>16. ASSUME NEW t \in Threads, RecvRet(t) \/ RecvCount(t) PROVE LinkInv'
  BY <1>15, <1>16
  DEF RecvRet, RecvCount, ReadError, Return, CallType, Receiving
<1>17. ASSUME NEW t \in Threads, RecvData(t) \/ RecvDataNew(t)
       PROVE  LinkInv'
  BY <1>15, <1>17 DEF RecvData, RecvDataNew, Return, CallType, Receiving
<1>18. ASSUME UNCHANGED <<link, copen, pc, op, sock, lost>> PROVE LinkInv'
  BY <1>18 DEF LinkInv, link
<1>19. QED
  BY <1>3, <1>4, <1>5, <1>6, <1>7, <1>9, <1>10, <1>11, <1>12, <1>13, <1>14,
     <1>16, <1>17, <1>18, DaemonSteps DEF Next, Step

\* No step leaves a connection open that is neither the link, nor being opened,
\* nor overwritten by the nbd_open of another thread.
LEMMA NextNoLeak == IInv /\ NoLeak /\ [Next]_vars => NoLeak'
<1> SUFFICES ASSUME IInv, NoLeak, [Next]_vars PROVE NoLeak'
  OBVIOUS
<1> /\ TypeOK /\ MutexInv /\ LinkInv
    /\ LinkType /\ WireType /\ CallType /\ HistoryType
  BY DEF IInv, TypeOK
<1> USE LockedAre DEF Goto
\* A step that moves no thread to or from "ack".
<1>1. ASSUME UNCHANGED <<fd, lost, sock>>, copen' \subseteq copen,
             \A u \in Threads : pc[u] = "ack" => pc'[u] = "ack"
      PROVE  NoLeak'
  BY <1>1 DEF NoLeak
\* A step of the only thread that may be at "ack".
<1>2. ASSUME NEW t \in Threads, pc[t] \in Locked \/ mutex = None, pc[t] # "ack"
      PROVE  \A c \in copen \ lost : c = fd
  BY <1>2, OthersWait DEF NoLeak, MutexInv
<1>3. ASSUME NEW t \in Threads, Open(t) PROVE NoLeak'
  BY <1>1, <1>3 DEF Open, Call, link, wire, history, CallType
<1>4. ASSUME NEW t \in Threads, NEW o \in {"query", "new"}, Query(t, o)
      PROVE  NoLeak'
  BY <1>1, <1>4 DEF Query, Call, link, wire, history, CallType
<1>5. ASSUME NEW t \in Threads, CloseLink(t) PROVE NoLeak'
  BY <1>2, <1>5 DEF CloseLink, Call, Close, history, NoLeak
<1>6. ASSUME NEW t \in Threads, OpenLock(t) PROVE NoLeak'
  BY <1>1, <1>6 DEF OpenLock, wire, local, history, CallType
<1>7. ASSUME NEW t \in Threads, QueryLock(t) PROVE NoLeak'
  BY <1>2, <1>7 DEF QueryLock, wire, history, NoLeak
<1>8. ASSUME NEW t \in Threads, Connect(t) PROVE NoLeak'
  <2>1. \A c \in copen \ lost : c = fd
    BY <1>2, <1>8 DEF Connect
  <2>2. CASE sock' = [sock EXCEPT ![t] = made + 1]
             /\ copen' = copen \cup {made + 1}
             /\ Goto(t, "ack") /\ UNCHANGED <<link, tries, lost>>
    <3>1. pc'[t] = "ack" /\ sock'[t] = made + 1
      BY <2>2 DEF CallType
    <3>2. QED
      BY <2>1, <2>2, <3>1 DEF NoLeak, link
  <2>3. CASE Opened(t, 0) /\ UNCHANGED <<made, copen, sopen>>
    <3>1. op[t] # "open" => fd = 0 /\ UNCHANGED lost
      BY <1>8, <2>3 DEF Connect, Opened, LinkInv
    <3>2. op[t] = "open" => lost' = IF fd # 0 THEN lost \cup {fd} ELSE lost
      BY <2>3 DEF Opened
    <3>3. 0 \notin copen
      BY BoundsNat DEF WireType, Conns
    <3>4. QED
      BY <2>1, <2>3, <3>1, <3>2, <3>3 DEF NoLeak
  <2>4. QED
    BY <1>8, <2>2, <2>3 DEF Connect
<1>9. ASSUME NEW t \in Threads, ReadAck(t) PROVE NoLeak'
  <2>1. pc[t] = "ack" /\ \A u \in Threads \ {t} : pc[u] # "ack"
    BY <1>9, OthersWait DEF ReadAck
  <2>2. \A c \in copen \ lost : c = fd \/ c = sock[t]
    BY <2>1 DEF NoLeak
  <2>3. /\ op[t] # "open" => fd = 0 /\ UNCHANGED lost
        /\ op[t] = "open" => lost' = IF fd # 0 THEN lost \cup {fd} ELSE lost
    BY <1>9, <2>1 DEF ReadAck, Opened, LinkInv
  <2>4. 0 \notin copen
    BY BoundsNat DEF WireType, Conns
  <2>5. \/ fd' = sock[t] /\ copen' = copen
        \/ copen' = copen \ {sock[t]}
    BY <1>9 DEF ReadAck, Opened, Close
  <2>6. QED
    BY <2>2, <2>3, <2>4, <2>5 DEF NoLeak
<1>10. ASSUME NEW t \in Threads, SendLen(t) PROVE NoLeak'
  <2>1. \A c \in copen \ lost : c = fd
    BY <1>2, <1>10 DEF SendLen
  <2>2. QED
    BY <1>10, <2>1 DEF SendLen, Close, history, NoLeak
<1>11. ASSUME NEW t \in Threads, ResendLen(t) \/ SendBody(t) PROVE NoLeak'
  <2>1. \A c \in copen \ lost : c = fd
    BY <1>2, <1>11 DEF ResendLen, SendBody
  <2>2. QED
    BY <1>11, <2>1 DEF ResendLen, SendBody, link, wire, history, NoLeak
<1>12. ASSUME NEW t \in Threads, SendFailed(t) PROVE NoLeak'
  <2>1. \A c \in copen \ lost : c = fd
    BY <1>2, <1>12 DEF SendFailed
  <2>2. QED
    BY <1>12, <2>1 DEF SendFailed, Close, history, NoLeak
<1>13. ASSUME NEW t \in Threads,
              \/ RecvRet(t) \/ RecvCount(t) \/ RecvData(t) \/ RecvDataNew(t)
       PROVE  NoLeak'
  <2>1. \A c \in copen \ lost : c = fd
    BY <1>2, <1>13 DEF RecvRet, RecvCount, RecvData, RecvDataNew
  <2>2. UNCHANGED <<fd, copen, lost>>
    BY <1>13 DEF RecvRet, RecvCount, RecvData, RecvDataNew, history
  <2>3. QED
    BY <2>1, <2>2 DEF NoLeak
<1>14. ASSUME UNCHANGED <<link, copen, pc, op, sock, lost>> PROVE NoLeak'
  BY <1>14 DEF NoLeak, link
<1>15. QED
  BY <1>3, <1>4, <1>5, <1>6, <1>7, <1>8, <1>9, <1>10, <1>11, <1>12, <1>13,
     <1>14, DaemonSteps DEF Next, Step

\* What an answer looks like: its return code, its count, its data.
LEMMA AnswerShape ==
  ASSUME NEW q, NEW n \in Nat
  PROVE  /\ Len(Answer(q, n)) = n + 2
         /\ \A i \in 1 .. n + 2 : Answer(q, n)[i].q = q
         /\ Answer(q, n)[2].k = "count" /\ Answer(q, n)[2].v = n
<1>1. Len(Answer(q, n)) = n + 2
  BY DEF Answer
<1>2. /\ Answer(q, n)[1] = Unit(q, "ret", 0)
      /\ Answer(q, n)[2] = Unit(q, "count", n)
      /\ \A i \in 3 .. n + 2 : Answer(q, n)[i] = Unit(q, "data", i - 2)
  BY DEF Answer
<1> \A k, v : Unit(q, k, v).q = q /\ Unit(q, k, v).k = k /\ Unit(q, k, v).v = v
  BY DEF Unit
<1>3. /\ Answer(q, n)[1].q = q /\ Answer(q, n)[2].q = q
      /\ \A i \in 3 .. n + 2 : Answer(q, n)[i].q = q
      /\ Answer(q, n)[2].k = "count" /\ Answer(q, n)[2].v = n
  BY <1>2
<1>4. \A i \in 1 .. n + 2 : i = 1 \/ i = 2 \/ i \in 3 .. n + 2
  OBVIOUS
<1>5. QED
  BY <1>1, <1>3, <1>4

\* What is left of a sequence of units when the first n are read.
LEMMA RestShape ==
  ASSUME NEW s \in Seq(Units), NEW n \in Nat, n <= Len(s)
  PROVE  /\ Len(SubSeq(s, n + 1, Len(s))) = Len(s) - n
         /\ \A i \in 1 .. Len(s) - n : SubSeq(s, n + 1, Len(s))[i] = s[i + n]
         /\ n = Len(s) => SubSeq(s, n + 1, Len(s)) = <<>>
OBVIOUS

\* Every step leaves the connections alone that are not made yet.
LEMMA NextFreshInv == IInv /\ [Next]_vars => FreshInv'
<1> SUFFICES ASSUME IInv, [Next]_vars PROVE FreshInv'
  OBVIOUS
<1> /\ LinkInv /\ FreshInv /\ LinkType /\ WireType /\ CallType
  BY DEF IInv, TypeOK, StreamInv
<1> USE BoundsNat DEF Conns
\* A step on a connection that is made.
<1>1. ASSUME NEW c \in 1 .. made, UNCHANGED made,
             copen' \cup sopen' \cup accepted' \subseteq
               copen \cup sopen \cup accepted,
             \A d \in Conns \ {c} :
               rx'[d] = rx[d] /\ (req'[d] = req[d] \/ req'[d] = NoQuery)
      PROVE  FreshInv'
  <2>1. copen' \cup sopen' \cup accepted' \subseteq 1 .. made'
    BY <1>1, Zenon DEF FreshInv
  <2>2. ASSUME NEW d \in Conns, d > made' PROVE rx'[d] = <<>> /\ req'[d] = NoQuery
    <3>1. d # c /\ d > made
      BY <1>1, <2>2 DEF WireType
    <3>2. QED
      BY <1>1, <3>1 DEF FreshInv
  <2>3. QED
    BY <2>1, <2>2 DEF FreshInv
<1>2. ASSUME UNCHANGED <<made, rx, req, accepted>>, copen' \subseteq copen,
             sopen' \subseteq sopen
      PROVE  FreshInv'
  BY <1>2 DEF FreshInv
<1>3. ASSUME NEW t \in Threads,
             \/ Open(t) \/ CloseLink(t) \/ OpenLock(t) \/ QueryLock(t)
             \/ SendLen(t) \/ ResendLen(t) \/ SendFailed(t)
             \/ \E o \in {"query", "new"} : Query(t, o)
      PROVE  FreshInv'
  BY <1>2, <1>3 DEF Open, CloseLink, OpenLock, QueryLock, SendLen, ResendLen,
                    SendFailed, Query, Close, wire
<1>4. ASSUME NEW t \in Threads, Connect(t) PROVE FreshInv'
  <2>1. CASE made' = made + 1 /\ copen' = copen \cup {made + 1}
             /\ sopen' = sopen \cup {made + 1}
    <3>1. UNCHANGED <<rx, req, accepted>>
      BY <1>4 DEF Connect
    <3>2. QED
      BY <2>1, <3>1 DEF FreshInv, WireType
  <2>2. CASE UNCHANGED <<made, copen, sopen>>
    BY <1>2, <1>4, <2>2 DEF Connect
  <2>3. QED
    BY <1>4, <2>1, <2>2 DEF Connect
<1>5. ASSUME NEW t \in Threads, ReadAck(t) PROVE FreshInv'
  <2>1. sock[t] \in 1 .. made
    BY <1>5 DEF ReadAck, LinkInv, FreshInv
  <2>2. copen' \subseteq copen /\ sopen' \subseteq sopen
    BY <1>5 DEF ReadAck, Close
  <2>3. \A d \in Conns \ {sock[t]} : rx'[d] = rx[d]
    BY <1>5 DEF ReadAck, WireType
  <2>4. UNCHANGED <<made, req, accepted>>
    BY <1>5 DEF ReadAck
  <2>5. QED
    BY <1>1, <2>1, <2>2, <2>3, <2>4
<1>6. ASSUME NEW t \in Threads, SendBody(t) PROVE FreshInv'
  <2>1. CASE sock[t] \in sopen
    <3>1. sock[t] \in 1 .. made
      BY <2>1 DEF FreshInv
    <3>2. \A d \in Conns \ {sock[t]} : req'[d] = req[d]
      BY <1>6 DEF SendBody, WireType
    <3>3. QED
      BY <1>1, <1>6, <3>1, <3>2 DEF SendBody
  <2>2. CASE sock[t] \notin sopen
    BY <1>2, <1>6, <2>2 DEF SendBody
  <2>3. QED
    BY <2>1, <2>2
<1>7. ASSUME NEW t \in Threads,
             RecvRet(t) \/ RecvCount(t) \/ RecvData(t) \/ RecvDataNew(t)
      PROVE  FreshInv'
  <2>1. fd \in 1 .. made
    BY <1>7 DEF RecvRet, RecvCount, RecvData, RecvDataNew, LinkInv, Receiving,
                FreshInv
  <2>2. UNCHANGED <<made, copen, sopen, accepted, req>>
    BY <1>7 DEF RecvRet, RecvCount, RecvData, RecvDataNew
  <2>3. \A d \in Conns \ {fd} : rx'[d] = rx[d]
    BY <1>7 DEF RecvRet, RecvCount, RecvData, RecvDataNew, ReadData, LeaveData,
                Take, WireType
  <2>4. QED
    BY <1>1, <2>1, <2>2, <2>3
<1>8. ASSUME NEW c \in Conns, Accept(c) \/ Serve(c) PROVE FreshInv'
  <2>1. c \in sopen /\ c \in 1 .. made
    BY <1>8 DEF Accept, Serve, FreshInv
  <2>2. UNCHANGED <<made, copen, sopen>> /\ accepted' \subseteq accepted \cup {c}
    BY <1>8 DEF Accept, Serve
  <2>3. \A d \in Conns \ {c} : rx'[d] = rx[d] /\ req'[d] = req[d]
    BY <1>8 DEF Accept, Serve, WireType
  <2>4. QED
    BY <1>1, <2>1, <2>2, <2>3
<1>9. CASE Crash
  <2>1. /\ UNCHANGED <<made, copen>> /\ sopen' = {}
        /\ accepted' = accepted \cup sopen
        /\ \A d \in Conns : req'[d] = NoQuery
    BY <1>9 DEF Crash
  <2>2. CASE UNCHANGED rx
    BY <2>1, <2>2 DEF FreshInv
  <2>3. ASSUME NEW c \in sopen, \A d \in Conns \ {c} : rx'[d] = rx[d]
        PROVE  FreshInv'
    <3>1. c \in 1 .. made
      BY DEF FreshInv
    <3>2. \A d \in Conns : d > made => rx'[d] = <<>>
      BY <2>3, <3>1 DEF FreshInv, WireType
    <3>3. QED
      BY <2>1, <3>2 DEF FreshInv
  <2>4. QED
    BY <1>9, <2>2, <2>3 DEF Crash, WireType
<1>10. CASE Restart \/ UNCHANGED vars
  BY <1>2, <1>10 DEF Restart, vars, wire
<1>11. QED
  BY <1>3, <1>4, <1>5, <1>6, <1>7, <1>8, <1>9, <1>10 DEF Next, Step

\* Every step leaves at most the greeting on a connection being opened.
LEMMA NextGreetInv == IInv /\ [Next]_vars => GreetInv'
<1> SUFFICES ASSUME IInv, [Next]_vars PROVE GreetInv'
  OBVIOUS
<1> /\ MutexInv /\ LinkInv /\ FreshInv /\ GreetInv /\ LinkType /\ WireType
    /\ CallType
  BY DEF IInv, TypeOK, StreamInv
<1> USE LockedAre DEF Goto
\* A step that brings no thread to "ack".
<1>1. ASSUME \A u \in Threads : pc'[u] = "ack" => pc[u] = "ack" /\ sock'[u] = sock[u],
             UNCHANGED <<rx, req, accepted>>
      PROVE  GreetInv'
  BY <1>1 DEF GreetInv
\* A step of the mutex's holder that leaves "ack", or was never there.
<1>2. ASSUME NEW t \in Threads, pc[t] \in Locked, pc'[t] # "ack",
             \A u \in Threads \ {t} : pc'[u] = pc[u]
      PROVE  GreetInv'
  <2>1. \A u \in Threads : pc'[u] # "ack"
    BY <1>2, OthersWait
  <2>2. QED
    BY <2>1 DEF GreetInv
<1>3. ASSUME NEW t \in Threads,
             \/ Open(t) \/ CloseLink(t) \/ OpenLock(t) \/ QueryLock(t)
             \/ \E o \in {"query", "new"} : Query(t, o)
      PROVE  GreetInv'
  BY <1>1, <1>3 DEF Open, CloseLink, OpenLock, QueryLock, Query, Call, wire, local,
                    CallType
<1>4. ASSUME NEW t \in Threads, NEW c, Opened(t, c), pc[t] \in Locked
      PROVE  GreetInv'
  <2>1. pc'[t] # "ack" /\ \A u \in Threads \ {t} : pc'[u] = pc[u]
    BY <1>4 DEF Opened, CallType
  <2>2. QED
    BY <1>2, <1>4, <2>1
<1>5. ASSUME NEW t \in Threads, Connect(t) PROVE GreetInv'
  <2>1. CASE up /\ made < MaxConn /\ sock' = [sock EXCEPT ![t] = made + 1]
             /\ Goto(t, "ack")
    <3>1. pc'[t] = "ack" /\ sock'[t] = made + 1 /\ UNCHANGED <<rx, req, accepted>>
      BY <1>5, <2>1 DEF Connect, CallType
    <3>2. \A u \in Threads \ {t} : pc'[u] # "ack"
      BY <1>5, <2>1, OthersWait DEF Connect, CallType
    <3>3. /\ made + 1 \in Conns /\ made + 1 \notin accepted
          /\ rx[made + 1] = <<>> /\ req[made + 1] = NoQuery
      BY <2>1, BoundsNat DEF FreshInv, WireType, Conns
    <3>4. QED
      BY <3>1, <3>2, <3>3 DEF GreetInv
  <2>2. CASE Opened(t, 0)
    BY <1>4, <1>5, <2>2 DEF Connect
  <2>3. QED
    BY <1>5, <2>1, <2>2 DEF Connect
<1>6. ASSUME NEW t \in Threads, ReadAck(t) PROVE GreetInv'
  BY <1>4, <1>6 DEF ReadAck
<1>7. ASSUME NEW t \in Threads,
             SendLen(t) \/ ResendLen(t) \/ SendBody(t) \/ SendFailed(t)
      PROVE  GreetInv'
  <2>1. /\ pc[t] \in Locked /\ pc'[t] # "ack"
        /\ \A u \in Threads \ {t} : pc'[u] = pc[u]
    BY <1>7 DEF SendLen, ResendLen, SendBody, SendFailed, CallType
  <2>2. QED
    BY <1>2, <2>1
<1>8. ASSUME NEW t \in Threads,
             RecvRet(t) \/ RecvCount(t) \/ RecvData(t) \/ RecvDataNew(t)
      PROVE  GreetInv'
  <2>1. /\ pc[t] \in Locked /\ pc'[t] # "ack"
        /\ \A u \in Threads \ {t} : pc'[u] = pc[u]
    BY <1>8 DEF RecvRet, RecvCount, RecvData, RecvDataNew, ReadError, Return, CallType
  <2>2. QED
    BY <1>2, <2>1
<1>9. ASSUME NEW c \in Conns, Accept(c) PROVE GreetInv'
  <2>1. UNCHANGED <<pc, sock, req>> /\ accepted' = accepted \cup {c}
    BY <1>9 DEF Accept, local
  <2>2. c \notin accepted /\ \A d \in Conns \ {c} : rx'[d] = rx[d]
    BY <1>9 DEF Accept, WireType
  <2>3. Len(rx'[c]) = Len(rx[c]) + 1
    BY <1>9 DEF Accept, WireType
  <2>4. ASSUME NEW u \in Threads, pc[u] = "ack"
        PROVE  Len(rx'[sock[u]]) <= IF sock[u] \in accepted' THEN 1 ELSE 0
    <3>1. sock[u] \in Conns
      BY <2>4 DEF LinkInv, WireType
    <3>2. Len(rx[sock[u]]) \in Nat
      BY <3>1 DEF WireType
    <3>3. QED
      BY <2>1, <2>2, <2>3, <2>4, <3>1, <3>2 DEF GreetInv
  <2>5. QED
    BY <2>1, <2>4 DEF GreetInv
<1>10. ASSUME NEW c \in Conns, Serve(c) PROVE GreetInv'
  <2>1. UNCHANGED <<pc, sock, accepted>> /\ req[c] # NoQuery
    BY <1>10 DEF Serve, local
  <2>2. \A d \in Conns \ {c} : rx'[d] = rx[d] /\ req'[d] = req[d]
    BY <1>10 DEF Serve, WireType
  <2>3. \A u \in Threads : pc[u] = "ack" => sock[u] \in Conns \ {c}
    BY <2>1 DEF GreetInv, LinkInv, WireType
  <2>4. QED
    BY <2>1, <2>2, <2>3 DEF GreetInv
<1>11. CASE Crash
  <2>1. /\ UNCHANGED <<pc, sock>> /\ accepted' = accepted \cup sopen
        /\ \A d \in Conns : req'[d] = NoQuery
    BY <1>11 DEF Crash, local
  <2>2. \A d \in Conns : req[d] = NoQuery => rx'[d] = rx[d]
    BY <1>11 DEF Crash, WireType
  <2>3. ASSUME NEW u \in Threads, pc[u] = "ack"
        PROVE  /\ req'[sock[u]] = NoQuery
               /\ Len(rx'[sock[u]]) <= IF sock[u] \in accepted' THEN 1 ELSE 0
    <3>1. sock[u] \in Conns /\ req[sock[u]] = NoQuery
      BY <2>3 DEF LinkInv, WireType, GreetInv
    <3>2. Len(rx[sock[u]]) \in Nat
      BY <3>1 DEF WireType
    <3>3. QED
      BY <2>1, <2>2, <2>3, <3>1, <3>2 DEF GreetInv
  <2>4. QED
    BY <2>1, <2>3 DEF GreetInv
<1>12. CASE Restart \/ UNCHANGED vars
  BY <1>1, <1>12 DEF Restart, vars, wire, local
<1>13. QED
  BY <1>3, <1>5, <1>6, <1>7, <1>8, <1>9, <1>10, <1>11, <1>12 DEF Next, Step

\* Every step of a query leaves on the link the rest of its answer, and the last
\* one nothing, unless it counts the link as dirty.
LEMMA NextCleanInv == IInv /\ [Next]_vars => CleanInv'
<1> SUFFICES ASSUME IInv, [Next]_vars PROVE CleanInv'
  OBVIOUS
<1> /\ MutexInv /\ LinkInv /\ FreshInv /\ GreetInv /\ CleanInv
    /\ LinkType /\ WireType /\ CallType
  BY DEF IInv, TypeOK, StreamInv
<1> USE LockedAre DEF Goto
<1> 0 \notin Conns
  BY DEF Conns
\* A step that leaves the link and the threads that read from it alone.
<1>1. ASSUME UNCHANGED <<fd, rx, req, accepted, dirty>>,
             fd # 0 => (fd \in sopen' <=> fd \in sopen),
             \A u \in Threads : pc'[u] \in Receiving <=> pc[u] \in Receiving,
             \A u \in Threads : pc[u] \in Receiving =>
               pc'[u] = pc[u] /\ calls'[u] = calls[u] /\ count'[u] = count[u]
      PROVE  CleanInv'
  <2>1. fd # 0 => \A u \in Threads : pc[u] \in Receiving /\ AnswerDue(u) => AnswerDue(u)'
    BY <1>1 DEF AnswerDue, Whole, Qid
  <2>2. QED
    BY <1>1, <2>1 DEF CleanInv
\* A step after which the mutex's holder alone may read from the link.
<1>2. ASSUME NEW t \in Threads, \A u \in Threads \ {t} : pc'[u] \notin Receiving,
             fd' # 0 /\ fd' \notin sopen' => req'[fd'] = NoQuery,
             fd' # 0 /\ fd' \notin dirty' =>
               /\ fd' \in accepted'
               /\ pc'[t] \in Receiving => AnswerDue(t)'
               /\ pc'[t] \notin Receiving => rx'[fd'] = <<>> /\ req'[fd'] = NoQuery
      PROVE  CleanInv'
  BY <1>2 DEF CleanInv
<1>3. ASSUME NEW t \in Threads, Open(t) PROVE CleanInv'
  <2>1. /\ pc[t] \notin Receiving /\ pc'[t] \notin Receiving
        /\ \A u \in Threads \ {t} : pc'[u] = pc[u] /\ calls'[u] = calls[u]
    BY <1>3 DEF Open, Call, Receiving, CallType
  <2>2. QED
    BY <1>1, <1>3, <2>1 DEF Open, link, wire, history
<1>4. ASSUME NEW t \in Threads, NEW o \in {"query", "new"}, Query(t, o)
      PROVE  CleanInv'
  <2>1. /\ pc[t] \notin Receiving /\ pc'[t] \notin Receiving
        /\ \A u \in Threads \ {t} : pc'[u] = pc[u] /\ calls'[u] = calls[u]
    BY <1>4 DEF Query, Call, Receiving, CallType
  <2>2. QED
    BY <1>1, <1>4, <2>1 DEF Query, link, wire, history
<1>5. ASSUME NEW t \in Threads, OpenLock(t) \/ QueryLock(t) \/ ResendLen(t)
      PROVE  CleanInv'
  <2>1. /\ pc[t] \notin Receiving /\ pc'[t] \notin Receiving
        /\ \A u \in Threads \ {t} : pc'[u] = pc[u]
    BY <1>5 DEF OpenLock, QueryLock, ResendLen, Receiving, CallType
  <2>2. UNCHANGED <<fd, rx, req, accepted, dirty, sopen, calls, count>>
    BY <1>5 DEF OpenLock, QueryLock, ResendLen, link, wire, local, history
  <2>3. QED
    BY <1>1, <2>1, <2>2
<1>6. ASSUME fd' = 0 PROVE CleanInv'
  BY <1>6 DEF CleanInv
<1>7. ASSUME NEW t \in Threads, CloseLink(t) \/ SendFailed(t) PROVE CleanInv'
  BY <1>6, <1>7 DEF CloseLink, SendFailed
<1>8. ASSUME NEW t \in Threads, SendLen(t) PROVE CleanInv'
  <2>1. CASE fd' = 0
    BY <1>6, <2>1
  <2>2. CASE UNCHANGED <<fd, copen, sopen>>
    <3>1. /\ pc[t] \notin Receiving /\ pc'[t] \notin Receiving
          /\ \A u \in Threads \ {t} : pc'[u] = pc[u]
      BY <1>8 DEF SendLen, Receiving, CallType
    <3>2. UNCHANGED <<rx, req, accepted, dirty, calls, count>>
      BY <1>8 DEF SendLen, local, history
    <3>3. QED
      BY <1>1, <2>2, <3>1, <3>2
  <2>3. QED
    BY <1>8, <2>1, <2>2 DEF SendLen
<1>9. ASSUME NEW t \in Threads, Connect(t) PROVE CleanInv'
  <2>1. CASE /\ made' = made + 1 /\ sopen' = sopen \cup {made + 1}
             /\ Goto(t, "ack") /\ UNCHANGED <<link, tries, lost>>
    <3>1. /\ pc[t] \notin Receiving /\ pc'[t] \notin Receiving
          /\ \A u \in Threads \ {t} : pc'[u] = pc[u]
      BY <1>9, <2>1 DEF Connect, Receiving, CallType
    <3>2. fd # 0 => fd # made + 1
      BY DEF LinkInv, FreshInv, WireType
    <3>3. QED
      BY <1>1, <1>9, <2>1, <3>1, <3>2 DEF Connect, link
  <2>2. CASE Opened(t, 0)
    BY <1>6, <2>2 DEF Opened
  <2>3. QED
    BY <1>9, <2>1, <2>2 DEF Connect
<1>10. ASSUME NEW t \in Threads, ReadAck(t) PROVE CleanInv'
  <2>1. CASE Opened(t, 0)
    BY <1>6, <2>1 DEF Opened
  <2>2. CASE /\ Opened(t, sock[t]) /\ rx[sock[t]] # <<>>
             /\ rx' = [rx EXCEPT ![sock[t]] = Tail(@)]
    <3>1. pc[t] = "ack" /\ sock[t] \in Conns /\ UNCHANGED <<req, accepted>>
      BY <1>10 DEF ReadAck, LinkInv, WireType
    <3>2. rx[sock[t]] \in Seq(Units) /\ Len(rx[sock[t]]) \in Nat \ {0}
      BY <2>2, <3>1 DEF WireType
    <3>3. sock[t] \in accepted /\ req[sock[t]] = NoQuery /\ Len(rx[sock[t]]) = 1
      <4>1. /\ req[sock[t]] = NoQuery
            /\ Len(rx[sock[t]]) <= IF sock[t] \in accepted THEN 1 ELSE 0
        BY <3>1, Zenon DEF GreetInv
      <4>2. \A n \in Nat \ {0} : ~(n <= 0) /\ (n <= 1 => n = 1)
        OBVIOUS
      <4>3. QED
        BY <3>2, <4>1, <4>2
    <3>4. rx'[sock[t]] = <<>>
      <4>1. rx'[sock[t]] = Tail(rx[sock[t]])
        BY <2>2, <3>1 DEF WireType
      <4>2. Tail(rx[sock[t]]) \in Seq(Units) /\ Len(Tail(rx[sock[t]])) = 1 - 1
        BY <2>2, <3>2, <3>3, HeadTailProperties
      <4>3. Tail(rx[sock[t]]) # <<>> => Len(Tail(rx[sock[t]])) \in Nat \ {0}
        BY <4>2, EmptySeq
      <4>4. 1 - 1 \notin Nat \ {0}
        OBVIOUS
      <4>5. QED
        BY <4>1, <4>2, <4>3, <4>4, Zenon
    <3>5. fd' = sock[t] /\ pc'[t] \notin Receiving
      BY <2>2 DEF Opened, Receiving, CallType
    <3>6. \A u \in Threads \ {t} : pc'[u] \notin Receiving
      BY <2>2, <3>1, OthersWait DEF Opened, CallType, Locked
    <3>7. QED
      BY <1>2, <3>1, <3>3, <3>4, <3>5, <3>6
  <2>3. QED
    BY <1>10, <2>1, <2>2 DEF ReadAck
<1>11. ASSUME NEW t \in Threads, SendBody(t) PROVE CleanInv'
  <2>1. pc[t] = "body" /\ sock[t] = fd /\ UNCHANGED <<fd, sopen, accepted, rx, dirty>>
    BY <1>11 DEF SendBody, link, history, LinkInv, Sending
  <2>2. \A u \in Threads : pc[u] \notin Receiving
    BY <2>1, OthersWait DEF Locked, Receiving
  <2>3. \A u \in Threads \ {t} : pc'[u] \notin Receiving
    BY <1>11, <2>2 DEF SendBody, CallType
  <2>4. CASE fd \notin sopen
    <3>1. pc'[t] \notin Receiving /\ UNCHANGED req
      BY <1>11, <2>1, <2>4 DEF SendBody, Receiving, CallType
    <3>2. QED
      BY <1>2, <2>1, <2>2, <2>3, <3>1 DEF CleanInv
  <2>5. CASE fd \in sopen
    <3>1. fd \in Conns /\ fd # 0
      BY <2>5 DEF WireType
    <3>2. pc'[t] = "ret" /\ req'[fd] = Qid(t) /\ Qid(t)' = Qid(t)
      BY <1>11, <2>1, <2>5, <3>1 DEF SendBody, CallType, WireType, Qid
    <3>3. fd \notin dirty => rx[fd] = <<>> /\ fd \in accepted
      BY <2>2, <3>1 DEF CleanInv
    <3>4. fd \notin dirty => AnswerDue(t)'
      BY <2>1, <3>2, <3>3 DEF AnswerDue
    <3>5. QED
      BY <1>2, <2>1, <2>3, <2>5, <3>2, <3>3, <3>4 DEF Receiving
  <2>6. QED
    BY <2>4, <2>5
<1>12. ASSUME NEW t \in Threads, pc[t] \in Receiving
       PROVE  /\ fd \in Conns /\ fd # 0 /\ rx[fd] \in Seq(Units)
              /\ Len(rx[fd]) \in Nat
              /\ \A i \in 1 .. Len(rx[fd]) : rx[fd][i].v \in Nat
              /\ \A u \in Threads \ {t} : pc[u] \notin Receiving
              /\ fd \notin sopen => req[fd] = NoQuery
              /\ fd \notin dirty => fd \in accepted /\ AnswerDue(t)
  <2>1. fd \in Conns /\ fd # 0 /\ rx[fd] \in Seq(Units)
    BY <1>12 DEF LinkInv, LinkType, WireType
  <2>2. Len(rx[fd]) \in Nat /\ \A i \in 1 .. Len(rx[fd]) : rx[fd][i] \in Units
    BY <2>1
  <2>3. \A i \in 1 .. Len(rx[fd]) : rx[fd][i].v \in Nat
    BY <2>2 DEF Units
  <2>4. \A u \in Threads \ {t} : pc[u] \notin Receiving
    BY <1>12, OthersWait DEF Locked
  <2>5. QED
    BY <1>12, <2>1, <2>2, <2>3, <2>4 DEF CleanInv
\* The rest of the link after n units are read.
<1>13. ASSUME NEW t \in Threads, pc[t] \in Receiving, NEW n \in Nat,
              n <= Len(rx[fd]), Take(t, n)
       PROVE  /\ Len(rx'[fd]) = Len(rx[fd]) - n
              /\ \A i \in 1 .. Len(rx[fd]) - n : rx'[fd][i] = rx[fd][i + n]
              /\ n = Len(rx[fd]) => rx'[fd] = <<>>
  <2>1. rx'[fd] = SubSeq(rx[fd], n + 1, Len(rx[fd]))
    BY <1>12, <1>13 DEF Take, WireType
  <2>2. QED
    BY <1>12, <1>13, <2>1, RestShape
<1>14. ASSUME NEW t \in Threads, RecvRet(t) PROVE CleanInv'
  <2>1. /\ pc[t] = "ret" /\ pc[t] \in Receiving
        /\ UNCHANGED <<fd, sopen, accepted, req, dirty, calls, count>>
    BY <1>14 DEF RecvRet, Receiving, history
  <2>2. \A u \in Threads \ {t} : pc'[u] \notin Receiving
    BY <1>12, <1>14, <2>1 DEF RecvRet, ReadError, Return, CallType
  <2>3. CASE rx[fd] # <<>> /\ Take(t, 1) /\ Goto(t, "count")
    <3>1. pc'[t] = "count" /\ 1 <= Len(rx[fd])
      BY <1>12, <2>1, <2>3 DEF CallType
    <3>2. /\ Len(rx'[fd]) = Len(rx[fd]) - 1
          /\ \A i \in 1 .. Len(rx[fd]) - 1 : rx'[fd][i] = rx[fd][i + 1]
      BY <1>13, <2>1, <2>3, <3>1
    <3>3. ASSUME fd \notin dirty PROVE AnswerDue(t)'
      <4>1. AnswerDue(t) /\ req[fd] = NoQuery
        BY <1>12, <2>1, <2>3, <3>3 DEF AnswerDue
      <4>2. \A i \in 1 .. Len(rx'[fd]) : rx'[fd][i].q = Qid(t)
        BY <1>12, <2>1, <3>2, <4>1 DEF AnswerDue
      <4>3. Len(rx'[fd]) > 0 => rx'[fd][1].k = "count" /\ Whole(rx[fd][1].v + 1)'
        <5> SUFFICES ASSUME Len(rx'[fd]) > 0
                     PROVE  rx'[fd][1].k = "count" /\ Whole(rx[fd][1].v + 1)'
          OBVIOUS
        <5>1. Len(rx[fd]) > 1 /\ rx'[fd][1] = rx[fd][2] /\ rx[fd][2].v \in Nat
          BY <1>12, <2>1, <3>2
        <5>2. rx[fd][2].k = "count" /\ Whole(rx[fd][2].v + 2)
          BY <2>1, <4>1, <5>1 DEF AnswerDue
        <5>3. QED
          BY <1>12, <2>1, <3>2, <5>1, <5>2 DEF Whole
      <4>4. QED
        BY <2>1, <3>1, <4>1, <4>2, <4>3 DEF AnswerDue, Qid
    <3>4. QED
      BY <1>2, <1>12, <2>1, <2>2, <3>1, <3>3 DEF Receiving
  <2>4. CASE Ended(fd) /\ UNCHANGED rx /\ Goto(t, "count")
    <3>1. pc'[t] = "count" /\ rx[fd] = <<>> /\ fd \notin sopen /\ req[fd] = NoQuery
      BY <1>12, <2>1, <2>4 DEF CallType, Ended
    <3>2. fd \notin dirty => AnswerDue(t)'
      BY <2>1, <2>4, <3>1 DEF AnswerDue
    <3>3. QED
      BY <1>2, <1>12, <2>1, <2>2, <3>1, <3>2 DEF Receiving
  <2>5. CASE Ended(fd) /\ UNCHANGED rx /\ Goto(t, "idle")
    <3>1. /\ pc'[t] \notin Receiving
          /\ rx[fd] = <<>> /\ fd \notin sopen /\ req[fd] = NoQuery
      BY <1>12, <2>1, <2>5 DEF CallType, Ended, Receiving
    <3>2. QED
      BY <1>2, <1>12, <2>1, <2>2, <2>5, <3>1
  <2>6. QED
    BY <1>14, <2>3, <2>4, <2>5 DEF RecvRet, ReadError, Return
<1>15. ASSUME NEW t \in Threads, RecvCount(t) PROVE CleanInv'
  <2>1. /\ pc[t] = "count" /\ pc[t] \in Receiving
        /\ UNCHANGED <<fd, sopen, accepted, req, dirty, calls>>
    BY <1>15 DEF RecvCount, Receiving, history
  <2>2. \A u \in Threads \ {t} : pc'[u] \notin Receiving
    BY <1>12, <1>15, <2>1 DEF RecvCount, ReadError, Return, CallType
  <2>3. ASSUME rx[fd] # <<>>, Take(t, 1), Goto(t, "data"), NEW n \in 0 .. MaxCount,
               Head(rx[fd]).k = "count" => n = Head(rx[fd]).v,
               count' = [count EXCEPT ![t] = n]
        PROVE  CleanInv'
    <3>1. pc'[t] = "data" /\ 1 <= Len(rx[fd]) /\ count'[t] = n
      BY <1>12, <2>1, <2>3 DEF CallType
    <3>2. /\ Len(rx'[fd]) = Len(rx[fd]) - 1
          /\ \A i \in 1 .. Len(rx[fd]) - 1 : rx'[fd][i] = rx[fd][i + 1]
      BY <1>13, <2>1, <2>3, <3>1
    <3>3. ASSUME fd \notin dirty PROVE AnswerDue(t)'
      <4>1. AnswerDue(t) /\ req[fd] = NoQuery
        BY <1>12, <2>1, <3>3 DEF AnswerDue
      <4>2. \A i \in 1 .. Len(rx'[fd]) : rx'[fd][i].q = Qid(t)
        BY <1>12, <2>1, <3>2, <4>1 DEF AnswerDue
      <4>3. n = rx[fd][1].v /\ Whole(rx[fd][1].v + 1) /\ rx[fd][1].v \in Nat
        BY <1>12, <2>1, <2>3, <3>1, <4>1 DEF AnswerDue
      <4>4. Whole(n)'
        BY <1>12, <2>1, <3>2, <4>3 DEF Whole
      <4>5. QED
        BY <2>1, <3>1, <4>1, <4>2, <4>4 DEF AnswerDue, Qid
    <3>4. QED
      BY <1>2, <1>12, <2>1, <2>2, <3>1, <3>3 DEF Receiving
  <2>4. ASSUME Ended(fd), UNCHANGED rx, Goto(t, "data"), NEW n \in 0 .. MaxCount,
               count' = [count EXCEPT ![t] = n]
        PROVE  CleanInv'
    <3>1. /\ pc'[t] = "data" /\ rx[fd] = <<>> /\ fd \notin sopen /\ req[fd] = NoQuery
          /\ count'[t] = n /\ n \in Nat
      BY <1>12, <2>1, <2>4, BoundsNat DEF CallType, Ended
    <3>2. fd \notin dirty => AnswerDue(t)'
      BY <2>1, <2>4, <3>1 DEF AnswerDue, Whole
    <3>3. QED
      BY <1>2, <1>12, <2>1, <2>2, <3>1, <3>2 DEF Receiving
  <2>5. CASE Ended(fd) /\ UNCHANGED rx /\ Goto(t, "idle")
    <3>1. /\ pc'[t] \notin Receiving
          /\ rx[fd] = <<>> /\ fd \notin sopen /\ req[fd] = NoQuery
      BY <1>12, <2>1, <2>5 DEF CallType, Ended, Receiving
    <3>2. QED
      BY <1>2, <1>12, <2>1, <2>2, <2>5, <3>1
  <2>6. QED
    BY <1>15, <2>3, <2>4, <2>5 DEF RecvCount, ReadError, Return
<1>16. ASSUME NEW t \in Threads, RecvData(t) \/ RecvDataNew(t) PROVE CleanInv'
  <2>1. /\ pc[t] = "data" /\ pc[t] \in Receiving
        /\ UNCHANGED <<fd, sopen, accepted, req, calls, count>>
    BY <1>16 DEF RecvData, RecvDataNew, Receiving
  <2>2. pc'[t] \notin Receiving /\ \A u \in Threads \ {t} : pc'[u] \notin Receiving
    BY <1>12, <1>16, <2>1 DEF RecvData, RecvDataNew, Return, CallType, Receiving
  <2>3. CASE LeaveData
    BY <1>2, <1>12, <2>1, <2>2, <2>3 DEF LeaveData
  <2>4. CASE ReadData(t) /\ UNCHANGED dirty
    <3>1. ASSUME fd \notin dirty
          PROVE  rx'[fd] = <<>> /\ req[fd] = NoQuery /\ fd \in accepted
      <4>1. count[t] \in Nat /\ req[fd] = NoQuery /\ Whole(count[t])
        BY <1>12, <2>1, <3>1 DEF AnswerDue, CallType
      <4>2. Take(t, Len(rx[fd]))
        BY <1>12, <2>1, <2>4, <4>1 DEF ReadData, Whole
      <4>3. QED
        BY <1>12, <1>13, <2>1, <3>1, <4>1, <4>2
    <3>2. QED
      BY <1>2, <1>12, <2>1, <2>2, <2>4, <3>1
  <2>5. QED
    BY <1>16, <2>3, <2>4 DEF RecvData, RecvDataNew
\* The daemon adds to the link the answer to the query that waits for it.
<1>17. ASSUME NEW c \in Conns, Accept(c) PROVE CleanInv'
  <2>1. /\ UNCHANGED <<fd, sopen, req, dirty, pc, calls, count>>
        /\ accepted' = accepted \cup {c} /\ c \notin accepted
    BY <1>17 DEF Accept, link, local, history
  <2>2. fd # 0 /\ fd # c => rx'[fd] = rx[fd]
    BY <1>17 DEF Accept, LinkType, WireType
  <2>3. fd # 0 /\ fd # c =>
          \A u \in Threads : AnswerDue(u) => AnswerDue(u)'
    BY <2>1, <2>2 DEF AnswerDue, Whole, Qid
  <2>4. QED
    BY <2>1, <2>2, <2>3 DEF CleanInv
<1>18. ASSUME NEW c \in Conns, NEW n \in 0 .. MaxCount, NEW k \in 1 .. n + 2,
              fd # 0 /\ fd \notin dirty => fd \in accepted',
              UNCHANGED <<fd, dirty, pc, calls, count>>,
              fd # 0 /\ fd \notin sopen' => req'[fd] = NoQuery,
              fd # 0 /\ fd # c => /\ req'[fd] = req[fd] \/ req'[fd] = NoQuery
                                  /\ sopen' \subseteq sopen /\ rx'[fd] = rx[fd],
              fd = c => /\ req[c] # NoQuery /\ req'[c] = NoQuery
                        /\ k = n + 2 \/ c \notin sopen'
                        /\ rx'[c] = rx[c] \o SubSeq(Answer(req[c], n), 1, k)
       PROVE  CleanInv'
  <2>1. CASE fd = 0
    BY <1>6, <1>18, <2>1
  <2>2. CASE fd # 0 /\ fd # c
    <3>1. \A u \in Threads : pc[u] \in Receiving /\ AnswerDue(u) => AnswerDue(u)'
      BY <1>18, <2>2 DEF AnswerDue, Whole, Qid
    <3>2. QED
      BY <1>18, <2>2, <3>1 DEF CleanInv
  <2>3. CASE fd = c /\ fd \in dirty
    BY <1>18, <2>3 DEF CleanInv
  <2>4. CASE fd = c /\ fd \notin dirty
    <3>1. PICK t \in Threads : pc[t] \in Receiving
      BY <1>18, <2>4 DEF CleanInv
    <3>2. pc[t] = "ret" /\ req[c] = Qid(t) /\ rx[c] = <<>>
      BY <1>12, <1>18, <2>4, <3>1 DEF AnswerDue, Receiving
    <3>3. n \in Nat /\ k \in Nat /\ k <= n + 2
      BY BoundsNat
    <3>4. Qid(t) \in Queries
      BY DEF Qid, Queries, CallType
    <3> DEFINE a == Answer(Qid(t), n)
    <3>5. a \in Seq(Units) /\ Len(a) = n + 2
      BY <3>3, <3>4, AnswerType, AnswerShape
    <3>6. /\ \A i \in 1 .. n + 2 : a[i].q = Qid(t)
          /\ a[2].k = "count" /\ a[2].v = n
      BY <3>3, AnswerShape
    <3> HIDE DEF a
    <3>7. rx'[c] = SubSeq(a, 1, k)
      BY <1>18, <2>4, <3>2, <3>3, <3>5 DEF a
    <3>8. Len(rx'[c]) = k /\ \A i \in 1 .. k : rx'[c][i] = a[i]
      BY <3>3, <3>5, <3>7
    <3>9. AnswerDue(t)'
      <4>1. \A i \in 1 .. Len(rx'[c]) : rx'[c][i].q = Qid(t)
        BY <3>3, <3>6, <3>8
      <4>2. Len(rx'[c]) > 1 => rx'[c][2].k = "count" /\ Whole(rx[c][2].v + 2)'
        <5>1. k > 1 => rx'[c][2].k = "count" /\ rx'[c][2].v = n
          BY <3>3, <3>6, <3>8
        <5>2. fd' = c /\ (k = n + 2 \/ c \notin sopen')
          BY <1>18, <2>4
        <5>3. QED
          BY <3>3, <3>8, <5>1, <5>2 DEF Whole
      <4>3. QED
        BY <1>18, <2>4, <3>2, <4>1, <4>2 DEF AnswerDue, Qid
    <3>10. QED
      BY <1>2, <1>12, <1>18, <2>4, <3>1, <3>9
  <2>5. QED
    BY <2>1, <2>2, <2>3, <2>4
<1>19. ASSUME NEW c \in Conns, Serve(c) PROVE CleanInv'
  <2>1. PICK n \in 0 .. MaxCount : rx' = [rx EXCEPT ![c] = @ \o Answer(req[c], n)]
    BY <1>19 DEF Serve
  <2>2. n \in Nat /\ n + 2 \in 1 .. n + 2
    BY BoundsNat
  <2>3. Answer(req[c], n) \in Seq(Units) /\ Len(Answer(req[c], n)) = n + 2
    BY <2>2, AnswerType, AnswerShape DEF WireType
  <2>4. SubSeq(Answer(req[c], n), 1, n + 2) = Answer(req[c], n)
    BY <2>2, <2>3
  <2>5. UNCHANGED <<fd, dirty, pc, calls, count, sopen, accepted>> /\ req[c] # NoQuery
    BY <1>19 DEF Serve, link, local, history
  <2>6. /\ rx'[c] = rx[c] \o SubSeq(Answer(req[c], n), 1, n + 2) /\ req'[c] = NoQuery
        /\ \A d \in Conns \ {c} : rx'[d] = rx[d] /\ req'[d] = req[d]
    BY <1>19, <2>1, <2>4 DEF Serve, WireType
  <2>7. fd # 0 => fd \in Conns
    BY DEF LinkType
  <2>8. QED
    BY <1>18, <2>2, <2>5, <2>6, <2>7 DEF CleanInv
<1>20. CASE Crash
  <2>1. /\ UNCHANGED <<fd, dirty, pc, calls, count>> /\ sopen' = {}
        /\ accepted \subseteq accepted'
        /\ \A d \in Conns : req'[d] = NoQuery
    BY <1>20 DEF Crash, link, local, history
  <2>2. fd # 0 => fd \in Conns
    BY DEF LinkType
  <2>3. CASE UNCHANGED rx
    <3>1. fd # 0 => \A u \in Threads : AnswerDue(u) => AnswerDue(u)'
      BY <2>1, <2>2, <2>3 DEF AnswerDue, Whole, Qid
    <3>2. QED
      BY <2>1, <2>2, <2>3, <3>1 DEF CleanInv
  <2>4. ASSUME NEW c \in sopen, NEW n \in 0 .. MaxCount, NEW k \in 1 .. n + 1,
               req[c] # NoQuery,
               rx' = [rx EXCEPT ![c] = @ \o SubSeq(Answer(req[c], n), 1, k)]
        PROVE  CleanInv'
    <3>1. c \in Conns /\ k \in 1 .. n + 2
      BY BoundsNat DEF WireType
    <3>2. /\ rx'[c] = rx[c] \o SubSeq(Answer(req[c], n), 1, k)
          /\ \A d \in Conns \ {c} : rx'[d] = rx[d]
      BY <2>4, <3>1 DEF WireType
    <3>3. QED
      BY <1>18, <2>1, <2>2, <2>4, <3>1, <3>2 DEF CleanInv
  <2>5. QED
    BY <1>20, <2>3, <2>4 DEF Crash
<1>21. CASE Restart \/ UNCHANGED vars
  BY <1>1, <1>21 DEF Restart, vars, link, wire, local, history
<1>22. QED
  BY <1>3, <1>4, <1>5, <1>7, <1>8, <1>9, <1>10, <1>11, <1>14, <1>15, <1>16, <1>17,
     <1>19, <1>20, <1>21 DEF Next, Step

\* A query reads units of its own answer only, unless the link is dirty.
LEMMA NextOwnAnswer == IInv /\ OwnAnswer /\ [Next]_vars => OwnAnswer'
<1> SUFFICES ASSUME IInv, OwnAnswer, [Next]_vars PROVE OwnAnswer'
  OBVIOUS
<1> /\ LinkInv /\ CleanInv /\ LinkType /\ WireType /\ CallType /\ HistoryType
  BY DEF IInv, TypeOK, StreamInv
\* A step in which no call reads.
<1>1. ASSUME \A u \in Threads :
               got'[u] = {} \/ (got'[u] = got[u] /\ calls'[u] = calls[u]),
             dirty \subseteq dirty'
      PROVE  OwnAnswer'
  BY <1>1 DEF OwnAnswer, Qid
<1>2. ASSUME NEW t \in Threads, pc[t] \in Receiving, NEW n \in Nat,
             n <= Len(rx[fd]), Take(t, n), UNCHANGED <<calls, dirty>>
      PROVE  OwnAnswer'
  <2>1. fd # 0 /\ fd \in Conns /\ rx[fd] \in Seq(Units) /\ Len(rx[fd]) \in Nat
    BY <1>2 DEF LinkInv, LinkType, WireType
  <2>2. fd \notin dirty => \A i \in 1 .. Len(rx[fd]) : rx[fd][i].q = Qid(t)
    BY <1>2, <2>1 DEF CleanInv, AnswerDue
  <2>3. \A g \in {<<fd, rx[fd][i].q>> : i \in 1 .. n} : g[2] = Qid(t) \/ g[1] \in dirty
    BY <1>2, <2>1, <2>2
  <2>4. /\ got'[t] = got[t] \cup {<<fd, rx[fd][i].q>> : i \in 1 .. n}
        /\ \A u \in Threads \ {t} : got'[u] = got[u]
    BY <1>2 DEF Take, HistoryType
  <2>5. QED
    BY <1>2, <2>3, <2>4 DEF OwnAnswer, Qid
<1>3. ASSUME NEW t \in Threads, NEW o, Call(t, o), UNCHANGED dirty PROVE OwnAnswer'
  BY <1>1, <1>3 DEF Call, CallType, HistoryType
<1>4. ASSUME NEW t \in Threads,
             Open(t) \/ CloseLink(t) \/ \E o \in {"query", "new"} : Query(t, o)
      PROVE  OwnAnswer'
  BY <1>3, <1>4 DEF Open, CloseLink, Query, history
<1>5. ASSUME NEW t \in Threads,
             \/ OpenLock(t) \/ Connect(t) \/ ReadAck(t) \/ QueryLock(t) \/ SendLen(t)
             \/ ResendLen(t) \/ SendBody(t) \/ SendFailed(t)
      PROVE  OwnAnswer'
  BY <1>1, <1>5 DEF OpenLock, Connect, ReadAck, QueryLock, SendLen, ResendLen,
                    SendBody, SendFailed, Opened, history, local
<1>6. ASSUME NEW t \in Threads, RecvRet(t) \/ RecvCount(t) PROVE OwnAnswer'
  <2>1. pc[t] \in Receiving /\ UNCHANGED <<calls, dirty>>
    BY <1>6 DEF RecvRet, RecvCount, Receiving, history
  <2>2. CASE rx[fd] # <<>> /\ Take(t, 1)
    <3>1. 1 <= Len(rx[fd])
      BY <2>1, <2>2 DEF LinkInv, LinkType, WireType
    <3>2. QED
      BY <1>2, <2>1, <2>2, <3>1
  <2>3. CASE UNCHANGED got
    BY <1>1, <2>1, <2>3
  <2>4. QED
    BY <1>6, <2>2, <2>3 DEF RecvRet, RecvCount
<1>7. ASSUME NEW t \in Threads, RecvData(t) \/ RecvDataNew(t) PROVE OwnAnswer'
  <2>1. pc[t] \in Receiving /\ UNCHANGED calls
    BY <1>7 DEF RecvData, RecvDataNew, Receiving
  <2>2. CASE LeaveData
    BY <1>1, <2>1, <2>2 DEF LeaveData
  <2>3. CASE ReadData(t) /\ UNCHANGED dirty
    <3>1. Len(rx[fd]) \in Nat /\ count[t] \in Nat
      BY <2>1 DEF LinkInv, LinkType, WireType, CallType
    <3>2. QED
      BY <1>2, <2>1, <2>3, <3>1 DEF ReadData
  <2>4. QED
    BY <1>7, <2>2, <2>3 DEF RecvData, RecvDataNew
<1>8. ASSUME \/ \E c \in Conns : Accept(c) \/ Serve(c)
             \/ Crash \/ Restart \/ UNCHANGED vars
      PROVE  OwnAnswer'
  BY <1>1, <1>8 DEF Accept, Serve, Crash, Restart, vars, local, history
<1>9. QED
  BY <1>4, <1>5, <1>6, <1>7, <1>8 DEF Next, Step

\* Whatever the threads, the daemon and its crashes do, the mutex is held by the
\* thread between lock and unlock, nbd_link.fd is no closed descriptor, a query
\* writes and reads on the link it found or reopened, and a link that is not
\* dirty is empty between two queries.
THEOREM LinkSafe == Spec => []IInv
<1>1. IInv /\ [Next]_vars => IInv'
  BY NextTypeOK, NextMutexInv, NextLinkInv, NextFreshInv, NextGreetInv, NextCleanInv
  DEF IInv, StreamInv
<1>2. QED
  BY <1>1, InitIInv, PTL DEF Spec

\* Reopening the link after a crash, a refusal or a failed query leaks no
\* socket.
THEOREM NothingLeaks == Spec => []NoLeak
<1>1. NoLeak /\ IInv /\ [Next]_vars => NoLeak'
  BY NextNoLeak
<1>2. QED
  BY <1>1, LinkSafe, InitIInv, PTL DEF Spec

\* A call reads bytes of its own answer only, whatever the other threads do and
\* however often the daemon dies in the middle of an answer, unless an earlier
\* query has left data on the connection.
THEOREM AnswersNotMixed == Spec => []OwnAnswer
<1>1. Init => OwnAnswer
  BY DEF Init, OwnAnswer
<1>2. OwnAnswer /\ IInv /\ [Next]_vars => OwnAnswer'
  BY NextOwnAnswer
<1>3. QED
  BY <1>1, <1>2, LinkSafe, PTL DEF Spec
=============================================================================
