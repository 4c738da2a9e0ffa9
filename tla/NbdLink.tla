------------------------------ MODULE NbdLink ------------------------------
(***************************************************************************)
(* The link of a client process to the configuration daemon nbd,           *)
(* efixo-libnbd/src/lib/core.c.                                            *)
(*                                                                         *)
(* All threads of a process share nbd_link: a socket, protected by a       *)
(* mutex.  A query writes a length and a body and reads back a return      *)
(* code, a count and count units of data.  When the daemon has died the    *)
(* first write fails with EPIPE and the link is reopened.                  *)
(*                                                                         *)
(* A unit is four bytes, the size of an int and of a size_t on the box.    *)
(* Units carry the query they answer, so that bytes delivered to the wrong *)
(* query can be told.  A read of a closed connection returns end of file   *)
(* or ECONNRESET; end of file leaves the variable read uninitialised.      *)
(***************************************************************************)
EXTENDS Naturals, Sequences

CONSTANTS
  Threads,     \* the threads of the client process
  None,        \* nobody holds the mutex
  MaxCalls,    \* bound: calls each thread makes
  MaxConn,     \* bound: connections ever made, then socket() fails
  MaxCrashes,  \* bound: crashes of the daemon
  MaxTries,    \* attempts to reopen the link (60 in the code)
  MaxCount,    \* bound: units of data in an answer, and in a garbage count
  BufLen,      \* units the caller's buffer holds
  DropMax,     \* units query_buffer[] holds: larger answers are not drained
  MallocFails, \* whether malloc may fail
  Ops          \* the calls the threads make

ASSUME NoneAssumption == None \notin Threads
ASSUME BoundsAssumption ==
  /\ {MaxCalls, MaxConn, MaxCrashes, MaxCount, BufLen, DropMax} \subseteq Nat
  /\ MaxTries \in Nat \ {0}
ASSUME OpsAssumption ==
  MallocFails \in BOOLEAN /\ Ops \subseteq {"open", "close", "query", "new"}

VARIABLES
  mutex, fd,   \* nbd_link; fd 0 stands for the -1 of the code
  copen,       \* connections open at the client's end
  sopen,       \* connections open at the daemon's end
  made,        \* how many connections the process has made
  accepted,    \* connections the daemon has accepted
  up,          \* the daemon runs
  crashes,     \* how often it has crashed
  req,         \* the complete query the daemon has received, per connection
  rx,          \* what the client has not read yet, per connection
  pc, op,      \* of each thread: its place and the call it is in
  calls,       \* the calls it has made
  sock,        \* sfd in nbd_query_send, fd in __nbd_open
  tries,       \* iterations of the reopen loop
  ret,         \* the variable ret of nbd_query and nbd_query_new
  count,       \* the variable count of nbd_query_receive
  got,         \* history: the connections and queries the call read bytes of
  dirty,       \* history: connections with data an earlier query left unread
  lost         \* history: links overwritten by the nbd_open of another thread

link == <<mutex, fd>>
wire == <<made, copen, sopen, accepted, req, rx>>
daemon == <<up, crashes>>
local == <<op, calls, sock, tries, ret, count, got>>
history == <<dirty, lost>>
vars == <<link, wire, daemon, pc, local, history>>

Conns == 1 .. MaxConn
Qid(t) == <<t, calls[t]>>
NoQuery == <<None, 0>>
Queries == (Threads \X (0 .. MaxCalls)) \cup {NoQuery}

\* "sent": the positive result of the write; "answer": read from the daemon.
Rets == {"none", "sent", "answer", "err"}

Kinds == {"ack", "nak", "ret", "count", "data"}
Unit(q, k, v) == [q |-> q, k |-> k, v |-> v]
Units == [q : Queries, k : Kinds, v : Nat]
Answer(q, n) ==
  <<Unit(q, "ret", 0), Unit(q, "count", n)>>
    \o [i \in 1 .. n |-> Unit(q, "data", i)]

Goto(t, p) == pc' = [pc EXCEPT ![t] = p]

Init ==
  /\ mutex = None /\ fd = 0
  /\ made = 0 /\ copen = {} /\ sopen = {} /\ accepted = {}
  /\ up = TRUE /\ crashes = 0
  /\ req = [c \in Conns |-> NoQuery]
  /\ rx = [c \in Conns |-> <<>>]
  /\ pc = [t \in Threads |-> "idle"]
  /\ op = [t \in Threads |-> "open"]
  /\ calls = [t \in Threads |-> 0]
  /\ sock = [t \in Threads |-> 0]
  /\ tries = [t \in Threads |-> 0]
  /\ ret = [t \in Threads |-> "none"]
  /\ count = [t \in Threads |-> 0]
  /\ got = [t \in Threads |-> {}]
  /\ dirty = {} /\ lost = {}

-----------------------------------------------------------------------------
(* nbd_open                                                                *)

Call(t, o) ==
  /\ pc[t] = "idle"
  /\ o \in Ops
  /\ calls[t] < MaxCalls
  /\ calls' = [calls EXCEPT ![t] = @ + 1]
  /\ op' = [op EXCEPT ![t] = o]
  /\ ret' = [ret EXCEPT ![t] = "none"]
  /\ got' = [got EXCEPT ![t] = {}]

\* The test of nbd_link.fd is made without the mutex.
Open(t) ==
  /\ Call(t, "open")
  /\ Goto(t, IF fd # 0 THEN "idle" ELSE "olock")
  /\ UNCHANGED <<link, wire, daemon, sock, tries, count, history>>

OpenLock(t) ==
  /\ pc[t] = "olock"
  /\ mutex = None
  /\ mutex' = t
  /\ Goto(t, "connect")
  /\ UNCHANGED <<fd, wire, daemon, local, history>>

\* __nbd_open returns c: to nbd_open, or to the reopen loop of nbd_query_send.
Opened(t, c) ==
  /\ fd' = c
  /\ sock' = [sock EXCEPT ![t] = c]
  /\ \/ /\ op[t] = "open"
        /\ mutex' = None
        /\ lost' = IF fd # 0 THEN lost \cup {fd} ELSE lost
        /\ Goto(t, "idle")
        /\ UNCHANGED tries
     \/ /\ op[t] # "open"
        /\ tries' = [tries EXCEPT ![t] = @ + 1]
        /\ Goto(t, IF c # 0 THEN "relen"
                   ELSE IF tries[t] + 1 = MaxTries THEN "failed" ELSE "connect")
        /\ UNCHANGED <<mutex, lost>>

\* connect() succeeds when the daemon listens, before it accepts.
Connect(t) ==
  /\ pc[t] = "connect"
  /\ \/ /\ up /\ made < MaxConn
        /\ made' = made + 1
        /\ copen' = copen \cup {made + 1}
        /\ sopen' = sopen \cup {made + 1}
        /\ sock' = [sock EXCEPT ![t] = made + 1]
        /\ Goto(t, "ack")
        /\ UNCHANGED <<link, tries, lost>>
     \/ /\ ~up \/ made = MaxConn
        /\ Opened(t, 0)
        /\ UNCHANGED <<made, copen, sopen>>
  /\ UNCHANGED <<accepted, req, rx, daemon, op, calls, ret, count, got, dirty>>

Close(c) == copen' = copen \ {c} /\ sopen' = sopen \ {c}

\* Blocks until the daemon greets or closes; anything but ACK is a failure.
ReadAck(t) ==
  LET c == sock[t] IN
  /\ pc[t] = "ack"
  /\ \/ /\ rx[c] # <<>>
        /\ rx' = [rx EXCEPT ![c] = Tail(@)]
        /\ IF Head(rx[c]).k = "ack"
           THEN Opened(t, c) /\ UNCHANGED <<copen, sopen>>
           ELSE Opened(t, 0) /\ Close(c)
     \/ /\ rx[c] = <<>> /\ c \notin sopen
        /\ Opened(t, 0)
        /\ Close(c)
        /\ UNCHANGED rx
  /\ UNCHANGED <<made, accepted, req, daemon, op, calls, ret, count, got,
                 dirty>>

-----------------------------------------------------------------------------
(* nbd_close                                                               *)

CloseLink(t) ==
  /\ Call(t, "close")
  /\ mutex = None
  /\ Close(fd)
  /\ fd' = 0
  /\ UNCHANGED <<mutex, made, accepted, req, rx, daemon, pc, sock, tries,
                 count, history>>

-----------------------------------------------------------------------------
(* nbd_query and nbd_query_new: sending                                    *)

Query(t, o) ==
  /\ Call(t, o)
  /\ o \in {"query", "new"}
  /\ Goto(t, "qlock")
  /\ UNCHANGED <<link, wire, daemon, sock, tries, count, history>>

QueryLock(t) ==
  /\ pc[t] = "qlock"
  /\ mutex = None
  /\ mutex' = t
  /\ sock' = [sock EXCEPT ![t] = fd]
  /\ tries' = [tries EXCEPT ![t] = 0]
  /\ Goto(t, "len")
  /\ UNCHANGED <<fd, wire, daemon, op, calls, ret, count, got, history>>

\* Mistake: the broken link is not closed before it is reopened.
SendLenNoClose(t) ==
  /\ pc[t] = "len"
  /\ IF sock[t] = 0 THEN Goto(t, "failed") /\ UNCHANGED fd
     ELSE IF sock[t] \in sopen THEN Goto(t, "body") /\ UNCHANGED fd
     ELSE Goto(t, "connect") /\ fd' = 0
  /\ UNCHANGED <<mutex, wire, daemon, local, history>>

\* The first write: EBADF without a link, EPIPE when the daemon is gone.
SendLen(t) ==
  /\ pc[t] = "len"
  /\ \/ /\ sock[t] = 0
        /\ Goto(t, "failed")
        /\ UNCHANGED <<fd, copen, sopen>>
     \/ /\ sock[t] \in sopen
        /\ Goto(t, "body")
        /\ UNCHANGED <<fd, copen, sopen>>
     \/ /\ sock[t] # 0 /\ sock[t] \notin sopen
        /\ Close(fd)
        /\ fd' = 0
        /\ Goto(t, "connect")
  /\ UNCHANGED <<mutex, made, accepted, req, rx, daemon, local, history>>

ResendLen(t) ==
  /\ pc[t] = "relen"
  /\ Goto(t, IF sock[t] \in sopen THEN "body" ELSE "failed")
  /\ UNCHANGED <<link, wire, daemon, local, history>>

SendBody(t) ==
  /\ pc[t] = "body"
  /\ \/ /\ sock[t] \in sopen
        /\ req' = [req EXCEPT ![sock[t]] = Qid(t)]
        /\ ret' = [ret EXCEPT ![t] = "sent"]
        /\ Goto(t, "ret")
     \/ /\ sock[t] \notin sopen
        /\ Goto(t, "failed")
        /\ UNCHANGED <<req, ret>>
  /\ UNCHANGED <<link, made, copen, sopen, accepted, rx, daemon, op, calls,
                 sock, tries, count, got, history>>

\* Mistake: the link is closed but nbd_link.fd keeps the descriptor.
SendFailedNoReset(t) ==
  /\ pc[t] = "failed"
  /\ Close(fd)
  /\ mutex' = None
  /\ ret' = [ret EXCEPT ![t] = "err"]
  /\ Goto(t, "idle")
  /\ UNCHANGED <<fd, made, accepted, req, rx, daemon, op, calls, sock, tries,
                 count, got, history>>

\* Mistake: the error path returns without unlocking.
SendFailedNoUnlock(t) ==
  /\ pc[t] = "failed"
  /\ Close(fd)
  /\ fd' = 0
  /\ ret' = [ret EXCEPT ![t] = "err"]
  /\ Goto(t, "idle")
  /\ UNCHANGED <<mutex, made, accepted, req, rx, daemon, op, calls, sock, tries,
                 count, got, history>>

\* nbd_query_send returned -1: close the link, unlock, return.
SendFailed(t) ==
  /\ pc[t] = "failed"
  /\ Close(fd)
  /\ fd' = 0
  /\ mutex' = None
  /\ ret' = [ret EXCEPT ![t] = "err"]
  /\ Goto(t, "idle")
  /\ UNCHANGED <<made, accepted, req, rx, daemon, op, calls, sock, tries,
                 count, got, history>>

-----------------------------------------------------------------------------
(* nbd_query_receive and nbd_query_receive_new                             *)

\* Unlock and return r.
Return(t, r) ==
  /\ mutex' = None
  /\ ret' = [ret EXCEPT ![t] = r]
  /\ Goto(t, "idle")

\* A read that cannot be served: the daemon's end is closed.
Ended(c) == rx[c] = <<>> /\ c \notin sopen

\* Consume the first n units of the link.
Take(t, n) ==
  /\ rx' = [rx EXCEPT ![fd] = SubSeq(@, n + 1, Len(@))]
  /\ got' = [got EXCEPT ![t] = @ \cup {<<fd, rx[fd][i].q>> : i \in 1 .. n}]

\* On a read error nbd_query returns -1, nbd_query_new the result of the write.
ReadError(t) == Return(t, IF op[t] = "query" THEN "err" ELSE ret[t])

RecvRet(t) ==
  /\ pc[t] = "ret"
  /\ \/ /\ rx[fd] # <<>>
        /\ Take(t, 1)
        /\ ret' = [ret EXCEPT ![t] = "answer"]
        /\ Goto(t, "count")
        /\ UNCHANGED mutex
     \/ /\ Ended(fd)
        /\ Goto(t, "count") /\ UNCHANGED <<mutex, ret>>
        /\ UNCHANGED <<rx, got>>
     \/ /\ Ended(fd)
        /\ ReadError(t)
        /\ UNCHANGED <<rx, got>>
  /\ UNCHANGED <<fd, made, copen, sopen, accepted, req, daemon, op, calls,
                 sock, tries, count, history>>

\* A unit that is no count, or no unit at all, gives an arbitrary count.
RecvCount(t) ==
  /\ pc[t] = "count"
  /\ \/ /\ rx[fd] # <<>>
        /\ Take(t, 1)
        /\ \E n \in 0 .. MaxCount :
             /\ Head(rx[fd]).k = "count" => n = Head(rx[fd]).v
             /\ count' = [count EXCEPT ![t] = n]
        /\ Goto(t, "data")
        /\ UNCHANGED <<mutex, ret>>
     \/ /\ Ended(fd)
        /\ \E n \in 0 .. MaxCount : count' = [count EXCEPT ![t] = n]
        /\ Goto(t, "data")
        /\ UNCHANGED <<mutex, ret, rx, got>>
     \/ /\ Ended(fd)
        /\ ReadError(t)
        /\ UNCHANGED <<rx, got, count>>
  /\ UNCHANGED <<fd, made, copen, sopen, accepted, req, daemon, op, calls,
                 sock, tries, history>>

\* full_read of count units: all of them, or what is left of a dead link.
ReadData(t) ==
  \/ Len(rx[fd]) >= count[t] /\ Take(t, count[t])
  \/ Len(rx[fd]) < count[t] /\ fd \notin sopen /\ Take(t, Len(rx[fd]))

\* The data stays on the link.
LeaveData ==
  /\ dirty' = dirty \cup {fd}
  /\ UNCHANGED <<rx, got>>

\* Mistake: an answer larger than the buffer is refused without being drained.
RecvDataNoDrain(t) ==
  /\ pc[t] = "data"
  /\ op[t] = "query"
  /\ \/ count[t] > BufLen /\ Return(t, "err") /\ UNCHANGED <<rx, got>>
     \/ count[t] <= BufLen /\ ReadData(t) /\ Return(t, ret[t])
  /\ UNCHANGED <<fd, made, copen, sopen, accepted, req, daemon, op, calls, sock,
                 tries, count, history>>

RecvData(t) ==
  /\ pc[t] = "data"
  /\ op[t] = "query"
  /\ \/ /\ count[t] > BufLen /\ count[t] < DropMax
        /\ ReadData(t) /\ Return(t, "err") /\ UNCHANGED dirty
     \/ /\ count[t] > BufLen /\ count[t] >= DropMax
        /\ LeaveData /\ Return(t, "err")
     \/ /\ count[t] <= BufLen
        /\ ReadData(t) /\ Return(t, ret[t]) /\ UNCHANGED dirty
  /\ UNCHANGED <<fd, made, copen, sopen, accepted, req, daemon, op, calls,
                 sock, tries, count, lost>>

RecvDataNew(t) ==
  /\ pc[t] = "data"
  /\ op[t] = "new"
  /\ \/ MallocFails /\ count[t] > 0 /\ LeaveData
     \/ ReadData(t) /\ UNCHANGED dirty
  /\ Return(t, ret[t])
  /\ UNCHANGED <<fd, made, copen, sopen, accepted, req, daemon, op, calls,
                 sock, tries, count, lost>>

-----------------------------------------------------------------------------
(* The daemon (external): accepts, answers in order, may crash and restart *)

Accept(c) ==
  /\ up
  /\ c \in sopen \ accepted
  /\ accepted' = accepted \cup {c}
  /\ \E k \in {"ack", "nak"} :
       rx' = [rx EXCEPT ![c] = Append(@, Unit(NoQuery, k, 0))]
  /\ UNCHANGED <<link, made, copen, sopen, req, daemon, pc, local, history>>

Serve(c) ==
  /\ up
  /\ c \in sopen
  /\ req[c] # NoQuery
  /\ \E n \in 0 .. MaxCount : rx' = [rx EXCEPT ![c] = @ \o Answer(req[c], n)]
  /\ req' = [req EXCEPT ![c] = NoQuery]
  /\ UNCHANGED <<link, made, copen, sopen, accepted, daemon, pc, local,
                 history>>

\* The daemon dies, possibly in the middle of an answer.
Crash ==
  /\ up
  /\ crashes < MaxCrashes
  /\ up' = FALSE
  /\ crashes' = crashes + 1
  /\ sopen' = {}
  /\ accepted' = accepted \cup sopen
  /\ req' = [c \in Conns |-> NoQuery]
  /\ \/ UNCHANGED rx
     \/ \E c \in sopen, n \in 0 .. MaxCount :
          /\ req[c] # NoQuery
          /\ \E k \in 1 .. n + 1 :
               rx' = [rx EXCEPT ![c] = @ \o SubSeq(Answer(req[c], n), 1, k)]
  /\ UNCHANGED <<link, made, copen, pc, local, history>>

Restart ==
  /\ ~up
  /\ up' = TRUE
  /\ UNCHANGED <<link, wire, crashes, pc, local, history>>

-----------------------------------------------------------------------------

Step(t) ==
  \/ OpenLock(t) \/ Connect(t) \/ ReadAck(t) \/ QueryLock(t) \/ SendLen(t)
  \/ ResendLen(t) \/ SendBody(t) \/ SendFailed(t) \/ RecvRet(t) \/ RecvCount(t)
  \/ RecvData(t) \/ RecvDataNew(t)

Next ==
  \/ \E t \in Threads :
       \/ Open(t) \/ CloseLink(t) \/ Step(t)
       \/ \E o \in {"query", "new"} : Query(t, o)
  \/ \E c \in Conns : Accept(c) \/ Serve(c)
  \/ Crash
  \/ Restart

\* Threads run; a running daemon accepts and answers.  Nothing restarts it.
Fairness ==
  /\ \A t \in Threads : WF_vars(Step(t))
  /\ \A c \in Conns : WF_vars(Accept(c)) /\ WF_vars(Serve(c))

Spec == Init /\ [][Next]_vars
FairSpec == Spec /\ Fairness

-----------------------------------------------------------------------------
Sending == {"len", "relen", "body"}
Receiving == {"ret", "count", "data"}
Locked == {"connect", "ack", "failed"} \cup Sending \cup Receiving
Pcs == Locked \cup {"idle", "olock", "qlock"}

LinkType == mutex \in Threads \cup {None} /\ fd \in Conns \cup {0}
WireType ==
  /\ made \in 0 .. MaxConn
  /\ copen \subseteq Conns /\ sopen \subseteq Conns /\ accepted \subseteq Conns
  /\ req \in [Conns -> Queries]
  /\ rx \in [Conns -> Seq(Units)]
DaemonType == up \in BOOLEAN /\ crashes \in Nat
CallType ==
  /\ pc \in [Threads -> Pcs]
  /\ op \in [Threads -> {"open", "close", "query", "new"}]
  /\ calls \in [Threads -> 0 .. MaxCalls]
  /\ sock \in [Threads -> Conns \cup {0}]
  /\ tries \in [Threads -> Nat]
  /\ ret \in [Threads -> Rets]
  /\ count \in [Threads -> Nat]
HistoryType ==
  /\ got \in [Threads -> SUBSET (Conns \X Queries)]
  /\ dirty \subseteq Conns /\ lost \subseteq Conns

TypeOK == LinkType /\ WireType /\ DaemonType /\ CallType /\ HistoryType

\* The mutex is held exactly by the thread between lock and unlock.
MutexInv == \A t \in Threads : pc[t] \in Locked <=> mutex = t

\* nbd_link.fd never names a descriptor the process has closed, a query writes
\* and reads on the link, not on a connection replaced by a reopen, and the
\* link is reopened only once it is closed.
LinkInv ==
  /\ fd # 0 => fd \in copen
  /\ \A t \in Threads :
       /\ pc[t] \in Sending \cup Receiving => sock[t] = fd
       /\ pc[t] \in Receiving => fd # 0
       /\ pc[t] = "ack" => sock[t] \in copen
       /\ pc[t] = "olock" => op[t] = "open"
       /\ pc[t] \in {"connect", "ack"} /\ op[t] # "open" => fd = 0

\* A connection that is not made yet has nothing on it.
FreshInv ==
  /\ copen \cup sopen \cup accepted \subseteq 1 .. made
  /\ \A c \in Conns : c > made => rx[c] = <<>> /\ req[c] = NoQuery

\* A connection being opened has at most the greeting on it.
GreetInv ==
  \A t \in Threads : pc[t] = "ack" =>
    /\ req[sock[t]] = NoQuery
    /\ Len(rx[sock[t]]) <= IF sock[t] \in accepted THEN 1 ELSE 0

\* The n units there should be, or what a dead daemon has sent of them.
Whole(n) == Len(rx[fd]) = n \/ (Len(rx[fd]) < n /\ fd \notin sopen)

\* What is on the link is the rest of the answer to the query of t.
AnswerDue(t) ==
  LET s == rx[fd] IN
  /\ \A i \in 1 .. Len(s) : s[i].q = Qid(t)
  /\ pc[t] = "ret" =>
       /\ req[fd] = NoQuery \/ (req[fd] = Qid(t) /\ s = <<>>)
       /\ Len(s) > 1 => s[2].k = "count" /\ Whole(s[2].v + 2)
  /\ pc[t] = "count" =>
       /\ req[fd] = NoQuery
       /\ Len(s) > 0 => s[1].k = "count" /\ Whole(s[1].v + 1)
  /\ pc[t] = "data" => req[fd] = NoQuery /\ Whole(count[t])

\* Between two queries the link is empty, and in a query it has the answer on
\* it, unless an earlier query left data.
CleanInv ==
  fd # 0 =>
    /\ fd \notin sopen => req[fd] = NoQuery
    /\ fd \notin dirty =>
         /\ fd \in accepted
         /\ \/ rx[fd] = <<>> /\ req[fd] = NoQuery
            \/ \E t \in Threads : pc[t] \in Receiving
         /\ \A t \in Threads : pc[t] \in Receiving => AnswerDue(t)

StreamInv == FreshInv /\ GreetInv /\ CleanInv

IInv == TypeOK /\ MutexInv /\ LinkInv /\ StreamInv

\* A call reads bytes of its own answer only, unless it reads from a connection
\* on which an earlier query left data (an answer too large to be drained, or a
\* failed malloc).
OwnAnswer ==
  \A t \in Threads : \A g \in got[t] : g[2] = Qid(t) \/ g[1] \in dirty

\* The process holds no connection but the link, the one being opened, and the
\* links lost to nbd_open's unlocked test: reopening after a crash, a refusal or
\* a failed query leaks nothing.
NoLeak ==
  \A c \in copen \ lost :
    c = fd \/ \E t \in Threads : pc[t] = "ack" /\ sock[t] = c

\* "return: 0: success -1: failure": a query that read no return code from the
\* daemon reports a failure.
ReturnDocumented == \A t \in Threads : pc[t] = "idle" => ret[t] # "sent"

\* Every call returns, whether the daemon answers, crashes or stays down, unless
\* an earlier query has left data on the link (its bytes are then taken for a
\* count, and the call waits for data that was never sent).
CallsReturn ==
  \A t \in Threads : pc[t] # "idle" ~> pc[t] = "idle" \/ dirty # {}
=============================================================================
