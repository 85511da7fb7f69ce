--------------------------- MODULE ConnectionPool ---------------------------
(***************************************************************************)
(* The connections of a pool (ThinClientPoolDM, ConnectionQueue): the      *)
(* threads that send requests, the ones that send to a given endpoint, and *)
(* the thread that manages the connections, over the queue of idle         *)
(* connections and the counter m_poolSize.                                 *)
(*                                                                         *)
(* A connection is known by the server it goes to.  What holds mutex_ is   *)
(* one step, and so is what a thread does with a connection of its own;    *)
(* reading m_poolSize and changing it are different steps.                 *)
(***************************************************************************)
EXTENDS Integers, Sequences, FiniteSets

CONSTANTS Servers,         \* endpoints of the pool
          Threads,         \* threads that send requests
          MinConnections, MaxConnections,
          retryAllEPsOnce, \* RetryAttempts is -1: every server once
          RetryAttempts,
          Hosted,          \* servers with isQueueHosted
          MaxBusy,         \* bound: threads at work at the same time
          MaxReauth,       \* bound: replies that ask for authentication
          MaxSlips,        \* bound: steps that leave m_poolSize wrong
          None

ASSUME PoolAssumption ==
  /\ IsFiniteSet(Threads)
  /\ Servers # {} /\ IsFiniteSet(Servers) /\ None \notin Servers
  /\ Hosted \subseteq Servers
  /\ MinConnections \in Nat
  /\ MaxConnections \in Nat
  /\ RetryAttempts \in Nat /\ retryAllEPsOnce \in BOOLEAN
  /\ MaxBusy \in Nat /\ MaxReauth \in Nat /\ MaxSlips \in Nat

VARIABLES queue_,      \* idle connections, the front first
          closed_,
          m_poolSize,
          thr,         \* what each thread is doing
          notified,    \* waiting threads that condition_ has woken
          mgr,         \* what the thread of manageConnections is doing
          running,     \* isRunning of that thread
          slips        \* steps so far that left m_poolSize wrong

vars == <<queue_, closed_, m_poolSize, thr, notified, mgr, running, slips>>

-----------------------------------------------------------------------------

(* The limit createPoolConnection works with.                              *)
Limit == IF MaxConnections > MinConnections THEN MaxConnections
         ELSE MinConnections

Ops == {"request", "endpoint"}

(* conn: server of the connection in hand.  pooled: it is counted in       *)
(* m_poolSize.  err: no connection could be made.  tried: the number of    *)
(* excluded servers when the attempt began.  A negative number of retries  *)
(* is kept as -1.                                                          *)
ThreadStates ==
  [pc : {"idle", "getFromEP", "checkEP", "connectEP", "temporary", "pop",
         "check", "connect", "wait", "asleep", "noConn", "send", "purge",
         "drop", "retry"},
   op : Ops, target : Servers \cup {None}, conn : Servers \cup {None},
   pooled : BOOLEAN, exclude : SUBSET Servers, tried : 0..Cardinality(Servers),
   retries : -1..(RetryAttempts + 1), auth : 0..MaxReauth, isClosed : BOOLEAN,
   err : BOOLEAN]

Idle == [pc |-> "idle", op |-> "request", target |-> None, conn |-> None,
         pooled |-> TRUE, exclude |-> {}, tried |-> 0, retries |-> 0,
         auth |-> 0, isClosed |-> FALSE, err |-> FALSE]

(* The managing thread: connections still to look at, how many more should *)
(* be kept, those to remove, the one in hand and one more, servers to leave out.    *)
ManagerStates ==
  [pc : {"idle", "scan", "judge", "probe", "remove", "replace", "putNew",
         "dropOld", "noNew", "restore", "restoreOne"},
   left : Nat, replaceCount : 0..MinConnections, list : Seq(Servers), conn : Servers \cup {None},
   other : Servers \cup {None}, exclude : SUBSET Servers]

IdleManager == [pc |-> "idle", left |-> 0, replaceCount |-> 0, list |-> <<>>,
                conn |-> None, other |-> None, exclude |-> {}]

(* Where a thread wants a connection to its target.                        *)
Directed == {"getFromEP", "checkEP", "connectEP", "temporary"}

(* Where a connection is in hand.                                          *)
Holding == {"send", "purge", "drop"}
ManagerHolding == {"judge", "probe", "replace", "putNew", "dropOld", "noNew"}

(* Threads at work, the managing one included.                             *)
Busy == Cardinality({t \in Threads : thr[t].pc # "idle"})
        + (IF mgr.pc = "idle" THEN 0 ELSE 1)

-----------------------------------------------------------------------------
(* ConnectionQueue.                                                        *)

Last(q) == q[Len(q)]
Front(q) == SubSeq(q, 1, Len(q) - 1)
RemoveAt(q, i) == SubSeq(q, 1, i - 1) \o SubSeq(q, i + 1, Len(q))

Sleepers == {t \in Threads : thr[t].pc = "asleep"} \ notified

(* condition_.notify_one                                                   *)
NotifyOne ==
  IF Sleepers = {} THEN UNCHANGED notified
  ELSE \E w \in Sleepers : notified' = notified \cup {w}

(* Mutant: nobody is woken.                                                *)
putNoNotify(conn) ==
  /\ queue_' = IF closed_ THEN queue_ ELSE <<conn>> \o queue_
  /\ UNCHANGED notified

(* Mutant: a closed queue takes the connection.                            *)
putOpen(conn) ==
  /\ queue_' = <<conn>> \o queue_
  /\ NotifyOne

(* put: a closed queue deletes the connection.                             *)
put(conn) ==
  /\ queue_' = IF closed_ THEN queue_ ELSE <<conn>> \o queue_
  /\ NotifyOne

(* getFromEP takes the first connection to the server, from the front.     *)
First(ep, i) == queue_[i] = ep /\ \A j \in 1..(i - 1) : queue_[j] # ep

HasEP(ep) == \E i \in DOMAIN queue_ : queue_[i] = ep

-----------------------------------------------------------------------------
(* sendSyncRequest and sendRequestToEP.                                    *)

Becomes(t, s) == thr' = [thr EXCEPT ![t] = s]
At(t, pc) == [thr[t] EXCEPT !.pc = pc]

(* A new attempt: theEP if the server is not excluded.                     *)
Attempt(s) ==
  [s EXCEPT !.pc = IF s.target # None /\ s.target \notin s.exclude
                   THEN "getFromEP" ELSE "pop",
            !.tried = Cardinality(s.exclude), !.err = FALSE, !.conn = None,
            !.isClosed = FALSE,
            !.retries = IF retryAllEPsOnce \/ @ < 0 THEN @ ELSE @ - 1]

(* A connection to the server is in hand.                                  *)
With(s, ep) == [s EXCEPT !.pc = "send", !.conn = ep, !.isClosed = FALSE,
                         !.err = FALSE]

(* The condition of the loop.                                              *)
MoreRetries(s) == retryAllEPsOnce \/ s.retries # 0

Begin(t, target) ==
  /\ thr[t].pc = "idle" /\ Busy < MaxBusy
  /\ Becomes(t, Attempt([Idle EXCEPT !.target = target,
                                     !.retries = RetryAttempts + 1]))
  /\ UNCHANGED <<queue_, closed_, m_poolSize, notified, mgr, running, slips>>

(* sendRequestToEP                                                         *)
BeginToEP(t, ep) ==
  /\ thr[t].pc = "idle" /\ Busy < MaxBusy
  /\ Becomes(t, [Idle EXCEPT !.pc = "getFromEP", !.op = "endpoint",
                             !.target = ep])
  /\ UNCHANGED <<queue_, closed_, m_poolSize, notified, mgr, running, slips>>

getFromEP(t) ==
  /\ thr[t].pc = "getFromEP"
  /\ \/ \E i \in DOMAIN queue_ :
          /\ First(thr[t].target, i)
          /\ queue_' = RemoveAt(queue_, i)
          /\ Becomes(t, With(thr[t], thr[t].target))
     \/ /\ ~HasEP(thr[t].target)
        /\ Becomes(t, At(t, "checkEP"))
        /\ UNCHANGED queue_
  /\ UNCHANGED <<closed_, m_poolSize, notified, mgr, running, slips>>

(* Where a thread goes that has no connection to its endpoint.             *)
Elsewhere(t) == IF thr[t].op = "request" THEN "pop" ELSE "temporary"

(* Mutant: the limit is not looked at.                                     *)
CheckEPNoLimit(t) ==
  /\ thr[t].pc = "checkEP"
  /\ Becomes(t, At(t, "connectEP"))
  /\ UNCHANGED <<queue_, closed_, m_poolSize, notified, mgr, running, slips>>

(* createPoolConnectionToAEndPoint: the limit, then the connection.        *)
CheckEP(t) ==
  /\ thr[t].pc = "checkEP"
  /\ Becomes(t, At(t, IF m_poolSize >= Limit THEN Elsewhere(t)
                      ELSE "connectEP"))
  /\ UNCHANGED <<queue_, closed_, m_poolSize, notified, mgr, running, slips>>

ConnectEP(t) ==
  /\ thr[t].pc = "connectEP"
  /\ \/ /\ Becomes(t, With(thr[t], thr[t].target))
        /\ m_poolSize' = m_poolSize + 1
     \/ /\ Becomes(t, At(t, Elsewhere(t)))
        /\ UNCHANGED m_poolSize
     \/ /\ thr[t].op = "request"       \* GF_CLIENT_WAIT_TIMEOUT
        /\ Becomes(t, Idle)
        /\ UNCHANGED m_poolSize
  /\ UNCHANGED <<queue_, closed_, notified, mgr, running, slips>>

(* sendRequestToEP makes a connection that does not belong to the pool.    *)
Temporary(t) ==
  /\ thr[t].pc = "temporary"
  /\ \/ Becomes(t, [With(thr[t], thr[t].target) EXCEPT !.pooled = FALSE])
     \/ Becomes(t, Idle)
  /\ UNCHANGED <<queue_, closed_, m_poolSize, notified, mgr, running, slips>>

(* getNoGetLock: connections are popped from the back; those to excluded   *)
(* servers are deleted.                                                    *)
Pop(t) ==
  /\ thr[t].pc = "pop"
  /\ \/ /\ closed_
        /\ Becomes(t, [At(t, "check") EXCEPT !.isClosed = TRUE])
        /\ UNCHANGED <<queue_, m_poolSize>>
     \/ /\ ~closed_
        /\ \E i \in DOMAIN queue_ :
             /\ queue_[i] \notin thr[t].exclude
             /\ \A j \in (i + 1)..Len(queue_) : queue_[j] \in thr[t].exclude
             /\ queue_' = SubSeq(queue_, 1, i - 1)
             /\ m_poolSize' = m_poolSize - (Len(queue_) - i)
             /\ Becomes(t, With(thr[t], queue_[i]))
     \/ /\ ~closed_
        /\ \A i \in DOMAIN queue_ : queue_[i] \in thr[t].exclude
        /\ queue_' = <<>>
        /\ m_poolSize' = m_poolSize - Len(queue_)
        /\ Becomes(t, At(t, "check"))
  /\ UNCHANGED <<closed_, notified, mgr, running, slips>>

(* createPoolConnection: the limit, and the loop over the servers.         *)
NoConnection(t) == IF thr[t].isClosed THEN "noConn" ELSE "wait"

Check(t) ==
  /\ thr[t].pc = "check"
  /\ Becomes(t, At(t, IF m_poolSize >= Limit THEN NoConnection(t)
                      ELSE "connect"))
  /\ UNCHANGED <<queue_, closed_, m_poolSize, notified, mgr, running, slips>>

Connect(t) ==
  /\ thr[t].pc = "connect"
  /\ \/ \E ep \in Servers \ thr[t].exclude :
          \/ /\ Becomes(t, With(thr[t], ep))
             /\ m_poolSize' = m_poolSize + 1
          \/ /\ Becomes(t, [thr[t] EXCEPT !.exclude = @ \cup {ep}])
             /\ UNCHANGED m_poolSize
     \/ \* no endpoint is left, the locators fail, or a fatal error
        /\ Becomes(t, [At(t, NoConnection(t)) EXCEPT !.err = TRUE])
        /\ UNCHANGED m_poolSize
  /\ UNCHANGED <<queue_, closed_, notified, mgr, running, slips>>

(* popNoLock after the wait; the servers to exclude are not looked at.     *)
WakeUp(t) ==
  /\ notified' = notified \ {t}
  /\ IF closed_ \/ queue_ = <<>>
     THEN /\ Becomes(t, At(t, "noConn"))
          /\ UNCHANGED queue_
     ELSE /\ Becomes(t, With(thr[t], Last(queue_)))
          /\ queue_' = Front(queue_)

(* getLockedFor                                                            *)
Wait(t) ==
  /\ thr[t].pc = "wait"
  /\ IF closed_ \/ queue_ # <<>> THEN WakeUp(t)
     ELSE /\ Becomes(t, At(t, "asleep"))
          /\ UNCHANGED <<queue_, notified>>
  /\ UNCHANGED <<closed_, m_poolSize, mgr, running, slips>>

(* A thread that is woken and finds nothing waits again.                   *)
Wake(t) ==
  /\ thr[t].pc = "asleep" /\ t \in notified
  /\ IF closed_ \/ queue_ # <<>> THEN WakeUp(t)
     ELSE notified' = notified \ {t} /\ UNCHANGED <<thr, queue_>>
  /\ UNCHANGED <<closed_, m_poolSize, mgr, running, slips>>

Timeout(t) ==
  /\ thr[t].pc = "asleep"
  /\ WakeUp(t)
  /\ UNCHANGED <<closed_, m_poolSize, mgr, running, slips>>

(* No connection: all are in use, or the attempt has failed.               *)
NoConn(t) ==
  /\ thr[t].pc = "noConn"
  /\ Becomes(t, IF thr[t].err THEN At(t, "retry") ELSE Idle)
  /\ UNCHANGED <<queue_, closed_, m_poolSize, notified, mgr, running, slips>>

(* The server has answered: the connection goes back to the pool; one that *)
(* was made for this request is closed.                                    *)
Answered(t) ==
  /\ thr[t].pc = "send"
  /\ IF thr[t].pooled THEN put(thr[t].conn) ELSE UNCHANGED <<queue_, notified>>
  /\ Becomes(t, Idle)
  /\ UNCHANGED <<closed_, m_poolSize, mgr, running, slips>>

(* The reply asks for authentication: the request is sent again, up to     *)
(* isAuthRequireExcepMaxTry times if no retries are left.                  *)
Reauth(t) ==
  /\ thr[t].pc = "send" /\ thr[t].auth < MaxReauth
  /\ IF thr[t].pooled THEN put(thr[t].conn) ELSE UNCHANGED <<queue_, notified>>
  /\ LET more == thr[t].auth < 2
         next == [thr[t] EXCEPT !.auth = @ + 1]
     IN Becomes(t,
          IF thr[t].op = "request" /\ (more \/ MoreRetries(next))
          THEN Attempt(next)
          ELSE IF thr[t].op = "endpoint" /\ more
          THEN [next EXCEPT !.pc = "getFromEP", !.conn = None, !.pooled = TRUE]
          ELSE Idle)
  /\ UNCHANGED <<closed_, m_poolSize, mgr, running, slips>>

(* The request has failed.  After an error other than a timeout the idle   *)
(* connections to the server are removed too.                              *)
Failed(t, timeout) ==
  /\ thr[t].pc = "send"
  /\ Becomes(t, At(t, IF thr[t].op = "request" /\ ~timeout THEN "purge"
                      ELSE "drop"))
  /\ UNCHANGED <<queue_, closed_, m_poolSize, notified, mgr, running, slips>>

(* The connection goes to the pool, one that was made for this request     *)
(* too, which nobody counts.                                               *)
PutBack(t) ==
  /\ IF thr[t].pooled THEN UNCHANGED slips
     ELSE slips < MaxSlips /\ slips' = slips + 1
  /\ put(thr[t].conn)

(* The server refuses the credentials (isServerException).                 *)
Refused(t) ==
  /\ thr[t].pc = "send"
  /\ PutBack(t)
  /\ Becomes(t, Idle)
  /\ UNCHANGED <<closed_, m_poolSize, mgr, running>>

(* sendRequestToEP finds no credentials.                                   *)
NoCredentials(t) ==
  /\ thr[t].pc = "send" /\ thr[t].op = "endpoint"
  /\ PutBack(t)
  /\ Becomes(t, Idle)
  /\ UNCHANGED <<closed_, m_poolSize, mgr, running>>

(* A reply to the credentials that is neither: the connection is put in    *)
(* the pool, and then the request fails with it.                           *)
UnknownReply(t) ==
  /\ thr[t].pc = "send"
  /\ slips < MaxSlips /\ slips' = slips + 1
  /\ put(thr[t].conn)
  /\ Becomes(t, At(t, IF thr[t].op = "request" THEN "purge" ELSE "drop"))
  /\ UNCHANGED <<closed_, m_poolSize, mgr, running>>

(* f gives the places of the connections to other servers, in order.       *)
Others(ep, f, k) ==
  /\ \A m, n \in 1..k : m < n => f[m] < f[n]
  /\ {f[n] : n \in 1..k} = {i \in DOMAIN queue_ : queue_[i] # ep}

(* Mutant: the connections that are removed stay counted.                  *)
PurgeKeepCount(t) ==
  /\ thr[t].pc = "purge"
  /\ \E k \in 0..Len(queue_) : \E f \in [1..k -> DOMAIN queue_] :
       /\ Others(thr[t].conn, f, k)
       /\ queue_' = [n \in 1..k |-> queue_[f[n]]]
  /\ Becomes(t, At(t, "drop"))
  /\ UNCHANGED <<closed_, m_poolSize, notified, mgr, running, slips>>

(* removeEPConnections(ep)                                                 *)
Purge(t) ==
  /\ thr[t].pc = "purge"
  /\ \E k \in 0..Len(queue_) : \E f \in [1..k -> DOMAIN queue_] :
       /\ Others(thr[t].conn, f, k)
       /\ queue_' = [n \in 1..k |-> queue_[f[n]]]
       /\ m_poolSize' = m_poolSize - (Len(queue_) - k)
  /\ Becomes(t, At(t, "drop"))
  /\ UNCHANGED <<closed_, notified, mgr, running, slips>>

(* The connection is deleted, and the server left out of the next attempt. *)
Drop(t) ==
  /\ thr[t].pc = "drop"
  /\ m_poolSize' = IF thr[t].pooled THEN m_poolSize - 1 ELSE m_poolSize
  /\ Becomes(t, IF thr[t].op = "endpoint" THEN Idle
                ELSE [At(t, "retry") EXCEPT !.conn = None,
                                       !.exclude = @ \cup {thr[t].conn}])
  /\ UNCHANGED <<queue_, closed_, notified, mgr, running, slips>>

(* Mutant: a request goes on when no new server was excluded.              *)
RetryForEver(t, ends) ==
  /\ thr[t].pc = "retry"
  /\ LET same == Cardinality(thr[t].exclude) = thr[t].tried
         next == [thr[t] EXCEPT !.exclude = IF same THEN {} ELSE @]
     IN Becomes(t, IF ~ends /\ MoreRetries(next) THEN Attempt(next) ELSE Idle)
  /\ UNCHANGED <<queue_, closed_, m_poolSize, notified, mgr, running, slips>>

(* The end of an attempt that failed.  ends: no failover is attempted.     *)
Retry(t, ends) ==
  /\ thr[t].pc = "retry"
  /\ LET same == Cardinality(thr[t].exclude) = thr[t].tried
         next == [thr[t] EXCEPT !.exclude = IF same THEN {} ELSE @]
     IN Becomes(t, IF ~ends /\ MoreRetries(next) /\ ~(retryAllEPsOnce /\ same)
                   THEN Attempt(next) ELSE Idle)
  /\ UNCHANGED <<queue_, closed_, m_poolSize, notified, mgr, running, slips>>

-----------------------------------------------------------------------------
(* manageConnections: cleanStaleConnections, then restoreMinConnections.   *)

others == <<closed_, thr, running, slips>>

Manage ==
  /\ mgr.pc = "idle" /\ running /\ Busy < MaxBusy
  /\ mgr' = [IdleManager EXCEPT !.pc = "scan", !.left = Len(queue_),
                                !.replaceCount = MinConnections]
  /\ UNCHANGED <<queue_, m_poolSize, notified, others>>

(* getNoWait, as often as there were connections.                          *)
Scan ==
  /\ mgr.pc = "scan"
  /\ IF mgr.left = 0 \/ ~running \/ closed_ \/ queue_ = <<>>
     THEN /\ mgr' = [mgr EXCEPT !.pc = "remove", !.left = 0]
          /\ UNCHANGED queue_
     ELSE /\ mgr' = [mgr EXCEPT !.pc = "judge", !.conn = Last(queue_),
                                !.left = @ - 1]
          /\ queue_' = Front(queue_)
  /\ UNCHANGED <<m_poolSize, notified, others>>

(* replaceCount-- (below zero it makes no difference)                      *)
OneLess == IF mgr.replaceCount > 0 THEN mgr.replaceCount - 1 ELSE 0

(* canItBeDeleted is false: too young, or the last connection to a server  *)
(* that hosts the queue of the client.                                     *)
Keep ==
  /\ mgr.pc = "judge"
  /\ put(mgr.conn)
  /\ mgr' = [mgr EXCEPT !.pc = "scan", !.conn = None, !.replaceCount = OneLess]
  /\ UNCHANGED <<m_poolSize, others>>

Listed == [mgr EXCEPT !.pc = "scan", !.conn = None,
                      !.list = Append(@, mgr.conn)]

(* canItBeDeleted is true, for an old connection, or for an idle one if    *)
(* there are more than the minimum.  For a server that hosts the queue     *)
(* another connection is taken out of the pool and put back.               *)
Delete(expired) ==
  /\ mgr.pc = "judge"
  /\ expired \/ m_poolSize > MinConnections
  /\ IF mgr.conn \in Hosted
     THEN /\ \E i \in DOMAIN queue_ : /\ First(mgr.conn, i)
                                      /\ queue_' = RemoveAt(queue_, i)
          /\ mgr' = [mgr EXCEPT !.pc = "probe", !.other = mgr.conn]
     ELSE mgr' = Listed /\ UNCHANGED queue_
  /\ UNCHANGED <<m_poolSize, notified, others>>

Probe ==
  /\ mgr.pc = "probe"
  /\ put(mgr.other)
  /\ mgr' = [Listed EXCEPT !.other = None]
  /\ UNCHANGED <<m_poolSize, others>>

(* The next connection of removelist.                                      *)
RemoveNext ==
  /\ mgr.pc = "remove"
  /\ IF mgr.list = <<>>
     THEN /\ mgr' = [IdleManager EXCEPT !.pc = "restore",
                                        !.left = 2 * MinConnections]
          /\ UNCHANGED m_poolSize
     ELSE LET next == [mgr EXCEPT !.list = Tail(@), !.replaceCount = OneLess,
                                  !.conn = Head(mgr.list)]
          IN IF mgr.replaceCount = 0
             THEN /\ mgr' = [next EXCEPT !.conn = None]
                  /\ m_poolSize' = m_poolSize - 1
             ELSE /\ mgr' = [next EXCEPT !.pc =
                               IF m_poolSize >= Limit THEN "noNew" ELSE "replace"]
                  /\ UNCHANGED m_poolSize
  /\ UNCHANGED <<queue_, notified, others>>

(* createPoolConnection for the connection in hand: the server is the      *)
(* same, or another one is connected to, or cannot be.                     *)
Replace ==
  /\ mgr.pc = "replace"
  /\ \/ /\ mgr.conn \notin mgr.exclude
        /\ put(mgr.conn)
        /\ mgr' = [mgr EXCEPT !.pc = "remove", !.conn = None]
        /\ UNCHANGED m_poolSize
     \/ /\ \E ep \in Servers \ (mgr.exclude \cup {mgr.conn}) :
             \/ /\ mgr' = [mgr EXCEPT !.pc = "putNew", !.other = ep]
                /\ m_poolSize' = m_poolSize + 1
             \/ /\ mgr' = [mgr EXCEPT !.exclude = @ \cup {ep}]
                /\ UNCHANGED m_poolSize
        /\ UNCHANGED <<queue_, notified>>
     \/ /\ mgr' = [mgr EXCEPT !.pc = "noNew"]
        /\ UNCHANGED <<queue_, notified, m_poolSize>>
  /\ UNCHANGED others

(* The new connection is in the pool before the old one is counted off.    *)
PutNew ==
  /\ mgr.pc = "putNew"
  /\ put(mgr.other)
  /\ mgr' = [mgr EXCEPT !.pc = "dropOld", !.other = None]
  /\ UNCHANGED <<m_poolSize, others>>

DropOld ==
  /\ mgr.pc \in {"dropOld", "noNew"}
  /\ m_poolSize' = m_poolSize - 1
  /\ mgr' = [mgr EXCEPT !.pc = "remove", !.conn = None]
  /\ UNCHANGED <<queue_, notified, others>>

(* Nothing new, and the old one has not expired.                           *)
KeepOld ==
  /\ mgr.pc = "noNew"
  /\ put(mgr.conn)
  /\ mgr' = [mgr EXCEPT !.pc = "remove", !.conn = None]
  /\ UNCHANGED <<m_poolSize, others>>

RestoreNext ==
  /\ mgr.pc = "restore"
  /\ mgr' = IF m_poolSize < MinConnections /\ mgr.left > 0 /\ running
            THEN [mgr EXCEPT !.pc = "restoreOne", !.left = @ - 1]
            ELSE IdleManager
  /\ UNCHANGED <<queue_, m_poolSize, notified, others>>

Restore ==
  /\ mgr.pc = "restoreOne"
  /\ IF mgr.conn # None
     THEN /\ put(mgr.conn)
          /\ mgr' = [mgr EXCEPT !.pc = "restore", !.conn = None]
          /\ UNCHANGED m_poolSize
     ELSE /\ \/ \E ep \in Servers \ mgr.exclude :
                  \/ /\ mgr' = [mgr EXCEPT !.conn = ep]
                     /\ m_poolSize' = m_poolSize + 1
                  \/ /\ mgr' = [mgr EXCEPT !.exclude = @ \cup {ep}]
                     /\ UNCHANGED m_poolSize
             \/ /\ mgr' = [mgr EXCEPT !.pc = "restore"]
                /\ UNCHANGED m_poolSize
          /\ UNCHANGED <<queue_, notified>>
  /\ UNCHANGED others

(* destroy: the managing thread is stopped and waited for, and the queue   *)
(* closed.                                                                 *)
Stop ==
  /\ running
  /\ running' = FALSE
  /\ UNCHANGED <<queue_, closed_, m_poolSize, thr, notified, mgr, slips>>

close ==
  /\ ~running /\ mgr.pc = "idle" /\ ~closed_
  /\ closed_' = TRUE
  /\ queue_' = <<>>
  /\ m_poolSize' = m_poolSize - Len(queue_)
  /\ notified' = {t \in Threads : thr[t].pc = "asleep"}
  /\ UNCHANGED <<thr, mgr, running, slips>>

-----------------------------------------------------------------------------

Init ==
  /\ queue_ = <<>> /\ closed_ = FALSE /\ m_poolSize = 0
  /\ thr = [t \in Threads |-> Idle] /\ notified = {}
  /\ mgr = IdleManager /\ running = TRUE /\ slips = 0

Work(t) ==
  \/ getFromEP(t) \/ CheckEP(t) \/ ConnectEP(t) \/ Temporary(t)
  \/ Pop(t) \/ Check(t) \/ Connect(t) \/ Wait(t) \/ Wake(t) \/ NoConn(t)
  \/ Answered(t) \/ Reauth(t) \/ Refused(t) \/ NoCredentials(t)
  \/ UnknownReply(t)
  \/ \E timeout \in BOOLEAN : Failed(t, timeout)
  \/ Purge(t) \/ Drop(t)
  \/ \E ends \in BOOLEAN : Retry(t, ends)

ManagerStep ==
  \/ Scan \/ Keep \/ Probe \/ RemoveNext \/ Replace \/ PutNew \/ DropOld
  \/ KeepOld \/ RestoreNext \/ Restore
  \/ \E expired \in BOOLEAN : Delete(expired)

Next ==
  \/ \E t \in Threads :
       \/ \E target \in Servers \cup {None} : Begin(t, target)
       \/ \E ep \in Servers : BeginToEP(t, ep)
       \/ Work(t) \/ Timeout(t)
  \/ Manage \/ ManagerStep \/ Stop \/ close

Spec == Init /\ [][Next]_vars

(* Threads run, waiting has an end, and a server answers or the request    *)
(* fails.                                                                  *)
Fairness ==
  /\ \A t \in Threads : WF_vars(Work(t)) /\ WF_vars(Timeout(t))
  /\ WF_vars(ManagerStep)

FairSpec == Spec /\ Fairness

-----------------------------------------------------------------------------
(* Properties.                                                             *)

HoldsWhileSending(s) ==
  /\ s.conn # None <=> s.pc \in Holding
  /\ s.op = "endpoint" \/ s.pc \in Directed => s.target # None
  /\ ~s.pooled => s.op = "endpoint" /\ s.pc \in Holding
  /\ s.pc = "temporary" => s.op = "endpoint"

(* The variables have their types, and each thread has a connection in     *)
(* hand exactly in the steps that send on it or delete it.                 *)
TypeOK ==
  /\ queue_ \in Seq(Servers)
  /\ closed_ \in BOOLEAN
  /\ m_poolSize \in Int
  /\ thr \in [Threads -> ThreadStates]
  /\ notified \subseteq {t \in Threads : thr[t].pc = "asleep"}
  /\ mgr \in ManagerStates
  /\ running \in BOOLEAN
  /\ slips \in 0..MaxSlips
  /\ \A t \in Threads : HoldsWhileSending(thr[t])
  /\ mgr.pc \in ManagerHolding => mgr.conn # None
  /\ mgr.conn # None => mgr.pc \in ManagerHolding \cup {"restoreOne"}
  /\ mgr.other # None <=> mgr.pc \in {"probe", "putNew"}

(* Connections that threads and the managing thread have in hand.          *)
InHand == Cardinality({t \in Threads : thr[t].conn # None /\ thr[t].pooled})

Managed == Len(mgr.list) + (IF mgr.conn = None THEN 0 ELSE 1)
                         + (IF mgr.other = None THEN 0 ELSE 1)

(* m_poolSize is the number of connections of the pool, idle and in use    *)
(* (ThinClientPoolDM.hpp:287).                                             *)
PoolSizeExact ==
  (slips = 0 /\ ~closed_) => m_poolSize = Len(queue_) + InHand + Managed

(* Requests that pass the check of the limit at the same time exceed it by *)
(* no more than their number, however often they try.                      *)
OvershootBounded == m_poolSize <= Limit + Cardinality(Threads)

(* No thread sleeps on while a connection for it is in the queue: a        *)
(* connection put back is taken by a woken thread or by another one.       *)
NoLostWakeup ==
  Sleepers # {} => /\ ~closed_
                   /\ Len(queue_) <= Cardinality(notified)

(* The queue stays empty once destroy has closed it.                       *)
ClosedIsEmpty == closed_ => queue_ = <<>>

(* Every request ends, with a reply or an error.                           *)
RequestsEnd == \A t \in Threads : thr[t].pc # "idle" ~> thr[t].pc = "idle"
=============================================================================
