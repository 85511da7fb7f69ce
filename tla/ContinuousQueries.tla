------------------------- MODULE ContinuousQueries -------------------------
(***************************************************************************)
(* The continuous queries (CQs) of a pool with subscriptions (CqQueryImpl, *)
(* CqService, RemoteQueryService) and the requests that start and end them *)
(* on the servers that hold the client's queues                            *)
(* (ThinClientRedundancyManager::sendSyncRequestCq).                       *)
(*                                                                         *)
(* Application threads create, execute, stop and close CQs; a lost server  *)
(* is replaced by another, on which the running CQs are executed again;    *)
(* the notification thread delivers events, one of which closes the CQ;    *)
(* the pool is destroyed.  Five kinds of locks are involved:               *)
(* m_redundantEndpointsLock, m_mutex of each CQ, the lock of m_cqQueryMap, *)
(* mutex_ of the query service and notification_semaphore_.                *)
(*                                                                         *)
(* maintainRedundancyLevel is reduced to what it does to the list of       *)
(* endpoints and to the CQs; module RedundancyManager has the rest.        *)
(***************************************************************************)
EXTENDS Integers, Sequences, FiniteSets, Functions

(* As in SequencesExt, of which nothing else is needed: every obligation   *)
(* of a proof carries all the definitions of the modules extended here.    *)
Last(s) == s[Len(s)]
Front(s) == SubSeq(s, 1, Len(s) - 1)

CONSTANTS Servers,
          m_redundancyLevel,
          Cqs,           \* CqQueryImpl objects
          Names,
          m_cqName,      \* the name of each object
          Threads,       \* application threads
          NoThread, NoCq,
          MIN_RETRY_ATTEMPTS,
          MaxOps,        \* bound: operations the application starts
          MaxFaults,     \* bound: servers that stop; those that
                         \* are down at the start count as one
          Races          \* the races below that are not ruled out

(* Four races the code loses (see README).  "closed": a CQ is executed     *)
(* while it is closed or after that.  "bulk": executeCqs, stopCqs or       *)
(* closeCqs runs at the same time as an operation of another thread, a     *)
(* change of the redundant endpoints or the end of the pool.  "destroy": a *)
(* CQ is executed while the pool is destroyed.  "name": a CQ is created    *)
(* while another of its name is stopped or closed, or after a stop that    *)
(* ended behind its close.                                                 *)
RaceNames == {"closed", "bulk", "destroy", "name"}

Redundancy == "redundancy"     \* the thread of ThinClientPoolHADM::redundancy
Receiver == "receiver"         \* the notification thread of the primary
AllThreads == Threads \cup {Redundancy, Receiver}

ASSUME CqAssumption ==
  /\ m_cqName \in [Cqs -> Names]
  /\ \A n \in Names : \E c \in Cqs : m_cqName[c] = n
  /\ NoCq \notin Cqs /\ NoThread \notin AllThreads
  /\ {Redundancy, Receiver} \cap Threads = {}
  /\ Cardinality(Servers) \in Nat
  /\ m_redundancyLevel \in Nat /\ MIN_RETRY_ATTEMPTS \in Nat \ {0}
  /\ MaxOps \in Nat /\ MaxFaults \in Nat
  /\ Races \subseteq RaceNames

VARIABLES m_cqState,
          m_cqQueryMap,
          m_cqService,       \* there is one
          m_running,
          m_destroyPending,
          m_redundantEndpoints,
          up,                \* the servers that run
          cqs,               \* the names of the CQs each server runs
          gone,              \* names of the CQs whose region is destroyed
          m_mutex,           \* the thread that holds it, per CQ
          mapLock,           \* the thread that holds the lock of m_cqQueryMap
          readers, writer,   \* the threads that hold mutex_
          semaphore,         \* the thread that holds notification_semaphore_
          send,              \* the holder of m_redundantEndpointsLock
          th,                \* what each thread does
          partial,           \* history: CQs executed while an endpoint was lost
          abandoned,         \* history: servers whose join was given up
          ops, faults

client == <<m_cqState, m_cqQueryMap, partial>>
service == <<m_cqService, m_running, m_destroyPending>>
servers == <<m_redundantEndpoints, up, cqs, gone>>
locks == <<m_mutex, mapLock, readers, writer, semaphore>>
bounds == <<ops, faults, abandoned>>
vars == <<client, service, servers, locks, send, th, bounds>>

-----------------------------------------------------------------------------

States == {"none", "STOPPED", "RUNNING", "CLOSING", "CLOSED"}

(* Every endpoint is in one of the two lists of the redundancy manager.    *)
attempts ==
  IF Cardinality(Servers) < MIN_RETRY_ATTEMPTS THEN MIN_RETRY_ATTEMPTS
  ELSE Cardinality(Servers)

Bulk == {"executeCqs", "stopCqs", "closeCqs"}

Ops == {"none", "newCq", "execute", "stop", "close", "destroy", "event",
        "destroyRegion"} \cup Bulk

Tasks ==
  [pc : {"idle", "exists", "add", "lock", "execute", "sent", "ran",
         "stop", "stopSend", "stopCheck", "stopSet",
         "close", "closingSet", "closeSend", "closedCheck",
         "closedSet", "remove", "next", "unlock",
         "shared", "mapLock", "unique", "drain",
         "acquire", "find", "running", "listener", "release"},
   op : Ops, cq : Cqs \cup {NoCq}, todo : SUBSET Cqs]

Idle == [pc |-> "idle", op |-> "none", cq |-> NoCq, todo |-> {}]

Sends ==
  [pc : {"free", "held", "attempt", "maintain", "join",
         "executeAllCqs", "recover", "primary"},
   by : AllThreads \cup {NoThread}, msg : {"none", "execute", "stop", "close"},
   todo : Seq(Servers), err : BOOLEAN, left : 0..attempts,
   tried : SUBSET Servers, had : BOOLEAN, snap : SUBSET Cqs]

Free == [pc |-> "free", by |-> NoThread, msg |-> "none", todo |-> <<>>,
         err |-> FALSE, left |-> 0, tried |-> {}, had |-> FALSE, snap |-> {}]

At(t, pc) == th[t].pc = pc
Goto(t, pc) == th' = [th EXCEPT ![t].pc = pc]

CanLock(lock, t) == lock \in {NoThread, t}
CanLockMap(t) == CanLock(mapLock, t)
CanLockCq(t) == CanLock(m_mutex[th[t].cq], t)
State(t) == m_cqState[th[t].cq]
SetState(t, state) == m_cqState' = [m_cqState EXCEPT ![th[t].cq] = state]

(* boost::shared_mutex: a thread that waits to write keeps others from     *)
(* reading.                                                                *)
CanRead == writer = NoThread /\ \A t \in Threads : ~At(t, "unique")

(* An operation on a CQ is over: it was called by the application, in a    *)
(* loop over several CQs, or for an event.                                 *)
After(r) ==
  CASE r.op \in Bulk \cup {"destroy"} -> [r EXCEPT !.pc = "next"]
    [] r.op = "destroyRegion" -> [r EXCEPT !.pc = "release"]
    [] OTHER -> Idle

Return(t) == th' = [th EXCEPT ![t] = After(@)]

(* It ends with an exception that the loops of CqService do not catch.     *)
Throw(t) ==
  th' = [th EXCEPT ![t] = IF @.op \in Bulk THEN [@ EXCEPT !.pc = "unlock"]
                          ELSE After(@)]

InMap == {m_cqQueryMap[n] : n \in Names} \ {NoCq}

-----------------------------------------------------------------------------
(* CqService::newCq, under mutex_.                                         *)

Exists(t) ==
  /\ At(t, "exists") /\ CanLockMap(t)
  /\ IF m_cqQueryMap[m_cqName[th[t].cq]] = NoCq
     THEN Goto(t, "add") /\ UNCHANGED readers
     ELSE th' = [th EXCEPT ![t] = Idle] /\ readers' = readers \ {t}
  /\ UNCHANGED <<client, service, servers, m_mutex, mapLock, writer,
                 semaphore, send, bounds>>

addCq(t) ==
  /\ At(t, "add") /\ CanLockMap(t)
  /\ LET n == m_cqName[th[t].cq]
     IN  IF m_cqQueryMap[n] = NoCq
         THEN /\ m_cqQueryMap' = [m_cqQueryMap EXCEPT ![n] = th[t].cq]
              /\ SetState(t, "STOPPED")
         ELSE UNCHANGED <<m_cqQueryMap, m_cqState>>
  /\ th' = [th EXCEPT ![t] = Idle]
  /\ readers' = readers \ {t}
  /\ UNCHANGED <<partial, service, servers, m_mutex, mapLock, writer,
                 semaphore, send, bounds>>

-----------------------------------------------------------------------------
(* CqQueryImpl::execute and executeWithInitialResults: the lock of the     *)
(* redundant endpoints, then m_mutex, both until the end.                  *)

LockRedundancy(t) ==
  /\ At(t, "lock") /\ send.pc = "free"
  /\ send' = [Free EXCEPT !.pc = "held", !.by = t]
  /\ Goto(t, "execute")
  /\ UNCHANGED <<client, service, servers, locks, bounds>>

(* Mutant: only the primary is asked.                                      *)
RequestPrimary(t, msg) ==
  [Free EXCEPT !.by = t, !.msg = msg, !.pc = "attempt", !.left = attempts]

Request(t, msg) ==
  [Free EXCEPT !.by = t, !.msg = msg, !.pc = "attempt",
               !.left = attempts,
               !.todo = IF m_redundantEndpoints = <<>> THEN <<>>
                        ELSE Tail(m_redundantEndpoints)]

execute(t) ==
  /\ At(t, "execute") /\ CanLockCq(t)
  /\ \/ /\ State(t) = "RUNNING"
        /\ send' = Free
        /\ Throw(t)
        /\ UNCHANGED <<m_mutex, partial>>
     \/ /\ State(t) # "RUNNING"
        /\ m_mutex' = [m_mutex EXCEPT ![th[t].cq] = t]
        /\ partial' = partial \ {th[t].cq}
        /\ IF m_destroyPending
           THEN Goto(t, "ran") /\ UNCHANGED send
           ELSE Goto(t, "sent") /\ send' = Request(t, "execute")
  /\ UNCHANGED <<m_cqState, m_cqQueryMap, service, servers, mapLock, readers,
                 writer, semaphore, bounds>>

(* updateStats takes the lock of m_cqQueryMap.                             *)
executeCq(t) ==
  /\ At(t, "ran") /\ CanLockMap(t)
  /\ SetState(t, "RUNNING")
  /\ m_mutex' = [m_mutex EXCEPT ![th[t].cq] = NoThread]
  /\ send' = Free
  /\ Return(t)
  /\ UNCHANGED <<m_cqQueryMap, partial, service, servers, mapLock, readers,
                 writer, semaphore, bounds>>

-----------------------------------------------------------------------------
(* CqQueryImpl::stop.  setCqState looks at the state before it locks       *)
(* m_mutex to change it.                                                   *)

stop(t) ==
  /\ At(t, "stop") /\ CanLockCq(t)
  /\ IF State(t) = "RUNNING" THEN Goto(t, "stopSend")
     ELSE IF State(t) = "CLOSED" THEN Return(t) ELSE Throw(t)
  /\ UNCHANGED <<client, service, servers, locks, send, bounds>>

sendStopOrClose(t, pc, msg, next) ==
  /\ At(t, pc)
  /\ IF m_destroyPending THEN Goto(t, next) /\ UNCHANGED send
     ELSE /\ send.pc = "free"
          /\ send' = Request(t, msg)
          /\ Goto(t, "sent")
  /\ UNCHANGED <<client, service, servers, locks, bounds>>

setCqStateCheck(t, pc, next) ==
  /\ At(t, pc) /\ CanLockCq(t)
  /\ IF State(t) = "CLOSED" THEN Return(t) ELSE Goto(t, next)
  /\ UNCHANGED <<client, service, servers, locks, send, bounds>>

setCqState(t, pc, state) ==
  /\ At(t, pc) /\ CanLockCq(t)
  /\ SetState(t, state)
  /\ UNCHANGED <<m_cqQueryMap, partial, service, servers, locks, send, bounds>>

stopSteps(t) ==
  \/ stop(t)
  \/ sendStopOrClose(t, "stopSend", "stop", "stopCheck")
  \/ setCqStateCheck(t, "stopCheck", "stopSet")
  \/ setCqState(t, "stopSet", "STOPPED") /\ Return(t)

-----------------------------------------------------------------------------
(* CqQueryImpl::close.  The CQ of a destroyed region is closed without a   *)
(* request, and by name it leaves the map.                                 *)

SendsClose(t) == th[t].op # "destroyRegion"

removeCq(t) ==
  /\ At(t, "remove") /\ CanLockMap(t)
  /\ m_cqQueryMap' = [m_cqQueryMap EXCEPT ![m_cqName[th[t].cq]] = NoCq]
  /\ Return(t)
  /\ UNCHANGED <<m_cqState, partial, service, servers, locks, send, bounds>>

(* Mutant: the CQ is RUNNING until the servers have closed it.             *)
closeRunning(t) ==
  \/ setCqStateCheck(t, "close", "closeSend")
  \/ sendStopOrClose(t, "closeSend", "close", "closedCheck")
  \/ setCqStateCheck(t, "closedCheck", "closedSet")
  \/ setCqState(t, "closedSet", "CLOSED") /\ Goto(t, "remove")
  \/ removeCq(t)

close(t) ==
  \/ setCqStateCheck(t, "close", "closingSet")
  \/ /\ setCqState(t, "closingSet", "CLOSING")
     /\ Goto(t, IF SendsClose(t) THEN "closeSend" ELSE "closedCheck")
  \/ sendStopOrClose(t, "closeSend", "close", "closedCheck")
  \/ setCqStateCheck(t, "closedCheck", "closedSet")
  \/ setCqState(t, "closedSet", "CLOSED") /\ Goto(t, "remove")
  \/ removeCq(t)

-----------------------------------------------------------------------------
(* sendSyncRequestCq, under the lock of the redundant endpoints: the       *)
(* secondaries, then the primary, with a new list of endpoints after an    *)
(* error.                                                                  *)

Name == m_cqName[th[send.by].cq]

(* A server refuses to execute the CQ of a region that is destroyed; to    *)
(* stop a CQ it does not have is no error.                                 *)
Refused == send.msg = "execute" /\ Name \in gone

Handle(e) ==
  cqs' = [cqs EXCEPT ![e] = IF send.msg # "execute" THEN @ \ {Name}
                            ELSE IF Refused THEN @ ELSE @ \cup {Name}]

(* What the endpoint replies is overwritten by the reply of the next one.  *)
ToSecondary ==
  /\ send.pc = "attempt" /\ send.todo # <<>>
  /\ LET e == Head(send.todo)
     IN  /\ send' = [send EXCEPT !.todo = Tail(@), !.err = @ \/ e \notin up]
         /\ IF e \in up THEN Handle(e) ELSE UNCHANGED cqs
  /\ UNCHANGED <<client, service, m_redundantEndpoints, up, gone, locks, th,
                 bounds>>

(* The request has failed: execute releases its locks.                     *)
Fail ==
  /\ send' = Free
  /\ m_mutex' = IF send.msg = "execute"
                THEN [m_mutex EXCEPT ![th[send.by].cq] = NoThread] ELSE m_mutex
  /\ IF send.msg = "close" THEN Goto(send.by, "closedCheck")
     ELSE Throw(send.by)

Succeed ==
  /\ send' = IF send.msg = "execute"
             THEN [Free EXCEPT !.pc = "held", !.by = send.by] ELSE Free
  /\ Goto(send.by, CASE send.msg = "execute" -> "ran"
                     [] send.msg = "stop" -> "stopCheck"
                     [] send.msg = "close" -> "closedCheck")
  /\ UNCHANGED m_mutex

Tries == send.pc = "attempt" /\ send.todo = <<>>

Unsure == send.err \/ m_redundantEndpoints = <<>>

GiveUp ==
  /\ Tries /\ send.left = 0
  /\ Fail
  /\ UNCHANGED <<client, service, servers, mapLock, readers, writer,
                 semaphore, bounds>>

Maintain ==
  /\ Tries /\ send.left > 0 /\ Unsure
  /\ send' = [send EXCEPT !.pc = "maintain"]
  /\ partial' = IF send.msg = "execute" THEN partial \cup {th[send.by].cq}
                ELSE partial
  /\ UNCHANGED <<m_cqState, m_cqQueryMap, service, servers, locks, th, bounds>>

ToPrimary ==
  /\ send.pc = "primary" \/ (Tries /\ send.left > 0 /\ ~Unsure)
  /\ IF m_redundantEndpoints # <<>> /\ m_redundantEndpoints[1] \in up
     THEN /\ Handle(m_redundantEndpoints[1])
          /\ IF Refused THEN Fail ELSE Succeed
     ELSE /\ send' = [send EXCEPT !.pc = "attempt", !.err = TRUE,
                                  !.left = @ - 1]
          /\ UNCHANGED <<cqs, m_mutex, th>>
  /\ UNCHANGED <<client, service, m_redundantEndpoints, up, gone, mapLock,
                 readers, writer, semaphore, bounds>>

-----------------------------------------------------------------------------
(* maintainRedundancyLevel, by the thread of redundancy() or within a      *)
(* request: endpoints that are lost leave the list, others take their      *)
(* place, after executeAllCqs.                                             *)

(* No bulk operation that has to be alone.                                 *)
NoBulk == "bulk" \in Races \/ \A t \in Threads : th[t].op \notin Bulk

Wanted == Len(m_redundantEndpoints) <= m_redundancyLevel

Offered == up \ (Range(m_redundantEndpoints) \cup send.tried)

(* An endpoint is lost, or one is wanted and to be had.                    *)
Due ==
  \/ \E e \in Range(m_redundantEndpoints) : e \notin up
  \/ Wanted /\ Offered # {}

redundancy ==
  /\ send.pc = "free" /\ NoBulk /\ Due
  /\ send' = [Free EXCEPT !.pc = "maintain", !.by = Redundancy]
  /\ UNCHANGED <<client, service, servers, locks, th, bounds>>

InOrder(s, r) ==
  \A i, j \in DOMAIN s : i < j =>
    \E k, l \in DOMAIN r : k < l /\ r[k] = s[i] /\ r[l] = s[j]

Holding == Range(m_redundantEndpoints) \cap up

(* The endpoints that are not lost, in their order.                        *)
Connected ==
  {s \in UNION {[1..n -> Holding] : n \in 0..Len(m_redundantEndpoints)} :
     /\ IsInjective(s) /\ Range(s) = Holding
     /\ InOrder(s, m_redundantEndpoints)}

Drop ==
  /\ send.pc = "maintain"
  /\ \E s \in Connected :
       /\ m_redundantEndpoints' = s
       /\ send' = [send EXCEPT !.pc = "join", !.tried = {}, !.had = s # <<>>]
  /\ UNCHANGED <<client, service, up, cqs, gone, locks, th, bounds>>

Join ==
  /\ send.pc = "join" /\ Wanted
  /\ \E e \in Offered :
       send' = [send EXCEPT !.pc = "executeAllCqs", !.todo = <<e>>,
                            !.tried = @ \cup {e}, !.err = FALSE]
  /\ UNCHANGED <<client, service, servers, locks, th, bounds>>

(* With no primary left the last endpoint that joined becomes it.          *)
JoinsDone ==
  /\ send.pc = "join" /\ (~Wanted \/ Offered = {})
  /\ m_redundantEndpoints' =
       LET s == m_redundantEndpoints
       IN  IF send.had \/ s = <<>> THEN s ELSE <<Last(s)>> \o Front(s)
  /\ send' = IF send.by = Redundancy THEN Free
             ELSE [send EXCEPT !.pc = "primary"]
  /\ UNCHANGED <<client, service, up, cqs, gone, locks, th, bounds>>

executeAllCqs ==
  /\ send.pc = "executeAllCqs" /\ CanRead
  /\ m_cqService => CanLockMap(send.by)
  /\ readers' = readers \cup {send.by}
  /\ send' = [send EXCEPT !.pc = "recover",
                          !.snap = IF m_cqService THEN InMap ELSE {}]
  /\ UNCHANGED <<client, service, servers, m_mutex, mapLock, writer,
                 semaphore, th, bounds>>

(* CqQueryImpl::execute(endpoint): m_mutex is held for the request.        *)
Recover(c) ==
  /\ send.pc = "recover" /\ c \in send.snap
  /\ CanLock(m_mutex[c], send.by)
  /\ LET e == Head(send.todo)
         runs == m_cqState[c] = "RUNNING"
         ok == e \in up /\ m_cqName[c] \notin gone
     IN  /\ cqs' = IF runs /\ ok
                   THEN [cqs EXCEPT ![e] = @ \cup {m_cqName[c]}] ELSE cqs
         /\ send' = [send EXCEPT !.snap = @ \ {c}, !.err = @ \/ (runs /\ ~ok)]
  /\ UNCHANGED <<client, service, m_redundantEndpoints, up, gone, locks, th,
                 bounds>>

(* A bulk operation of the same thread reads already.  A secondary that    *)
(* could not execute all CQs keeps its channel and the others.             *)
RecoverDone ==
  /\ send.pc = "recover" /\ send.snap = {}
  /\ readers' = IF send.by \in Threads /\ th[send.by].op \in Bulk THEN readers
                ELSE readers \ {send.by}
  /\ m_redundantEndpoints' = IF send.err THEN m_redundantEndpoints
                             ELSE m_redundantEndpoints \o send.todo
  /\ abandoned' = IF send.err THEN abandoned \cup Range(send.todo)
                  ELSE abandoned
  /\ send' = [send EXCEPT !.pc = "join", !.todo = <<>>]
  /\ UNCHANGED <<client, service, up, cqs, gone, m_mutex, mapLock, writer,
                 semaphore, th, ops, faults>>

Sending ==
  \/ ToSecondary \/ GiveUp \/ Maintain \/ ToPrimary
  \/ Drop \/ Join \/ JoinsDone \/ executeAllCqs
  \/ (\E c \in Cqs : Recover(c)) \/ RecoverDone

-----------------------------------------------------------------------------
(* RemoteQueryService::executeCqs, stopCqs and closeCqs, under mutex_.     *)

AllCqs(t) ==
  /\ At(t, "shared") /\ CanRead /\ CanLockMap(t)
  /\ readers' = readers \cup {t}
  /\ th' = [th EXCEPT ![t].todo = InMap,
                      ![t].pc = IF th[t].op = "closeCqs" THEN "mapLock" ELSE "next"]
  /\ UNCHANGED <<client, service, servers, m_mutex, mapLock, writer,
                 semaphore, send, bounds>>

(* closeAllCqs keeps the map locked while it closes the CQs.               *)
closeAllCqs(t) ==
  /\ At(t, "mapLock") /\ CanLockMap(t)
  /\ mapLock' = t
  /\ Goto(t, "next")
  /\ UNCHANGED <<client, service, servers, m_mutex, readers, writer,
                 semaphore, send, bounds>>

(* The condition under which a loop takes up a CQ, and where it begins.    *)
Takes(op, state) ==
  CASE op = "executeCqs" -> state = "STOPPED"
    [] op = "stopCqs" -> state = "RUNNING"
    [] OTHER -> TRUE

Entry(op) ==
  CASE op \in {"execute", "executeCqs"} -> "lock"
    [] op \in {"stop", "stopCqs"} -> "stop"
    [] OTHER -> "close"

NextCq(t) ==
  /\ At(t, "next")
  /\ \E c \in th[t].todo :
       /\ CanLock(m_mutex[c], t)
       /\ th' = [th EXCEPT ![t].todo = @ \ {c}, ![t].cq = c,
                           ![t].pc = IF Takes(th[t].op, m_cqState[c])
                                     THEN Entry(th[t].op) ELSE @]
  /\ UNCHANGED <<client, service, servers, locks, send, bounds>>

BulkDone(t) ==
  /\ th[t].op \in Bulk
  /\ At(t, "unlock") \/ (At(t, "next") /\ th[t].todo = {})
  /\ mapLock' = IF mapLock = t THEN NoThread ELSE mapLock
  /\ readers' = readers \ {t}
  /\ th' = [th EXCEPT ![t] = Idle]
  /\ UNCHANGED <<client, service, servers, m_mutex, writer, semaphore, send,
                 bounds>>

-----------------------------------------------------------------------------
(* ThinClientPoolHADM::destroy, as far as RemoteQueryService::close.       *)

closeService(t) ==
  /\ At(t, "unique") /\ readers = {} /\ writer = NoThread
  /\ writer' = t
  /\ m_running' = FALSE
  /\ Goto(t, "drain")
  /\ UNCHANGED <<client, m_cqService, m_destroyPending, servers, m_mutex,
                 mapLock, readers, semaphore, send, bounds>>

(* Mutant: it does not wait for the notification that is delivered.        *)
closeCqServiceAtOnce(t) ==
  /\ At(t, "drain") /\ CanLockMap(t)
  /\ th' = [th EXCEPT ![t].todo = InMap, ![t].pc = "mapLock"]
  /\ UNCHANGED <<client, service, servers, locks, send, bounds>>

closeCqService(t) ==
  /\ At(t, "drain") /\ semaphore = NoThread /\ CanLockMap(t)
  /\ semaphore' = t
  /\ th' = [th EXCEPT ![t].todo = InMap, ![t].pc = "mapLock"]
  /\ UNCHANGED <<client, service, servers, m_mutex, mapLock, readers, writer,
                 send, bounds>>

cleanup(t) ==
  /\ th[t].op = "destroy" /\ At(t, "next") /\ th[t].todo = {}
  /\ m_cqQueryMap' = [n \in Names |-> NoCq]
  /\ mapLock' = NoThread /\ semaphore' = NoThread /\ writer' = NoThread
  /\ m_cqService' = FALSE
  /\ th' = [th EXCEPT ![t] = Idle]
  /\ UNCHANGED <<m_cqState, partial, m_running, m_destroyPending, servers,
                 m_mutex, readers, send, bounds>>

-----------------------------------------------------------------------------
(* RemoteQueryService::receiveNotification.                                *)

(* th.cq stands for the name the message carries until the CQ is found.    *)
Message(op, n) ==
  [pc |-> "acquire", op |-> op, todo |-> {},
   cq |-> CHOOSE c \in Cqs : m_cqName[c] = n]

CanReceive == At(Receiver, "idle") /\ CanRead /\ m_cqService /\ m_running

receiveNotification(op, n) ==
  /\ CanReceive
  /\ readers' = readers \cup {Receiver}
  /\ th' = [th EXCEPT ![Receiver] = Message(op, n)]
  /\ UNCHANGED <<client, service, m_redundantEndpoints, up, m_mutex, mapLock,
                 writer, semaphore, send, bounds>>

Event(n) ==
  /\ m_redundantEndpoints # <<>> /\ n \in cqs[m_redundantEndpoints[1]]
  /\ receiveNotification("event", n)
  /\ UNCHANGED <<cqs, gone>>

(* The region of the query is destroyed: the servers close the CQ.         *)
RegionDestroyed(n) ==
  /\ n \notin gone /\ NoBulk
  /\ receiveNotification("destroyRegion", n)
  /\ gone' = gone \cup {n}
  /\ cqs' = [e \in Servers |-> cqs[e] \ {n}]

checkAndAcquireLock ==
  /\ At(Receiver, "acquire") /\ semaphore = NoThread
  /\ readers' = readers \ {Receiver}
  /\ IF m_running
     THEN semaphore' = Receiver /\ Goto(Receiver, "find")
     ELSE UNCHANGED semaphore /\ th' = [th EXCEPT ![Receiver] = Idle]
  /\ UNCHANGED <<client, service, servers, m_mutex, mapLock, writer, send,
                 bounds>>

getCq ==
  /\ At(Receiver, "find") /\ CanLockMap(Receiver)
  /\ LET c == m_cqQueryMap[m_cqName[th[Receiver].cq]]
     IN  th' = [th EXCEPT ![Receiver].cq = c,
                          ![Receiver].pc = IF c = NoCq THEN "release"
                                           ELSE "running"]
  /\ UNCHANGED <<client, service, servers, locks, send, bounds>>

invokeCqListeners ==
  /\ At(Receiver, "running") /\ CanLockCq(Receiver)
  /\ Goto(Receiver, IF State(Receiver) # "RUNNING" THEN "release"
                    ELSE IF th[Receiver].op = "event" THEN "listener"
                    ELSE "close")
  /\ UNCHANGED <<client, service, servers, locks, send, bounds>>

ListenerReturns ==
  /\ At(Receiver, "listener")
  /\ Goto(Receiver, "release")
  /\ UNCHANGED <<client, service, servers, locks, send, bounds>>

(* Mutant: the semaphore is not released.                                  *)
NotifiedHolding ==
  /\ At(Receiver, "release")
  /\ th' = [th EXCEPT ![Receiver] = Idle]
  /\ UNCHANGED <<client, service, servers, locks, send, bounds>>

Notified ==
  /\ At(Receiver, "release")
  /\ semaphore' = NoThread
  /\ th' = [th EXCEPT ![Receiver] = Idle]
  /\ UNCHANGED <<client, service, servers, m_mutex, mapLock, readers, writer,
                 send, bounds>>

-----------------------------------------------------------------------------
(* The application.                                                        *)

Begins(t) == At(t, "idle") /\ ops < MaxOps /\ NoBulk /\ ops' = ops + 1

Executing(t) == th[t].op \in {"execute", "executeCqs"}

Ends(t, c) ==
  /\ th[t].cq = c
  /\ th[t].op \in {"stop", "stopCqs", "close", "closeCqs", "destroyRegion"}

Others(c) == {d \in Cqs \ {c} : m_cqName[d] = m_cqName[c]}

(* Nothing is left that would end another CQ of the same name.             *)
Unused(c) ==
  \A d \in Others(c) :
    /\ d \in InMap \/ m_cqState[d] \in {"none", "CLOSED"}
    /\ \A u \in DOMAIN th : ~Ends(u, d)

newCq(t, c) ==
  /\ Begins(t) /\ CanRead /\ ~m_destroyPending
  /\ m_cqState[c] = "none" /\ \A u \in Threads : th[u].cq # c
  /\ "name" \in Races \/ Unused(c)
  /\ readers' = readers \cup {t}
  /\ th' = [th EXCEPT ![t] = [Idle EXCEPT !.op = "newCq", !.cq = c,
                                          !.pc = "exists"]]
  /\ UNCHANGED <<client, service, servers, m_mutex, mapLock, writer,
                 semaphore, send, faults, abandoned>>

(* The closing of c has begun, or may begin before c is executed.          *)
Closes(c) ==
  \/ m_cqState[c] \in {"CLOSING", "CLOSED"}
  \/ \E u \in DOMAIN th : /\ th[u].cq = c
                           /\ th[u].op \in {"close", "destroyRegion"}

call(t, op, c) ==
  /\ Begins(t) /\ m_cqState[c] # "none"
  /\ op = "execute" => /\ "closed" \in Races \/ ~Closes(c)
                       /\ "destroy" \in Races \/ ~m_destroyPending
  /\ op = "close" => \/ "closed" \in Races
                     \/ \A u \in Threads : ~(th[u].cq = c /\ Executing(u))
  /\ op # "execute" => \/ "name" \in Races
                       \/ \A u \in Threads : th[u].op = "newCq"
                                            => th[u].cq \notin Others(c)
  /\ th' = [th EXCEPT ![t] = [Idle EXCEPT !.op = op, !.cq = c,
                                          !.pc = Entry(op)]]
  /\ UNCHANGED <<client, service, servers, locks, send, faults, abandoned>>

(* Nothing else happens, and nothing is left to happen.                    *)
Alone ==
  /\ \A t \in Threads : At(t, "idle")
  /\ th[Receiver].op \in {"none", "event"}
  /\ send.pc = "free" /\ ~Due

bulk(t, op) ==
  /\ Begins(t) /\ ~m_destroyPending
  /\ "bulk" \in Races \/ Alone
  /\ th' = [th EXCEPT ![t] = [Idle EXCEPT !.op = op, !.pc = "shared"]]
  /\ UNCHANGED <<client, service, servers, locks, send, faults, abandoned>>

destroy(t) ==
  /\ Begins(t) /\ ~m_destroyPending
  /\ "destroy" \in Races \/ \A u \in Threads : ~Executing(u)
  /\ m_destroyPending' = TRUE
  /\ th' = [th EXCEPT ![t] = [Idle EXCEPT !.op = "destroy", !.pc = "unique"]]
  /\ UNCHANGED <<client, m_cqService, m_running, servers, locks, send, faults, abandoned>>

Start(t) ==
  \/ \E c \in Cqs : \/ newCq(t, c)
                    \/ \E op \in {"execute", "stop", "close"} : call(t, op, c)
  \/ \E op \in Bulk : bulk(t, op)
  \/ destroy(t)

Work(t) ==
  \/ Exists(t) \/ addCq(t)
  \/ LockRedundancy(t) \/ execute(t) \/ executeCq(t)
  \/ stopSteps(t) \/ close(t)
  \/ AllCqs(t) \/ closeAllCqs(t) \/ NextCq(t) \/ BulkDone(t)
  \/ closeService(t) \/ closeCqService(t) \/ cleanup(t)

Receive ==
  \/ checkAndAcquireLock \/ getCq \/ invokeCqListeners \/ ListenerReturns
  \/ close(Receiver) \/ Notified

-----------------------------------------------------------------------------
(* Servers.  The loss of one is noticed before it starts again: the race   *)
(* with an endpoint that is found connected meanwhile belongs to module    *)
(* RedundancyManager.                                                      *)

Crash(e) ==
  /\ e \in up /\ faults < MaxFaults /\ NoBulk
  /\ up' = up \ {e}
  /\ cqs' = [cqs EXCEPT ![e] = {}]
  /\ faults' = faults + 1
  /\ abandoned' = abandoned \ {e}
  /\ UNCHANGED <<client, service, m_redundantEndpoints, gone, locks, send, th,
                 ops>>

Restart(e) ==
  /\ e \notin up /\ NoBulk
  /\ e \notin Range(m_redundantEndpoints \o send.todo)
  /\ up' = up \cup {e}
  /\ UNCHANGED <<client, service, m_redundantEndpoints, cqs, gone, locks, send,
                 th, bounds>>

-----------------------------------------------------------------------------

(* ThinClientPoolHADM::init has found servers and the first newCq has      *)
(* created the CqService.  Of each name there may be a CQ, which may run.  *)
Init ==
  /\ up \in SUBSET Servers /\ gone = {}
  /\ m_redundantEndpoints \in
       UNION {[1..n -> up] : n \in 0..(m_redundancyLevel + 1)}
  /\ IsInjective(m_redundantEndpoints)
  /\ Wanted => Range(m_redundantEndpoints) = up
  /\ m_cqQueryMap \in [Names -> Cqs \cup {NoCq}]
  /\ \A n \in Names :
       m_cqQueryMap[n] \in {NoCq, CHOOSE c \in Cqs : m_cqName[c] = n}
  /\ m_cqState \in [Cqs -> {"none", "STOPPED", "RUNNING"}]
  /\ \A c \in Cqs : (m_cqState[c] = "none") = (c \notin InMap)
  /\ cqs = [e \in Servers |->
              IF e \in Range(m_redundantEndpoints)
              THEN {n \in Names : \E c \in Cqs : /\ m_cqName[c] = n
                                               /\ m_cqState[c] = "RUNNING"}
              ELSE {}]
  /\ m_cqService = TRUE /\ m_running = TRUE /\ m_destroyPending = FALSE
  /\ m_mutex = [c \in Cqs |-> NoThread]
  /\ mapLock = NoThread /\ readers = {} /\ writer = NoThread
  /\ semaphore = NoThread
  /\ send = Free
  /\ th = [t \in Threads \cup {Receiver} |-> Idle]
  /\ partial = {} /\ abandoned = {} /\ ops = 0
  /\ faults = IF up = Servers THEN 0 ELSE 1

Next ==
  \/ \E t \in Threads : Start(t) \/ Work(t)
  \/ Receive
  \/ \E n \in Names : Event(n) \/ RegionDestroyed(n)
  \/ Sending \/ redundancy
  \/ \E e \in Servers : Crash(e) \/ Restart(e)

Spec == Init /\ [][Next]_vars

(* Threads that can run do; the redundancy thread is released by a loss    *)
(* and by a timer.                                                         *)
FairSpec ==
  /\ Spec
  /\ \A t \in Threads : WF_vars(Work(t))
  /\ WF_vars(Receive) /\ WF_vars(Sending) /\ WF_vars(redundancy)

-----------------------------------------------------------------------------

TypeOK ==
  /\ m_cqState \in [Cqs -> States]
  /\ m_cqQueryMap \in [Names -> Cqs \cup {NoCq}]
  /\ {m_cqService, m_running, m_destroyPending} \subseteq BOOLEAN
  /\ m_redundantEndpoints \in Seq(Servers) /\ up \subseteq Servers
  /\ cqs \in [Servers -> SUBSET Names] /\ gone \subseteq Names
  /\ m_mutex \in [Cqs -> AllThreads \cup {NoThread}]
  /\ {mapLock, writer, semaphore} \subseteq AllThreads \cup {NoThread}
  /\ readers \subseteq AllThreads
  /\ send \in Sends /\ th \in [Threads \cup {Receiver} -> Tasks]
  /\ partial \subseteq Cqs /\ abandoned \subseteq Servers
  /\ ops \in 0..MaxOps /\ faults \in Nat

(* Every server that holds a queue of the client runs every CQ that is     *)
(* RUNNING, however servers come and go, once no thread holds the lock of  *)
(* the redundant endpoints: a secondary that takes over has the CQ.  CQs   *)
(* that are being stopped or closed are left out, and CQs during whose     *)
(* execution an endpoint was lost.  With the types.                        *)
RunsEverywhere ==
  /\ TypeOK
  /\ send.pc = "free" /\ ~m_destroyPending =>
       \A c \in InMap \ partial :
         /\ m_cqState[c] = "RUNNING" /\ m_cqName[c] \notin gone
         /\ \A t \in DOMAIN th : ~Ends(t, c)
         => \A e \in Holding : m_cqName[c] \in cqs[e]

(* No server that holds a queue of the client runs a CQ that is closed,    *)
(* unless the server has been given up once while it joined.               *)
ClosedRunsNowhere ==
  send.pc = "free" /\ ~m_destroyPending =>
    \A n \in Names :
      (\A c \in Cqs : m_cqName[c] = n => m_cqState[c] \in {"none", "CLOSED"})
      => \A e \in Holding \ abandoned : n \notin cqs[e]

(* Once the CQ service is closed no listener is called: closeCqService     *)
(* waits for the notification that is being delivered.                     *)
NoLateListener ==
  ~m_cqService => th[Receiver].pc \notin {"find", "running", "listener"}

(* Every call of the application returns, whatever locks the threads hold  *)
(* and wait for: again and again no call is under way.                     *)
CallsReturn == []<>(\A t \in Threads : At(t, "idle"))

=============================================================================
