---------------------------- MODULE Transactions ----------------------------
(***************************************************************************)
(* Transactions of the client (CacheTransactionManagerImpl with            *)
(* InternalCacheTransactionManager2PCImpl, TXCleaner, TXState,             *)
(* SuspendedTxExpiryTask): threads begin, suspend, resume and end them,    *)
(* wait for one that another thread is to suspend, and the expiry thread   *)
(* rolls back what stays suspended for too long.                           *)
(*                                                                         *)
(* A transaction stands for its TXState object and for the id in it.       *)
(***************************************************************************)
EXTENDS Integers, FiniteSetsExt

CONSTANTS Threads,      \* application threads
          Expiry,       \* the thread of the ExpiryTaskManager
          Txs, NoTx,
          TaskIds,      \* bound: one for each suspension
          NoTask,
          Conns,        \* bound: the connections of the pool
          NoConn,
          MaxFaults     \* bound: requests and connections that fail

ASSUME TxAssumption ==
  /\ Expiry \notin Threads
  /\ NoTx \notin Txs /\ NoTask \notin TaskIds
  /\ TaskIds \subseteq Nat /\ Conns \subseteq Nat /\ NoConn \notin Conns
  /\ MaxFaults \in Nat

VARIABLES m_txState,      \* TSSTXStateWrapper, per thread
          conn,           \* TssConnectionWrapper, per thread
          queue,          \* the idle connections of the pool
          m_TXs,
          m_suspendedTXs,
          m_suspendedExpiryTaskId,
          object,         \* the TXState of each transaction
          tasks,
          thr,            \* what each thread does, and with which transaction
          fired,          \* the task of the expiry thread
          notified,       \* the waiting threads that notify_all has woken
          server,         \* the transaction on the servers
          worked,         \* history: an operation of it was carried out
          failed,         \* history: an operation of it failed
          done,           \* history: its commit returned without an exception
          lost,           \* history: its resume failed, or its thread ended
          moved,          \* history: connections that took over at a resume
          overtaken,      \* history: the task that has begun, when its
                          \* transaction has been ended or suspended again,
                          \* and tasks of transactions such a task has taken
          missed,         \* history: the task ran before the transaction was
                          \* in m_suspendedTXs
          faults

client == <<m_TXs, m_suspendedTXs, m_suspendedExpiryTaskId, object>>
timer == <<tasks, fired, overtaken, missed>>
history == <<worked, failed, done, lost>>
connections == <<conn, queue, moved>>
vars == <<m_txState, connections, client, timer, thr, notified, server, history,
          faults>>

-----------------------------------------------------------------------------

AllThreads == Threads \cup {Expiry}

Pcs == {"idle", "clean", "add", "forget", "existed", "waiting", "cancel",
        "connect", "fire", "rollback"}

Idle == [pc |-> "idle", tx |-> NoTx]
At(t, pc) == thr[t].pc = pc
Becomes(t, pc, x) == thr' = [thr EXCEPT ![t] = [pc |-> pc, tx |-> x]]
Rests(t) == thr' = [thr EXCEPT ![t] = Idle]

SetTXState(t, x) == m_txState' = [m_txState EXCEPT ![t] = x]

Fault == faults < MaxFaults /\ faults' = faults + 1

(* A thread that has no call under way, with or without a transaction.     *)
Free(t) == At(t, "idle") /\ m_txState[t] = NoTx
In(t, x) == At(t, "idle") /\ m_txState[t] = x

(* A TransactionId is a reference into the TXState.  What is read after    *)
(* that was deleted is the old id or, when the memory is in use again,     *)
(* that of a newer transaction.                                            *)
getId(x) ==
  IF object[x] = "live" THEN {x} ELSE {x} \cup {y \in Txs : object[y] = "live"}

(* The expiry thread has tested cancelled_ and is about to look for x.     *)
Fires(x) == At(Expiry, "fire") /\ thr[Expiry].tx = x

Overtake(x) == overtaken' = overtaken \cup (IF Fires(x) THEN {fired} ELSE {})

-----------------------------------------------------------------------------
(* The connection of a thread, which is its own while it is in a           *)
(* transaction.                                                            *)

(* Of those that are new to the pool, and alike, the least.                *)
New == LET unused == Conns \ (queue \cup moved \cup {conn[t] : t \in AllThreads})
       IN {c \in unused : c = Min(unused)}

getConnectionFromQueue == queue \cup New

Some(c) == {c} \ {NoConn}

setStickyConnection(t, c) ==
  /\ conn' = [conn EXCEPT ![t] = c]
  /\ queue' = queue \ {c}

(* After a failure the connection of the thread is deleted.                *)
setStickyNull(t) == conn' = [conn EXCEPT ![t] = NoConn] /\ UNCHANGED queue

(* Mutant: the thread keeps the connection it releases.                    *)
releaseAndKeep(t) == queue' = queue \cup Some(conn[t]) /\ UNCHANGED conn

releaseThreadLocalConnection(t) ==
  /\ conn' = [conn EXCEPT ![t] = NoConn]
  /\ queue' = queue \cup Some(conn[t])

(* The one that the thread had before goes to the queue.                   *)
addStickyConnection(t, c) ==
  /\ conn' = [conn EXCEPT ![t] = c]
  /\ queue' = (queue \ {c}) \cup Some(conn[t])

(* A request that has failed on every server it was tried on.  The last    *)
(* connection is deleted, or stays when its server did not take the        *)
(* transaction over.                                                       *)
Disconnects(t) ==
  /\ Fault
  /\ \/ setStickyNull(t)
     \/ \E c \in getConnectionFromQueue : setStickyConnection(t, c)
  /\ UNCHANGED moved

-----------------------------------------------------------------------------
(* The transaction of a thread.                                            *)

begin(t) ==
  /\ Free(t)
  /\ \E x \in Txs :
       /\ object[x] = "none"
       /\ SetTXState(t, x)
       /\ object' = [object EXCEPT ![x] = "live"]
       /\ m_TXs' = m_TXs \cup {x}
  /\ UNCHANGED <<connections, m_suspendedTXs, m_suspendedExpiryTaskId, timer,
                 thr, notified, server, history, faults>>

(* An operation on a region.  The first one takes a connection, which the  *)
(* others use; so does the first one after a failure.                      *)
Operation(t) ==
  \E x \in Txs :
    /\ In(t, x)
    /\ \/ /\ \/ conn[t] # NoConn /\ UNCHANGED <<conn, queue>>
             \/ /\ conn[t] = NoConn
                /\ \E c \in getConnectionFromQueue : setStickyConnection(t, c)
          /\ worked' = worked \cup {x}
          /\ server' = [server EXCEPT ![x] = "open"]
          /\ UNCHANGED <<moved, failed, faults>>
       \/ /\ Disconnects(t)
          /\ failed' = failed \cup {x}
          /\ UNCHANGED <<worked, server>>
    /\ UNCHANGED <<m_txState, client, timer, thr, notified, done, lost>>

(* prepare, where it fails: the request does not reach a server, or the    *)
(* servers refuse and the transaction is over.                             *)
prepare(t) ==
  \E x \in Txs :
    /\ In(t, x) /\ conn[t] # NoConn
    /\ \/ /\ Disconnects(t)
          /\ failed' = failed \cup {x}
          /\ UNCHANGED <<server, thr>>
       \/ /\ server' = [server EXCEPT ![x] = "rolledBack"]
          /\ Becomes(t, "clean", x)
          /\ UNCHANGED <<connections, failed, faults>>
    /\ UNCHANGED <<m_txState, client, timer, notified, worked, done, lost>>

(* Mutant: the reply of the servers is not looked at.                      *)
EndsUnchecked(t, x, outcome, ok) ==
  /\ conn[t] # NoConn
  /\ server' \in {[server EXCEPT ![x] = o] : o \in {outcome, "rolledBack"}}
  /\ done' = done \cup ok
  /\ UNCHANGED <<connections, faults>>

(* The request that ends a transaction: the servers do as it says, they    *)
(* refuse, which ends the transaction, or it fails and is in doubt.        *)
Ends(t, x, outcome, ok) ==
  /\ conn[t] # NoConn
  /\ \/ /\ server' = [server EXCEPT ![x] = outcome]
        /\ done' = done \cup ok
        /\ UNCHANGED <<connections, faults>>
     \/ /\ server' = [server EXCEPT ![x] = "rolledBack"]
        /\ UNCHANGED <<connections, done, faults>>
     \/ /\ Disconnects(t)
        /\ server' \in {server, [server EXCEPT ![x] = outcome]}
        /\ UNCHANGED done

(* Without a connection nothing is sent, and the call succeeds.            *)
NothingToEnd(t, ok) ==
  /\ conn[t] = NoConn
  /\ done' = done \cup ok
  /\ UNCHANGED <<connections, server, faults>>

commit(t) ==
  \E x \in Txs :
    /\ In(t, x)
    /\ NothingToEnd(t, {x}) \/ Ends(t, x, "committed", {x})
    /\ Becomes(t, "clean", x)
    /\ UNCHANGED <<m_txState, client, timer, notified, worked, failed, lost>>

RollsBack(t, x) ==
  /\ NothingToEnd(t, {}) \/ Ends(t, x, "rolledBack", {})
  /\ Becomes(t, "clean", x)
  /\ UNCHANGED <<m_txState, client, timer, notified, worked, failed, lost>>

rollback(t) == \E x \in Txs : In(t, x) /\ RollsBack(t, x)

(* Of a transaction that is over no history is kept.                       *)
Over(x) ==
  /\ server' = [server EXCEPT ![x] = "none"]
  /\ worked' = worked \ {x} /\ failed' = failed \ {x} /\ done' = done \ {x}

(* TXCleaner: the end of commit, rollback and a refused prepare.           *)
clean(t) ==
  /\ At(t, "clean")
  /\ m_TXs' = m_TXs \ {thr[t].tx}
  /\ object' = [object EXCEPT ![thr[t].tx] = "deleted"]
  /\ SetTXState(t, NoTx)
  /\ m_suspendedExpiryTaskId' =
       [m_suspendedExpiryTaskId EXCEPT ![thr[t].tx] = NoTask]
  /\ releaseThreadLocalConnection(t)
  /\ Rests(t)
  /\ Over(thr[t].tx)
  /\ Overtake(thr[t].tx)
  /\ UNCHANGED <<moved, m_suspendedTXs, tasks, fired, missed, notified, lost,
                 faults>>

(* A thread that ends in a transaction, by ~TSSTXStateWrapper and          *)
(* ~TssConnectionWrapper.  The transaction stays in m_TXs.                 *)
ThreadEnds(t) ==
  \E x \in Txs :
    /\ In(t, x)
    /\ SetTXState(t, NoTx)
    /\ object' = [object EXCEPT ![x] = "deleted"]
    /\ releaseThreadLocalConnection(t)
    /\ lost' = lost \cup {x}
    /\ Overtake(x)
    /\ UNCHANGED <<moved, m_TXs, m_suspendedTXs, m_suspendedExpiryTaskId, tasks,
                   fired, missed, thr, notified, server, worked, failed, done,
                   faults>>

-----------------------------------------------------------------------------
(* suspend.  The task is scheduled before the transaction is in the map,   *)
(* and the thread forgets the transaction after that.                      *)

Finished == [stage |-> "over", tx |-> NoTx]

(* Mutant: a transaction that had a task gets no other.                    *)
scheduleOnce(x) ==
  \E i \in TaskIds :
    /\ tasks[i].stage = "none" /\ \A j \in 1 .. i - 1 : tasks[j].stage # "none"
    /\ IF m_suspendedExpiryTaskId[x] = NoTask
       THEN /\ tasks' = [tasks EXCEPT ![i] = [stage |-> "scheduled", tx |-> x]]
            /\ m_suspendedExpiryTaskId' =
                 [m_suspendedExpiryTaskId EXCEPT ![x] = i]
       ELSE UNCHANGED <<tasks, m_suspendedExpiryTaskId>>

schedule(x) ==
  LET unused == {i \in TaskIds : tasks[i].stage = "none"} IN
  \E i \in unused :
    /\ i = Min(unused)
    /\ tasks' = [tasks EXCEPT ![i] = [stage |-> "scheduled", tx |-> x]]
    /\ m_suspendedExpiryTaskId' = [m_suspendedExpiryTaskId EXCEPT ![x] = i]

suspend(t) ==
  \E x \in Txs :
    /\ In(t, x) /\ conn[t] # NoConn
    /\ releaseThreadLocalConnection(t)
    /\ schedule(x)
    /\ Overtake(x) /\ missed' = missed \ {x}
    /\ Becomes(t, "add", x)
    /\ UNCHANGED <<m_txState, moved, m_TXs, m_suspendedTXs, object, fired,
                   notified, server, history, faults>>

Waiting == {t \in Threads : At(t, "waiting")}

(* Mutant: the waiting threads are not notified.                           *)
addSuspendedTxQuietly(t) ==
  /\ At(t, "add")
  /\ m_suspendedTXs' = m_suspendedTXs \cup {thr[t].tx}
  /\ Becomes(t, "forget", thr[t].tx)
  /\ UNCHANGED <<m_txState, connections, m_TXs, m_suspendedExpiryTaskId, object,
                 timer, notified, server, history, faults>>

addSuspendedTx(t) ==
  /\ At(t, "add")
  /\ m_suspendedTXs' = m_suspendedTXs \cup {thr[t].tx}
  /\ notified' = Waiting
  /\ Becomes(t, "forget", thr[t].tx)
  /\ UNCHANGED <<m_txState, connections, m_TXs, m_suspendedExpiryTaskId, object,
                 timer, server, history, faults>>

Forget(t) ==
  /\ At(t, "forget")
  /\ SetTXState(t, NoTx)
  /\ Rests(t)
  /\ UNCHANGED <<connections, client, timer, notified, server, history, faults>>

-----------------------------------------------------------------------------
(* resume and tryResume.                                                   *)

(* Mutant: the transaction is found and not removed, as getSuspendedTx     *)
(* does.                                                                   *)
getSuspendedTx(t, x, pc) ==
  /\ x \in m_suspendedTXs
  /\ Becomes(t, pc, x)
  /\ UNCHANGED m_suspendedTXs

removeSuspendedTx(t, x, pc) ==
  /\ x \in m_suspendedTXs
  /\ m_suspendedTXs' = m_suspendedTXs \ {x}
  /\ Becomes(t, pc, x)

(* Where the transaction is not suspended, nothing changes.                *)
resume(t) ==
  /\ Free(t)
  /\ \E x \in Txs : /\ object[x] # "none"
                    /\ \E id \in getId(x) : removeSuspendedTx(t, id, "cancel")
  /\ UNCHANGED <<m_txState, connections, m_TXs, m_suspendedExpiryTaskId, object,
                 timer, notified, server, history, faults>>

(* tryResume with a time to wait: exists, the search that follows it, and  *)
(* wait_for, which searches whenever it is woken and when the time is up.  *)
tryResume(t) ==
  /\ Free(t)
  /\ \E x \in Txs : /\ object[x] # "none"
                    /\ getId(x) \cap m_TXs # {}
                    /\ Becomes(t, "existed", x)
  /\ UNCHANGED <<m_txState, connections, client, timer, notified, server,
                 history, faults>>

Search(t, id, otherwise) ==
  /\ notified' = notified \ {t}
  /\ \/ removeSuspendedTx(t, id, "cancel")
     \/ id \notin m_suspendedTXs /\ otherwise /\ UNCHANGED m_suspendedTXs
  /\ UNCHANGED <<m_txState, connections, m_TXs, m_suspendedExpiryTaskId, object,
                 timer, server, history, faults>>

Look(t) ==
  /\ At(t, "existed")
  /\ \E id \in getId(thr[t].tx) : Search(t, id, Becomes(t, "waiting", id))

Wake(t) ==
  /\ At(t, "waiting") /\ t \in notified
  /\ Search(t, thr[t].tx, UNCHANGED thr)

WaitEnds(t) == At(t, "waiting") /\ Search(t, thr[t].tx, Rests(t))

(* Mutant: resume leaves the task.                                         *)
cancelNot(t) ==
  /\ At(t, "cancel")
  /\ SetTXState(t, thr[t].tx)
  /\ Becomes(t, "connect", thr[t].tx)
  /\ UNCHANGED <<connections, client, timer, notified, server, history, faults>>

(* resumeTxUsingTxState.  A task that has begun is not stopped.            *)
cancel(t) ==
  /\ At(t, "cancel")
  /\ tasks' = [i \in TaskIds |->
                 IF i = m_suspendedExpiryTaskId[thr[t].tx]
                      /\ tasks[i].stage = "scheduled"
                 THEN Finished ELSE tasks[i]]
  /\ SetTXState(t, thr[t].tx)
  /\ Becomes(t, "connect", thr[t].tx)
  /\ UNCHANGED <<connections, client, fired, overtaken, missed, notified, server,
                 history, faults>>

(* getConnectionToAnEndPoint: a connection to the server of the            *)
(* transaction, or one to another server, which takes it over.  doFailover *)
(* has made that the thread's connection, and setThreadLocalConnection     *)
(* puts what the thread has into the queue.                                *)
Connect(t) ==
  /\ At(t, "connect")
  /\ \E c \in getConnectionFromQueue :
       \/ addStickyConnection(t, c) /\ UNCHANGED <<moved, faults>>
       \/ /\ Fault
          /\ conn' = [conn EXCEPT ![t] = c]
          /\ queue' = queue \cup {c}
          /\ moved' = moved \cup {c}
  /\ IF t = Expiry THEN Becomes(t, "rollback", thr[t].tx) ELSE Rests(t)
  /\ UNCHANGED <<m_txState, client, timer, notified, server, history>>

(* There is no connection, or doFailover fails: refused, the connection    *)
(* stays with the thread, otherwise it is deleted, and it goes to the      *)
(* queue.  The transaction cannot be resumed again.                        *)
ConnectFails(t) ==
  /\ At(t, "connect") /\ Fault
  /\ \/ UNCHANGED connections
     \/ \E c \in getConnectionFromQueue :
          /\ \E d \in {c, NoConn} : conn' = [conn EXCEPT ![t] = d]
          /\ queue' = queue \cup {c}
          /\ moved' = moved \cup {c}
  /\ SetTXState(t, NoTx)
  /\ lost' = lost \cup {thr[t].tx}
  /\ Rests(t)
  /\ UNCHANGED <<client, timer, notified, server, worked, failed, done>>

-----------------------------------------------------------------------------
(* The expiry thread: ExpiryTask::on_callback and                          *)
(* SuspendedTxExpiryTask::on_expire.                                       *)

on_callback(i) ==
  /\ At(Expiry, "idle") /\ tasks[i].stage = "scheduled"
  /\ tasks' = [tasks EXCEPT ![i] = Finished]
  /\ fired' = i
  /\ Becomes(Expiry, "fire", tasks[i].tx)
  /\ UNCHANGED <<m_txState, connections, client, overtaken, missed, notified,
                 server, history, faults>>

(* The transaction whose last task runs while suspend is still under way.  *)
Missed == {x \in Txs : /\ m_suspendedExpiryTaskId[x] = fired
                       /\ \E t \in Threads : At(t, "add") /\ thr[t].tx = x}

on_expire ==
  /\ At(Expiry, "fire")
  /\ \E id \in getId(thr[Expiry].tx) :
       \/ /\ removeSuspendedTx(Expiry, id, "connect")
          /\ SetTXState(Expiry, id)
          /\ overtaken' =
               (overtaken \cup {m_suspendedExpiryTaskId[id]}) \ {fired}
       \/ /\ id \notin m_suspendedTXs
          /\ Rests(Expiry)
          /\ overtaken' = overtaken \ {fired}
          /\ UNCHANGED <<m_txState, m_suspendedTXs>>
  /\ fired' = NoTask
  /\ missed' = missed \cup Missed
  /\ UNCHANGED <<connections, m_TXs, m_suspendedExpiryTaskId, object, tasks,
                 notified, server, history, faults>>

expireRollback == At(Expiry, "rollback") /\ RollsBack(Expiry, thr[Expiry].tx)

-----------------------------------------------------------------------------

Init ==
  /\ m_txState = [t \in AllThreads |-> NoTx]
  /\ conn = [t \in AllThreads |-> NoConn] /\ queue = {} /\ moved = {}
  /\ m_TXs = {} /\ m_suspendedTXs = {}
  /\ m_suspendedExpiryTaskId = [x \in Txs |-> NoTask]
  /\ object = [x \in Txs |-> "none"]
  /\ tasks = [i \in TaskIds |-> [stage |-> "none", tx |-> NoTx]]
  /\ thr = [t \in AllThreads |-> Idle]
  /\ fired = NoTask /\ overtaken = {} /\ missed = {}
  /\ notified = {}
  /\ server = [x \in Txs |-> "none"]
  /\ worked = {} /\ failed = {} /\ done = {} /\ lost = {}
  /\ faults = 0

(* Calls the application begins, and the steps of calls under way.         *)
Start(t) ==
  \/ begin(t) \/ Operation(t) \/ prepare(t) \/ commit(t) \/ rollback(t)
  \/ ThreadEnds(t) \/ suspend(t) \/ resume(t) \/ tryResume(t)

Resuming(t) == cancel(t) \/ Connect(t) \/ ConnectFails(t)

Work(t) ==
  \/ clean(t) \/ addSuspendedTx(t) \/ Forget(t)
  \/ Look(t) \/ Wake(t) \/ WaitEnds(t) \/ Resuming(t)

Expire ==
  \/ on_expire \/ Connect(Expiry) \/ ConnectFails(Expiry) \/ expireRollback
  \/ clean(Expiry)

Next ==
  \/ \E t \in Threads : Start(t) \/ Work(t)
  \/ \E i \in TaskIds : on_callback(i)
  \/ Expire

Spec == Init /\ [][Next]_vars

(* A call that has begun goes on, a time that is waited for passes, and    *)
(* the timer and its thread run.                                           *)
FairSpec ==
  /\ Spec
  /\ \A t \in Threads : WF_vars(Work(t))
  /\ WF_vars((\E i \in TaskIds : on_callback(i)) \/ Expire)

-----------------------------------------------------------------------------

TypeOK ==
  /\ m_txState \in [AllThreads -> Txs \cup {NoTx}]
  /\ conn \in [AllThreads -> Conns \cup {NoConn}]
  /\ queue \subseteq Conns /\ moved \subseteq Conns
  /\ m_TXs \subseteq Txs /\ m_suspendedTXs \subseteq Txs
  /\ m_suspendedExpiryTaskId \in [Txs -> TaskIds \cup {NoTask}]
  /\ object \in [Txs -> {"none", "live", "deleted"}]
  /\ tasks \in [TaskIds -> [stage : {"none", "scheduled", "over"},
                            tx : Txs \cup {NoTx}]]
  /\ thr \in [AllThreads -> [pc : Pcs, tx : Txs \cup {NoTx}]]
  /\ fired \in TaskIds \cup {NoTask}
  /\ overtaken \subseteq TaskIds \cup {NoTask} /\ missed \subseteq Txs
  /\ notified \subseteq Threads
  /\ server \in [Txs -> {"none", "open", "committed", "rolledBack"}]
  /\ worked \subseteq Txs /\ failed \subseteq Txs
  /\ done \subseteq Txs /\ lost \subseteq Txs
  /\ faults \in 0..MaxFaults

(* The thread may use the TXState.  At the end of suspend it only drops    *)
(* its pointer.                                                            *)
Owns(t, x) ==
  \/ m_txState[t] = x /\ ~At(t, "forget")
  \/ At(t, "cancel") /\ thr[t].tx = x

Placed(x) ==
  /\ object[x] = "live" => x \in m_TXs
  /\ x \in m_TXs \ lost => object[x] = "live"
  /\ x \in m_suspendedTXs => x \in m_TXs \ lost
  /\ \A t \in AllThreads :
       Owns(t, x) => /\ x \in m_TXs \ lost /\ x \notin m_suspendedTXs
                     /\ \A u \in AllThreads : Owns(u, x) => u = t
  /\ x \in m_TXs \ lost =>
       x \in m_suspendedTXs \/ \E t \in AllThreads : Owns(t, x)

(* However suspend, resume, a waiting tryResume and the expiry thread      *)
(* race, a transaction belongs to one thread or is suspended, never both   *)
(* and never to two threads, its TXState is deleted once, and m_TXs lists  *)
(* those that exist.  A resume that fails and a thread that ends lose the  *)
(* transaction: it stays listed and belongs to nobody.  With the types.    *)
OnePlace ==
  /\ TypeOK
  /\ \A x \in Txs : Placed(x)

(* A thread in tryResume does not sleep while the transaction it waits for *)
(* is suspended: suspend wakes all that wait, for whatever transaction.    *)
WaitersHear ==
  \A t \in Threads :
    At(t, "waiting") /\ thr[t].tx \in m_suspendedTXs => t \in notified

(* The expiry thread takes a transaction only when the timeout of its last *)
(* suspension has passed, not because of an earlier one or of another      *)
(* transaction's.  There is one way around the cancel of resume, and no    *)
(* other: the task had passed its test of cancelled_ and has not looked    *)
(* for the transaction before that is suspended again, or ended, which     *)
(* leaves the task a reference into a deleted TXState.  What such a task   *)
(* takes too early leaves its own task behind, uncancelled, to do the same.*)
ExpiryInTime ==
  [][\A x \in Txs :
       m_txState'[Expiry] = x /\ m_txState[Expiry] # x
         => m_suspendedExpiryTaskId[x] = fired \/ fired \in overtaken]_vars

(* No transaction stays suspended for ever, whatever happens, unless its   *)
(* task has run before suspend, which starts it, has put the transaction   *)
(* into the map: it finds nothing, and there is no other task.             *)
SuspendedEnds ==
  \A x \in Txs : []<>(x \notin m_suspendedTXs \/ x \in missed)

(* A commit that returns without an exception was carried out by the       *)
(* servers, or there was nothing to commit, or an operation of the         *)
(* transaction has failed before: that leaves the thread without its       *)
(* connection, and commit takes this for a transaction without operations. *)
CommitIsDone ==
  \A x \in done : server[x] = "committed" \/ x \notin worked \/ x \in failed

(* No connection is used by two threads, or idle in the queue while it is  *)
(* the connection of a thread, but those that a resume has moved a         *)
(* transaction to.                                                         *)
ConnectionsExclusive ==
  \A t \in AllThreads :
    conn[t] \notin moved \cup {NoConn} =>
      /\ conn[t] \notin queue
      /\ \A u \in AllThreads : conn[u] = conn[t] => u = t

=============================================================================
