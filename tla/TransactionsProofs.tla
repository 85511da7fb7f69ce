------------------------- MODULE TransactionsProofs -------------------------
(***************************************************************************)
(* Theorems about Transactions, for any number of threads, transactions,   *)
(* suspensions, connections and failures, in every schedule.               *)
(***************************************************************************)
EXTENDS Transactions, TLAPS

USE DEF client, timer, history, connections

LEMMA TypeInit == Init => TypeOK
BY TxAssumption DEF Init, TypeOK, Idle, Pcs, AllThreads

ThrTypes == thr \in [AllThreads -> [pc : Pcs, tx : Txs \cup {NoTx}]]

(* The helpers of the actions keep the types.                              *)
LEMMA ThreadTypes ==
  ASSUME TypeOK, NEW t \in AllThreads, NEW pc \in Pcs, NEW x \in Txs \cup {NoTx}
  PROVE  /\ Becomes(t, pc, x) => ThrTypes'
         /\ Rests(t) => ThrTypes'
         /\ SetTXState(t, x) => m_txState' \in [AllThreads -> Txs \cup {NoTx}]
<1>1. /\ thr \in [AllThreads -> [pc : Pcs, tx : Txs \cup {NoTx}]]
      /\ m_txState \in [AllThreads -> Txs \cup {NoTx}]
  BY Zenon DEF TypeOK
<1>2. /\ Idle \in [pc : Pcs, tx : Txs \cup {NoTx}]
      /\ [pc |-> pc, tx |-> x] \in [pc : Pcs, tx : Txs \cup {NoTx}]
  BY Zenon DEF Idle, Pcs
<1>3. Becomes(t, pc, x) => ThrTypes'
  BY <1>1, <1>2, Zenon DEF Becomes, ThrTypes
<1>4. Rests(t) => ThrTypes'
  BY <1>1, <1>2, Zenon DEF Rests, ThrTypes
<1>5. SetTXState(t, x) => m_txState' \in [AllThreads -> Txs \cup {NoTx}]
  BY <1>1, Zenon DEF SetTXState
<1> QED BY <1>3, <1>4, <1>5, Zenon

ConnTypes ==
  /\ conn \in [AllThreads -> Conns \cup {NoConn}]
  /\ queue \subseteq Conns /\ moved \subseteq Conns

LEMMA ConnectionTypes ==
  ASSUME TypeOK, NEW t \in AllThreads, UNCHANGED moved
  PROVE  /\ \A c \in Conns : setStickyConnection(t, c) => ConnTypes'
         /\ setStickyNull(t) => ConnTypes'
         /\ releaseThreadLocalConnection(t) => ConnTypes'
         /\ \A c \in Conns : addStickyConnection(t, c) => ConnTypes'
<1>1. ConnTypes /\ Some(conn[t]) \subseteq Conns
  BY Zenon DEF TypeOK, ConnTypes, Some
<1>2. \A c \in Conns : setStickyConnection(t, c) => ConnTypes'
  BY <1>1, Zenon DEF ConnTypes, setStickyConnection
<1>3. setStickyNull(t) => ConnTypes'
  BY <1>1, Zenon DEF ConnTypes, setStickyNull
<1>4. releaseThreadLocalConnection(t) => ConnTypes'
  BY <1>1, Zenon DEF ConnTypes, releaseThreadLocalConnection
<1>5. \A c \in Conns : addStickyConnection(t, c) => ConnTypes'
  BY <1>1, Zenon DEF ConnTypes, addStickyConnection
<1> QED BY <1>2, <1>3, <1>4, <1>5, Zenon

LEMMA QueueType == TypeOK => getConnectionFromQueue \subseteq Conns
BY Zenon DEF TypeOK, getConnectionFromQueue, New

LEMMA DisconnectTypes ==
  ASSUME TypeOK, NEW t \in AllThreads, Disconnects(t)
  PROVE  ConnTypes' /\ faults' \in 0..MaxFaults
<1>1. ConnTypes'
  BY ConnectionTypes, QueueType, Zenon DEF Disconnects
<1>2. faults' \in 0..MaxFaults
  BY TxAssumption DEF Disconnects, Fault, TypeOK
<1> QED BY <1>1, <1>2, Zenon

LEMMA OvertakeTypes ==
  ASSUME TypeOK, NEW x, Overtake(x)
  PROVE  overtaken' \subseteq TaskIds \cup {NoTask}
BY DEF TypeOK, Overtake

(* Where a thread is and which transaction it has belong together.         *)
Shape ==
  /\ \A t \in AllThreads :
       /\ thr[t].pc \in {"clean", "add", "forget", "connect", "rollback"}
            => thr[t].tx \in Txs /\ m_txState[t] = thr[t].tx
       /\ thr[t].pc = "cancel" => thr[t].tx \in Txs
       /\ thr[t].pc \in {"existed", "waiting", "cancel", "fire"}
            => m_txState[t] = NoTx
  /\ \A t \in Threads : thr[t].pc \notin {"fire", "rollback"}
  /\ thr[Expiry].pc \in {"idle", "fire", "connect", "rollback", "clean"}
  /\ thr[Expiry].pc = "idle" => m_txState[Expiry] = NoTx

LEMMA TypeStep == TypeOK /\ Shape /\ [Next]_vars => TypeOK'
<1> SUFFICES ASSUME TypeOK, Shape, [Next]_vars PROVE TypeOK'
  BY Zenon
<1>0. Threads \subseteq AllThreads /\ Expiry \in AllThreads
  BY Zenon DEF AllThreads
<1>a. ASSUME NEW t \in Threads, begin(t) PROVE TypeOK'
  BY <1>a, <1>0 DEF begin, TypeOK, SetTXState, AllThreads
<1>b. ASSUME NEW t \in Threads, Operation(t) PROVE TypeOK'
  BY <1>b, <1>0, DisconnectTypes, ConnectionTypes, QueueType, Zenon
     DEF Operation, TypeOK, ConnTypes
<1>c. ASSUME NEW t \in Threads, prepare(t) PROVE TypeOK'
  BY <1>c, <1>0, DisconnectTypes, ThreadTypes, Zenon
     DEF prepare, TypeOK, ThrTypes, ConnTypes, Pcs
<1>d. ASSUME NEW t \in Threads, commit(t) PROVE TypeOK'
  BY <1>d, <1>0, DisconnectTypes, ThreadTypes, Zenon
     DEF commit, TypeOK, ThrTypes, ConnTypes, Pcs, Ends, NothingToEnd
<1>e. ASSUME NEW t \in AllThreads, NEW x \in Txs \cup {NoTx}, RollsBack(t, x)
      PROVE  TypeOK'
  BY <1>e, <1>0, DisconnectTypes, ThreadTypes, Zenon
     DEF RollsBack, TypeOK, ThrTypes, ConnTypes, Pcs, Ends, NothingToEnd
<1>f. ASSUME NEW t \in AllThreads, clean(t) PROVE TypeOK'
  BY <1>f, <1>0, ConnectionTypes, ThreadTypes, OvertakeTypes, Zenon
     DEF clean, TypeOK, ThrTypes, ConnTypes, Over
<1>g. ASSUME NEW t \in Threads, ThreadEnds(t) PROVE TypeOK'
  BY <1>g, <1>0, ConnectionTypes, ThreadTypes, OvertakeTypes, Zenon
     DEF ThreadEnds, TypeOK, ThrTypes, ConnTypes
<1>h. ASSUME NEW t \in Threads, suspend(t) PROVE TypeOK'
  <2>1. overtaken' \subseteq TaskIds \cup {NoTask}
    BY <1>h, OvertakeTypes, Zenon DEF suspend
  <2> QED
    BY <1>h, <1>0, <2>1, ConnectionTypes, ThreadTypes
       DEF suspend, schedule, TypeOK, ThrTypes, ConnTypes, Pcs
<1>i. ASSUME NEW t \in Threads, addSuspendedTx(t) PROVE TypeOK'
  <2>1. thr[t].tx \in Txs BY <1>i, <1>0, Zenon DEF Shape, addSuspendedTx, At
  <2> QED
    BY <1>i, <1>0, <2>1, ThreadTypes, Zenon
       DEF addSuspendedTx, TypeOK, ThrTypes, Pcs, Waiting
<1>j. ASSUME NEW t \in Threads, Forget(t) PROVE TypeOK'
  BY <1>j, <1>0, ThreadTypes, Zenon
     DEF Forget, TypeOK, ThrTypes, ConnTypes, Pcs
<1>k. ASSUME NEW t \in Threads, resume(t) PROVE TypeOK'
  BY <1>k, <1>0, ThreadTypes, Zenon
     DEF resume, TypeOK, ThrTypes, Pcs, removeSuspendedTx
<1>l. ASSUME NEW t \in Threads, tryResume(t) PROVE TypeOK'
  BY <1>l, <1>0, ThreadTypes, Zenon DEF tryResume, TypeOK, ThrTypes, Pcs
<1>m. ASSUME NEW t \in Threads, Look(t) PROVE TypeOK'
  BY <1>m, <1>0, ThreadTypes
     DEF Look, Search, removeSuspendedTx, getId, TypeOK, ThrTypes, Pcs
<1>n. ASSUME NEW t \in Threads, Wake(t) PROVE TypeOK'
  BY <1>n, <1>0, ThreadTypes, Zenon
     DEF Wake, Search, removeSuspendedTx, TypeOK, ThrTypes, Pcs
<1>o. ASSUME NEW t \in Threads, WaitEnds(t) PROVE TypeOK'
  BY <1>o, <1>0, ThreadTypes, Zenon
     DEF WaitEnds, Search, removeSuspendedTx, TypeOK, ThrTypes, Pcs
<1>p. ASSUME NEW t \in Threads, cancel(t) PROVE TypeOK'
  BY <1>p, <1>0, ThreadTypes, Zenon DEF cancel, Finished, TypeOK, ThrTypes, Pcs
<1>q. ASSUME NEW t \in AllThreads, Connect(t) PROVE TypeOK'
  <2>1. thr[t].tx \in Txs \cup {NoTx} /\ "rollback" \in Pcs
    BY Zenon DEF TypeOK, Pcs
  <2>2. ThrTypes'
    BY <1>q, <2>1, ThreadTypes, Zenon DEF Connect
  <2>3. PICK c \in getConnectionFromQueue :
          \/ addStickyConnection(t, c) /\ UNCHANGED <<moved, faults>>
          \/ /\ Fault
             /\ conn' = [conn EXCEPT ![t] = c]
             /\ queue' = queue \cup {c}
             /\ moved' = moved \cup {c}
    BY <1>q, Zenon DEF Connect
  <2>4. c \in Conns BY QueueType, Zenon
  <2>5. ConnTypes' /\ faults' \in 0..MaxFaults
    <3>1. CASE addStickyConnection(t, c) /\ UNCHANGED <<moved, faults>>
      BY <3>1, <2>4, ConnectionTypes, Zenon DEF TypeOK
    <3>2. CASE /\ Fault
               /\ conn' = [conn EXCEPT ![t] = c]
               /\ queue' = queue \cup {c}
               /\ moved' = moved \cup {c}
      <4>1. ConnTypes' BY <3>2, <2>4, Zenon DEF TypeOK, ConnTypes
      <4>2. faults' \in 0..MaxFaults BY <3>2, TxAssumption DEF TypeOK, Fault
      <4> QED BY <4>1, <4>2, Zenon
    <3> QED BY <2>3, <3>1, <3>2, Zenon
  <2> QED
    BY <1>q, <2>2, <2>5, Zenon DEF Connect, ConnTypes, ThrTypes, TypeOK
<1>r. ASSUME NEW t \in AllThreads, ConnectFails(t) PROVE TypeOK'
  <2>1. ThrTypes' /\ m_txState' \in [AllThreads -> Txs \cup {NoTx}]
    BY <1>r, ThreadTypes, Zenon DEF ConnectFails, Pcs
  <2>2. ConnTypes'
    BY <1>r, QueueType DEF ConnectFails, ConnTypes, TypeOK
  <2>3. faults' \in 0..MaxFaults
    <3>1. faults \in 0..MaxFaults /\ faults < MaxFaults /\ faults' = faults + 1
      BY <1>r, Zenon DEF ConnectFails, Fault, TypeOK
    <3> QED BY <3>1, TxAssumption
  <2>4. lost' \subseteq Txs
    BY <1>r, Zenon DEF ConnectFails, TypeOK, Shape, At
  <2> QED
    BY <1>r, <2>1, <2>2, <2>3, <2>4, Zenon
       DEF ConnectFails, ConnTypes, ThrTypes, TypeOK
<1>s. ASSUME NEW i \in TaskIds, on_callback(i) PROVE TypeOK'
  BY <1>s, <1>0, ThreadTypes, Zenon
     DEF on_callback, Finished, TypeOK, ThrTypes, Pcs
<1>t. ASSUME on_expire PROVE TypeOK'
  <2>1. overtaken' \subseteq TaskIds \cup {NoTask} /\ missed' \subseteq Txs
    BY <1>t DEF on_expire, removeSuspendedTx, TypeOK, Missed
  <2> QED
    BY <1>t, <1>0, <2>1, ThreadTypes, Zenon
       DEF on_expire, removeSuspendedTx, TypeOK, ThrTypes, Pcs
<1>u. ASSUME expireRollback PROVE TypeOK'
  <2>1. thr[Expiry].tx \in Txs \cup {NoTx} BY <1>0, Zenon DEF TypeOK
  <2> QED BY <1>u, <1>0, <1>e, <2>1, Zenon DEF expireRollback
<1>v. CASE UNCHANGED vars
  BY <1>v, Zenon DEF vars, TypeOK
<1> QED
  BY <1>0, <1>a, <1>b, <1>c, <1>d, <1>e, <1>f, <1>g, <1>h, <1>i, <1>j, <1>k,
     <1>l, <1>m, <1>n, <1>o, <1>p, <1>q, <1>r, <1>s, <1>t, <1>u, <1>v, Zenon
     DEF Next, Start, Work, Resuming, Expire, rollback

LEMMA ShapeInit == Init => Shape
BY DEF Init, Shape, Idle, AllThreads

LEMMA ShapeStep == TypeOK /\ Shape /\ [Next]_vars => Shape'
<1> SUFFICES ASSUME TypeOK, Shape, [Next]_vars PROVE Shape'
  BY Zenon
<1>0. /\ Threads \subseteq AllThreads /\ Expiry \in AllThreads
      /\ Expiry \notin Threads
  BY TxAssumption, Zenon DEF AllThreads
<1>1. /\ thr \in [AllThreads -> [pc : Pcs, tx : Txs \cup {NoTx}]]
      /\ m_txState \in [AllThreads -> Txs \cup {NoTx}]
      /\ m_suspendedTXs \subseteq Txs
  BY Zenon DEF TypeOK
<1> USE DEF Shape, At, Becomes, Rests, SetTXState, Idle
<1>a. ASSUME NEW t \in Threads, begin(t) PROVE Shape'
  BY <1>a, <1>0, <1>1 DEF begin, Free
<1>b. ASSUME NEW t \in Threads, Operation(t) PROVE Shape'
  BY <1>b, <1>0, <1>1, Zenon DEF Operation
<1>c. ASSUME NEW t \in Threads, prepare(t) PROVE Shape'
  <2>1. PICK x \in Txs :
          /\ thr[t].pc = "idle" /\ m_txState[t] = x
          /\ thr' = thr \/ thr' = [thr EXCEPT ![t] = [pc |-> "clean", tx |-> x]]
          /\ m_txState' = m_txState
    BY <1>c, Zenon DEF prepare, In
  <2> QED BY <2>1, <1>0, <1>1
<1>d. ASSUME NEW t \in Threads, commit(t) PROVE Shape'
  BY <1>d, <1>0, <1>1 DEF commit, In
<1>e. ASSUME NEW t \in Threads, rollback(t) PROVE Shape'
  BY <1>e, <1>0, <1>1 DEF rollback, RollsBack, In
<1>f. ASSUME NEW t \in AllThreads, clean(t) PROVE Shape'
  BY <1>f, <1>0, <1>1, Zenon DEF clean
<1>g. ASSUME NEW t \in Threads, ThreadEnds(t) PROVE Shape'
  BY <1>g, <1>0, <1>1 DEF ThreadEnds, In
<1>h. ASSUME NEW t \in Threads, suspend(t) PROVE Shape'
  BY <1>h, <1>0, <1>1 DEF suspend, In
<1>i. ASSUME NEW t \in Threads, addSuspendedTx(t) PROVE Shape'
  BY <1>i, <1>0, <1>1, Zenon DEF addSuspendedTx
<1>j. ASSUME NEW t \in Threads, Forget(t) PROVE Shape'
  BY <1>j, <1>0, <1>1, Zenon DEF Forget
<1>k. ASSUME NEW t \in Threads, resume(t) PROVE Shape'
  BY <1>k, <1>0, <1>1 DEF resume, Free, removeSuspendedTx
<1>l. ASSUME NEW t \in Threads, tryResume(t) PROVE Shape'
  BY <1>l, <1>0, <1>1 DEF tryResume, Free
<1>m. ASSUME NEW t \in Threads, Look(t) PROVE Shape'
  BY <1>m, <1>0, <1>1 DEF Look, Search, removeSuspendedTx
<1>n. ASSUME NEW t \in Threads, Wake(t) PROVE Shape'
  BY <1>n, <1>0, <1>1 DEF Wake, Search, removeSuspendedTx
<1>o. ASSUME NEW t \in Threads, WaitEnds(t) PROVE Shape'
  BY <1>o, <1>0, <1>1 DEF WaitEnds, Search, removeSuspendedTx
<1>p. ASSUME NEW t \in Threads, cancel(t) PROVE Shape'
  BY <1>p, <1>0, <1>1, Zenon DEF cancel
<1>q. ASSUME NEW t \in AllThreads, Connect(t) PROVE Shape'
  BY <1>q, <1>0, <1>1 DEF Connect
<1>r. ASSUME NEW t \in AllThreads, ConnectFails(t) PROVE Shape'
  BY <1>r, <1>0, <1>1, Zenon DEF ConnectFails
<1>s. ASSUME NEW i \in TaskIds, on_callback(i) PROVE Shape'
  BY <1>s, <1>0, <1>1, Zenon DEF on_callback
<1>t. ASSUME on_expire PROVE Shape'
  <2>1. PICK id :
          \/ /\ id \in m_suspendedTXs
             /\ thr' = [thr EXCEPT ![Expiry] = [pc |-> "connect", tx |-> id]]
             /\ m_txState' = [m_txState EXCEPT ![Expiry] = id]
          \/ /\ thr' = [thr EXCEPT ![Expiry] = [pc |-> "idle", tx |-> NoTx]]
             /\ m_txState' = m_txState
    BY <1>t, Zenon DEF on_expire, removeSuspendedTx
  <2>2. m_txState[Expiry] = NoTx
    BY <1>t, <1>0, Zenon DEF on_expire
  <2> QED BY <2>1, <2>2, <1>0, <1>1
<1>u. ASSUME expireRollback PROVE Shape'
  BY <1>u, <1>0, <1>1, Zenon DEF expireRollback, RollsBack
<1>v. CASE UNCHANGED vars
  BY <1>v, Zenon DEF vars
<1> QED
  BY <1>0, <1>a, <1>b, <1>c, <1>d, <1>e, <1>f, <1>g, <1>h, <1>i, <1>j, <1>k,
     <1>l, <1>m, <1>n, <1>o, <1>p, <1>q, <1>r, <1>s, <1>t, <1>u, <1>v, Zenon
     DEF Next, Start, Work, Resuming, Expire

-----------------------------------------------------------------------------
(* A transaction is in one place.                                          *)

Home ==
  /\ \A x \in Txs : Placed(x)
  /\ lost \subseteq m_TXs /\ \A x \in m_TXs : object[x] # "none"

LEMMA HomeInit == Init => Home
BY TxAssumption DEF Init, Home, Placed, Owns, AllThreads, Idle, At

(* In a step of thread t nothing changes for the others.                   *)
Alone(t) ==
  \A u \in AllThreads :
    u # t => thr'[u] = thr[u] /\ m_txState'[u] = m_txState[u]

LEMMA OthersOwn ==
  ASSUME NEW t \in AllThreads, Alone(t)
  PROVE  \A u \in AllThreads, x \in Txs : u # t => (Owns(u, x)' <=> Owns(u, x))
BY Zenon DEF Alone, Owns, At

(* The ways a step of thread t may move a transaction.                     *)
LEMMA Keeps ==
  ASSUME Home, NEW t \in AllThreads, Alone(t),
         \A x \in Txs : Owns(t, x)' <=> Owns(t, x),
         UNCHANGED <<m_TXs, m_suspendedTXs, object, lost>>
  PROVE  Home'
<1>1. \A u \in AllThreads, x \in Txs : Owns(u, x)' <=> Owns(u, x)
  BY OthersOwn, Zenon
<1> QED BY <1>1, Zenon DEF Home, Placed

LEMMA Takes ==
  ASSUME Home, NEW t \in AllThreads, Alone(t), NEW y \in m_suspendedTXs,
         \A x \in Txs : ~Owns(t, x),
         \A x \in Txs : Owns(t, x)' <=> x = y,
         m_suspendedTXs' = m_suspendedTXs \ {y},
         UNCHANGED <<m_TXs, object, lost>>
  PROVE  Home'
<1>1. \A u \in AllThreads, x \in Txs :
        Owns(u, x)' <=> Owns(u, x) \/ (u = t /\ x = y)
  BY OthersOwn, Zenon
<1> QED BY <1>1 DEF Home, Placed

LEMMA Gives ==
  ASSUME Home, NEW t \in AllThreads, Alone(t), NEW y \in Txs,
         \A x \in Txs : Owns(t, x) <=> x = y,
         \A x \in Txs : ~Owns(t, x)',
         m_suspendedTXs' = m_suspendedTXs \cup {y},
         UNCHANGED <<m_TXs, object, lost>>
  PROVE  Home'
<1>1. \A u \in AllThreads, x \in Txs : Owns(u, x)' <=> Owns(u, x) /\ u # t
  BY OthersOwn, Zenon
<1> QED BY <1>1 DEF Home, Placed

LEMMA Drops ==
  ASSUME TypeOK, Home, NEW t \in AllThreads, Alone(t), NEW y \in Txs,
         \A x \in Txs : Owns(t, x) <=> x = y,
         \A x \in Txs : ~Owns(t, x)',
         \/ object' = [object EXCEPT ![y] = "deleted"]
         \/ object' = object /\ y \in lost',
         \/ m_TXs' = m_TXs \ {y} /\ lost' = lost
         \/ lost' = lost \cup {y} /\ m_TXs' = m_TXs,
         UNCHANGED m_suspendedTXs
  PROVE  Home'
<1>1. \A u \in AllThreads, x \in Txs : Owns(u, x)' <=> Owns(u, x) /\ u # t
  BY OthersOwn, Zenon
<1>2. object \in [Txs -> {"none", "live", "deleted"}] /\ m_TXs \subseteq Txs
  BY Zenon DEF TypeOK
<1> QED BY <1>1, <1>2 DEF Home, Placed

LEMMA Begins ==
  ASSUME TypeOK, Home, NEW t \in AllThreads, Alone(t), NEW y \in Txs,
         object[y] = "none",
         \A x \in Txs : ~Owns(t, x),
         \A x \in Txs : Owns(t, x)' <=> x = y,
         object' = [object EXCEPT ![y] = "live"],
         m_TXs' = m_TXs \cup {y},
         UNCHANGED <<m_suspendedTXs, lost>>
  PROVE  Home'
<1>1. \A u \in AllThreads, x \in Txs :
        Owns(u, x)' <=> Owns(u, x) \/ (u = t /\ x = y)
  BY OthersOwn, Zenon
<1>2. object \in [Txs -> {"none", "live", "deleted"}] /\ m_TXs \subseteq Txs
  BY Zenon DEF TypeOK
<1> QED BY <1>1, <1>2 DEF Home, Placed

LEMMA HomeStep == TypeOK /\ Shape /\ Home /\ [Next]_vars => Home'
<1> SUFFICES ASSUME TypeOK, Shape, Home, [Next]_vars PROVE Home'
  BY Zenon
<1>0. /\ Threads \subseteq AllThreads /\ Expiry \in AllThreads
      /\ Expiry \notin Threads /\ NoTx \notin Txs
  BY TxAssumption, Zenon DEF AllThreads
<1>1. /\ thr \in [AllThreads -> [pc : Pcs, tx : Txs \cup {NoTx}]]
      /\ m_txState \in [AllThreads -> Txs \cup {NoTx}]
      /\ m_suspendedTXs \subseteq Txs
  BY Zenon DEF TypeOK
<1> USE DEF Shape, At, Becomes, Rests, SetTXState, Idle, Alone, Owns
<1>a. ASSUME NEW t \in Threads, begin(t) PROVE Home'
  <2>1. PICK y \in Txs :
          /\ object[y] = "none"
          /\ m_txState' = [m_txState EXCEPT ![t] = y]
          /\ object' = [object EXCEPT ![y] = "live"]
          /\ m_TXs' = m_TXs \cup {y}
          /\ thr' = thr /\ thr[t].pc = "idle" /\ m_txState[t] = NoTx
          /\ UNCHANGED <<m_suspendedTXs, lost>>
    BY <1>a, Zenon DEF begin, Free
  <2>2. Alone(t) /\ \A x \in Txs : ~Owns(t, x) /\ (Owns(t, x)' <=> x = y)
    BY <2>1, <1>0, <1>1, Zenon
  <2>3. /\ object[y] = "none" /\ object' = [object EXCEPT ![y] = "live"]
        /\ m_TXs' = m_TXs \cup {y} /\ UNCHANGED <<m_suspendedTXs, lost>>
    BY <2>1, Zenon
  <2>4. (\A x \in Txs : ~Owns(t, x)) /\ (\A x \in Txs : Owns(t, x)' <=> x = y)
    BY <2>2, Zenon
  <2> HIDE DEF Owns, Alone
  <2> QED BY <2>2, <2>3, <2>4, <1>0, Begins, Zenon
<1>b. ASSUME NEW t \in Threads, Operation(t) PROVE Home'
  <2>1. Alone(t) /\ \A x \in Txs : Owns(t, x)' <=> Owns(t, x)
    BY <1>b, <1>0, <1>1, Zenon DEF Operation
  <2>2. UNCHANGED <<m_TXs, m_suspendedTXs, object, lost>>
    BY <1>b, Zenon DEF Operation
  <2> QED BY <2>1, <2>2, <1>0, Keeps, Zenon
<1>c. ASSUME NEW t \in Threads, prepare(t) PROVE Home'
  <2>1. PICK x \in Txs :
          /\ thr[t].pc = "idle" /\ m_txState[t] = x
          /\ thr' = thr \/ thr' = [thr EXCEPT ![t] = [pc |-> "clean", tx |-> x]]
          /\ m_txState' = m_txState
          /\ UNCHANGED <<m_TXs, m_suspendedTXs, object, lost>>
    BY <1>c, Zenon DEF prepare, In
  <2>2. Alone(t) /\ \A y \in Txs : Owns(t, y)' <=> Owns(t, y)
    BY <2>1, <1>0, <1>1
  <2> QED BY <2>1, <2>2, <1>0, Keeps, Zenon
<1>d. ASSUME NEW t \in Threads, commit(t) PROVE Home'
  <2>1. Alone(t) /\ \A x \in Txs : Owns(t, x)' <=> Owns(t, x)
    BY <1>d, <1>0, <1>1 DEF commit, In
  <2>2. UNCHANGED <<m_TXs, m_suspendedTXs, object, lost>>
    BY <1>d, Zenon DEF commit, In
  <2> QED BY <2>1, <2>2, <1>0, Keeps, Zenon
<1>e. ASSUME NEW t \in Threads, rollback(t) PROVE Home'
  <2>1. Alone(t) /\ \A x \in Txs : Owns(t, x)' <=> Owns(t, x)
    BY <1>e, <1>0, <1>1 DEF rollback, RollsBack, In
  <2>2. UNCHANGED <<m_TXs, m_suspendedTXs, object, lost>>
    BY <1>e, Zenon DEF rollback, RollsBack, In
  <2> QED BY <2>1, <2>2, <1>0, Keeps, Zenon
<1>f. ASSUME NEW t \in AllThreads, clean(t) PROVE Home'
  <2>1. thr[t].tx \in Txs /\ m_txState[t] = thr[t].tx /\ thr[t].pc = "clean"
    BY <1>f, Zenon DEF clean
  <2>2. /\ Alone(t)
        /\ \A x \in Txs : (Owns(t, x) <=> x = thr[t].tx) /\ ~Owns(t, x)'
    BY <1>f, <2>1, <1>0, <1>1, Zenon DEF clean
  <2>3. /\ object' = [object EXCEPT ![thr[t].tx] = "deleted"]
        /\ \/ m_TXs' = m_TXs \ {thr[t].tx} /\ lost' = lost
           \/ lost' = lost \cup {thr[t].tx} /\ m_TXs' = m_TXs
        /\ UNCHANGED m_suspendedTXs
    BY <1>f, Zenon DEF clean
  <2>4. /\ \A x \in Txs : Owns(t, x) <=> x = thr[t].tx
        /\ \A x \in Txs : ~Owns(t, x)'
    BY <2>2, Zenon
  <2> HIDE DEF Owns, Alone
  <2> QED BY <2>1, <2>2, <2>3, <2>4, Drops, Zenon
<1>g. ASSUME NEW t \in Threads, ThreadEnds(t) PROVE Home'
  <2>1. PICK y \in Txs :
          /\ thr[t].pc = "idle" /\ m_txState[t] = y /\ thr' = thr
          /\ m_txState' = [m_txState EXCEPT ![t] = NoTx]
          /\ object' = [object EXCEPT ![y] = "deleted"]
          /\ lost' = lost \cup {y} /\ m_TXs' = m_TXs
          /\ UNCHANGED m_suspendedTXs
    BY <1>g, Zenon DEF ThreadEnds, In
  <2>2. Alone(t) /\ \A x \in Txs : (Owns(t, x) <=> x = y) /\ ~Owns(t, x)'
    BY <2>1, <1>0, <1>1, Zenon
  <2>3. /\ object' = [object EXCEPT ![y] = "deleted"]
        /\ \/ m_TXs' = m_TXs \ {y} /\ lost' = lost
           \/ lost' = lost \cup {y} /\ m_TXs' = m_TXs
        /\ UNCHANGED m_suspendedTXs
    BY <2>1, Zenon
  <2>4. (\A x \in Txs : Owns(t, x) <=> x = y) /\ (\A x \in Txs : ~Owns(t, x)')
    BY <2>2, Zenon
  <2> HIDE DEF Owns, Alone
  <2> QED BY <2>2, <2>3, <2>4, <1>0, Drops, Zenon
<1>h. ASSUME NEW t \in Threads, suspend(t) PROVE Home'
  <2>1. Alone(t) /\ \A x \in Txs : Owns(t, x)' <=> Owns(t, x)
    BY <1>h, <1>0, <1>1 DEF suspend, In
  <2>2. UNCHANGED <<m_TXs, m_suspendedTXs, object, lost>>
    BY <1>h, Zenon DEF suspend, In
  <2> QED BY <2>1, <2>2, <1>0, Keeps, Zenon
<1>i. ASSUME NEW t \in Threads, addSuspendedTx(t) PROVE Home'
  <2>1. thr[t].tx \in Txs /\ m_txState[t] = thr[t].tx /\ thr[t].pc = "add"
    BY <1>i, <1>0, Zenon DEF addSuspendedTx
  <2>2. /\ Alone(t)
        /\ \A x \in Txs : (Owns(t, x) <=> x = thr[t].tx) /\ ~Owns(t, x)'
    BY <1>i, <2>1, <1>0, <1>1, Zenon DEF addSuspendedTx
  <2>3. /\ m_suspendedTXs' = m_suspendedTXs \cup {thr[t].tx}
        /\ UNCHANGED <<m_TXs, object, lost>>
    BY <1>i, Zenon DEF addSuspendedTx
  <2> QED BY <2>1, <2>2, <2>3, <1>0, Gives
<1>j. ASSUME NEW t \in Threads, Forget(t) PROVE Home'
  <2>1. Alone(t) /\ \A x \in Txs : Owns(t, x)' <=> Owns(t, x)
    BY <1>j, <1>0, <1>1, Zenon DEF Forget
  <2>2. UNCHANGED <<m_TXs, m_suspendedTXs, object, lost>>
    BY <1>j, Zenon DEF Forget
  <2> QED BY <2>1, <2>2, <1>0, Keeps, Zenon
<1>2. ASSUME NEW t \in Threads, NEW id, removeSuspendedTx(t, id, "cancel"),
             thr[t].pc \in {"idle", "existed", "waiting"}, m_txState[t] = NoTx,
             UNCHANGED <<m_txState, m_TXs, object, lost>>
      PROVE  Home'
  <2>1. /\ id \in m_suspendedTXs
        /\ thr' = [thr EXCEPT ![t] = [pc |-> "cancel", tx |-> id]]
        /\ m_suspendedTXs' = m_suspendedTXs \ {id}
    BY <1>2, Zenon DEF removeSuspendedTx
  <2>2. Alone(t) /\ \A x \in Txs : ~Owns(t, x) /\ (Owns(t, x)' <=> x = id)
    BY <1>2, <2>1, <1>0, <1>1, Zenon
  <2> QED BY <1>2, <2>1, <2>2, <1>0, Takes
<1>k. ASSUME NEW t \in Threads, resume(t) PROVE Home'
  BY <1>k, <1>2, Zenon DEF resume, Free
<1>l. ASSUME NEW t \in Threads, tryResume(t) PROVE Home'
  <2>1. Alone(t) /\ \A x \in Txs : Owns(t, x)' <=> Owns(t, x)
    BY <1>l, <1>0, <1>1 DEF tryResume, Free
  <2>2. UNCHANGED <<m_TXs, m_suspendedTXs, object, lost>>
    BY <1>l, Zenon DEF tryResume, Free
  <2> QED BY <2>1, <2>2, <1>0, Keeps, Zenon
<1>m. ASSUME NEW t \in Threads, Look(t) PROVE Home'
  <2>1. thr[t].pc \in {"existed", "waiting"} /\ m_txState[t] = NoTx
    BY <1>m, <1>0, Zenon DEF Look
  <2>2. PICK id :
          /\ \/ removeSuspendedTx(t, id, "cancel")
             \/ /\ UNCHANGED m_suspendedTXs
                /\ \/ thr' = thr
                   \/ thr' = [thr EXCEPT ![t] = [pc |-> "waiting", tx |-> id]]
                   \/ thr' = [thr EXCEPT ![t] = [pc |-> "idle", tx |-> NoTx]]
          /\ UNCHANGED <<m_txState, m_TXs, object, lost>>
    BY <1>m, Zenon DEF Look, Search
  <2>3. CASE removeSuspendedTx(t, id, "cancel")
    BY <2>1, <2>2, <2>3, <1>2, Zenon
  <2>4. CASE ~removeSuspendedTx(t, id, "cancel")
    <3>1. Alone(t) /\ \A x \in Txs : Owns(t, x)' <=> Owns(t, x)
      BY <2>1, <2>2, <2>4, <1>0, <1>1
    <3>2. UNCHANGED m_suspendedTXs
      BY <2>2, <2>4, Zenon
    <3> QED BY <3>1, <3>2, <2>2, <1>0, Keeps, Zenon
  <2> QED BY <2>3, <2>4, Zenon
<1>n. ASSUME NEW t \in Threads, Wake(t) PROVE Home'
  <2>1. thr[t].pc \in {"existed", "waiting"} /\ m_txState[t] = NoTx
    BY <1>n, <1>0, Zenon DEF Wake
  <2>2. PICK id :
          /\ \/ removeSuspendedTx(t, id, "cancel")
             \/ /\ UNCHANGED m_suspendedTXs
                /\ \/ thr' = thr
                   \/ thr' = [thr EXCEPT ![t] = [pc |-> "waiting", tx |-> id]]
                   \/ thr' = [thr EXCEPT ![t] = [pc |-> "idle", tx |-> NoTx]]
          /\ UNCHANGED <<m_txState, m_TXs, object, lost>>
    BY <1>n, Zenon DEF Wake, Search
  <2>3. CASE removeSuspendedTx(t, id, "cancel")
    BY <2>1, <2>2, <2>3, <1>2, Zenon
  <2>4. CASE ~removeSuspendedTx(t, id, "cancel")
    <3>1. Alone(t) /\ \A x \in Txs : Owns(t, x)' <=> Owns(t, x)
      BY <2>1, <2>2, <2>4, <1>0, <1>1
    <3>2. UNCHANGED m_suspendedTXs
      BY <2>2, <2>4, Zenon
    <3> QED BY <3>1, <3>2, <2>2, <1>0, Keeps, Zenon
  <2> QED BY <2>3, <2>4, Zenon
<1>o. ASSUME NEW t \in Threads, WaitEnds(t) PROVE Home'
  <2>1. thr[t].pc \in {"existed", "waiting"} /\ m_txState[t] = NoTx
    BY <1>o, <1>0, Zenon DEF WaitEnds
  <2>2. PICK id :
          /\ \/ removeSuspendedTx(t, id, "cancel")
             \/ /\ UNCHANGED m_suspendedTXs
                /\ \/ thr' = thr
                   \/ thr' = [thr EXCEPT ![t] = [pc |-> "waiting", tx |-> id]]
                   \/ thr' = [thr EXCEPT ![t] = [pc |-> "idle", tx |-> NoTx]]
          /\ UNCHANGED <<m_txState, m_TXs, object, lost>>
    BY <1>o, Zenon DEF WaitEnds, Search
  <2>3. CASE removeSuspendedTx(t, id, "cancel")
    BY <2>1, <2>2, <2>3, <1>2, Zenon
  <2>4. CASE ~removeSuspendedTx(t, id, "cancel")
    <3>1. Alone(t) /\ \A x \in Txs : Owns(t, x)' <=> Owns(t, x)
      BY <2>1, <2>2, <2>4, <1>0, <1>1
    <3>2. UNCHANGED m_suspendedTXs
      BY <2>2, <2>4, Zenon
    <3> QED BY <3>1, <3>2, <2>2, <1>0, Keeps, Zenon
  <2> QED BY <2>3, <2>4, Zenon
<1>p. ASSUME NEW t \in Threads, cancel(t) PROVE Home'
  <2>1. Alone(t) /\ \A x \in Txs : Owns(t, x)' <=> Owns(t, x)
    BY <1>p, <1>0, <1>1, Zenon DEF cancel
  <2>2. UNCHANGED <<m_TXs, m_suspendedTXs, object, lost>>
    BY <1>p, Zenon DEF cancel
  <2> QED BY <2>1, <2>2, <1>0, Keeps, Zenon
<1>q. ASSUME NEW t \in AllThreads, Connect(t) PROVE Home'
  <2>1. Alone(t) /\ \A x \in Txs : Owns(t, x)' <=> Owns(t, x)
    BY <1>q, <1>0, <1>1 DEF Connect
  <2>2. UNCHANGED <<m_TXs, m_suspendedTXs, object, lost>>
    BY <1>q, Zenon DEF Connect
  <2> QED BY <2>1, <2>2, <1>0, Keeps, Zenon
<1>r. ASSUME NEW t \in AllThreads, ConnectFails(t) PROVE Home'
  <2>1. thr[t].tx \in Txs /\ m_txState[t] = thr[t].tx /\ thr[t].pc = "connect"
    BY <1>r, Zenon DEF ConnectFails
  <2>2. /\ Alone(t)
        /\ \A x \in Txs : (Owns(t, x) <=> x = thr[t].tx) /\ ~Owns(t, x)'
    BY <1>r, <2>1, <1>0, <1>1, Zenon DEF ConnectFails
  <2>3. /\ object' = object /\ m_TXs' = m_TXs /\ lost' = lost \cup {thr[t].tx}
        /\ UNCHANGED m_suspendedTXs
    BY <1>r, Zenon DEF ConnectFails
  <2> QED BY <2>1, <2>2, <2>3, Drops
<1>s. ASSUME NEW i \in TaskIds, on_callback(i) PROVE Home'
  <2>1. Alone(Expiry) /\ \A x \in Txs : Owns(Expiry, x)' <=> Owns(Expiry, x)
    BY <1>s, <1>0, <1>1, Zenon DEF on_callback
  <2>2. UNCHANGED <<m_TXs, m_suspendedTXs, object, lost>>
    BY <1>s, Zenon DEF on_callback
  <2> QED BY <2>1, <2>2, <1>0, Keeps, Zenon
<1>t. ASSUME on_expire PROVE Home'
  <2>1. thr[Expiry].pc = "fire" /\ m_txState[Expiry] = NoTx
    BY <1>t, <1>0, Zenon DEF on_expire
  <2>2. PICK id :
          /\ \/ /\ id \in m_suspendedTXs
                /\ m_suspendedTXs' = m_suspendedTXs \ {id}
                /\ thr' = [thr EXCEPT ![Expiry] = [pc |-> "connect", tx |-> id]]
                /\ m_txState' = [m_txState EXCEPT ![Expiry] = id]
             \/ /\ thr' = [thr EXCEPT ![Expiry] = [pc |-> "idle", tx |-> NoTx]]
                /\ UNCHANGED <<m_txState, m_suspendedTXs>>
          /\ UNCHANGED <<m_TXs, object, lost>>
    BY <1>t, Zenon DEF on_expire, removeSuspendedTx
  <2>3. CASE /\ id \in m_suspendedTXs
             /\ m_suspendedTXs' = m_suspendedTXs \ {id}
             /\ thr' = [thr EXCEPT ![Expiry] = [pc |-> "connect", tx |-> id]]
             /\ m_txState' = [m_txState EXCEPT ![Expiry] = id]
    <3>1. /\ Alone(Expiry)
          /\ \A x \in Txs : ~Owns(Expiry, x) /\ (Owns(Expiry, x)' <=> x = id)
      BY <2>1, <2>3, <1>0, <1>1, Zenon
    <3> QED BY <3>1, <2>2, <2>3, <1>0, Takes
  <2>4. CASE /\ thr' = [thr EXCEPT ![Expiry] = [pc |-> "idle", tx |-> NoTx]]
             /\ UNCHANGED <<m_txState, m_suspendedTXs>>
    <3>1. Alone(Expiry) /\ \A x \in Txs : Owns(Expiry, x)' <=> Owns(Expiry, x)
      BY <2>1, <2>4, <1>0, <1>1, Zenon
    <3> QED BY <3>1, <2>2, <2>4, <1>0, Keeps, Zenon
  <2> QED BY <2>2, <2>3, <2>4, Zenon
<1>u. ASSUME expireRollback PROVE Home'
  <2>1. Alone(Expiry) /\ \A x \in Txs : Owns(Expiry, x)' <=> Owns(Expiry, x)
    BY <1>u, <1>0, <1>1, Zenon DEF expireRollback, RollsBack
  <2>2. UNCHANGED <<m_TXs, m_suspendedTXs, object, lost>>
    BY <1>u, Zenon DEF expireRollback, RollsBack
  <2> QED BY <2>1, <2>2, <1>0, Keeps, Zenon
<1>v. CASE UNCHANGED vars
  <2>1. Alone(Expiry) /\ \A x \in Txs : Owns(Expiry, x)' <=> Owns(Expiry, x)
    BY <1>v, Zenon DEF vars
  <2> QED BY <1>v, <2>1, <1>0, Keeps, Zenon DEF vars
<1> QED
  BY <1>0, <1>a, <1>b, <1>c, <1>d, <1>e, <1>f, <1>g, <1>h, <1>i, <1>j, <1>k,
     <1>l, <1>m, <1>n, <1>o, <1>p, <1>q, <1>r, <1>s, <1>t, <1>u, <1>v, Zenon
     DEF Next, Start, Work, Resuming, Expire

(* However the calls of the threads and the expiry thread race, a          *)
(* transaction belongs to one thread or is suspended (resume, tryResume,   *)
(* suspend, SuspendedTxExpiryTask::on_expire), and the types are kept.     *)
THEOREM InOnePlace == Spec => []OnePlace
<1>1. Init => TypeOK /\ Shape /\ Home
  BY TypeInit, ShapeInit, HomeInit, Zenon
<1>2. TypeOK /\ Shape /\ Home /\ [Next]_vars => (TypeOK /\ Shape /\ Home)'
  BY TypeStep, ShapeStep, HomeStep, Zenon
<1>3. TypeOK /\ Shape /\ Home => OnePlace
  BY Zenon DEF Home, OnePlace
<1> QED BY <1>1, <1>2, <1>3, PTL DEF Spec

-----------------------------------------------------------------------------
(* Waiting threads.                                                        *)

LEMMA WaitersInit == Init => WaitersHear
BY Zenon DEF Init, WaitersHear

(* A step that leaves the waiting ones to wait, and suspends nothing.      *)
LEMMA OthersWait ==
  ASSUME WaitersHear, NEW t \in AllThreads,
         \A u \in Threads : u # t => /\ thr'[u] = thr[u]
                                     /\ u \in notified => u \in notified',
         m_suspendedTXs' \subseteq m_suspendedTXs,
         thr'[t].pc = "waiting" => thr'[t].tx \notin m_suspendedTXs'
  PROVE  WaitersHear'
BY Zenon DEF WaitersHear, At

LEMMA WaitersStep ==
  TypeOK /\ Shape /\ WaitersHear /\ [Next]_vars => WaitersHear'
<1> SUFFICES ASSUME TypeOK, Shape, WaitersHear, [Next]_vars PROVE WaitersHear'
  BY Zenon
<1>0. /\ Threads \subseteq AllThreads /\ Expiry \in AllThreads
      /\ Expiry \notin Threads
  BY TxAssumption, Zenon DEF AllThreads
<1>1. thr \in [AllThreads -> [pc : Pcs, tx : Txs \cup {NoTx}]]
  BY Zenon DEF TypeOK
<1> USE DEF At, Becomes, Rests, Idle
<1>a. ASSUME NEW t \in Threads,
             begin(t) \/ Operation(t) \/ ThreadEnds(t)
      PROVE  WaitersHear'
  BY <1>a, Zenon DEF begin, Operation, ThreadEnds, WaitersHear
<1>2. ASSUME NEW t \in AllThreads, NEW pc, pc # "waiting", NEW x,
             thr' = [thr EXCEPT ![t] = [pc |-> pc, tx |-> x]],
             m_suspendedTXs' = m_suspendedTXs, notified' = notified
      PROVE  WaitersHear'
  BY <1>2, <1>0, <1>1, OthersWait, Zenon
<1>3. ASSUME NEW t \in AllThreads, NEW pc, pc # "waiting", NEW x,
             removeSuspendedTx(t, x, pc), notified' = notified
      PROVE  WaitersHear'
  <2>1. /\ thr' = [thr EXCEPT ![t] = [pc |-> pc, tx |-> x]]
        /\ m_suspendedTXs' \subseteq m_suspendedTXs
    BY <1>3, Zenon DEF removeSuspendedTx
  <2> QED BY <1>3, <2>1, <1>0, <1>1, OthersWait, Zenon
<1>b. ASSUME NEW t \in Threads, prepare(t) PROVE WaitersHear'
  <2>1. PICK x \in Txs :
          /\ \/ thr' = thr
             \/ thr' = [thr EXCEPT ![t] = [pc |-> "clean", tx |-> x]]
          /\ m_suspendedTXs' = m_suspendedTXs /\ notified' = notified
    BY <1>b, Zenon DEF prepare
  <2>2. CASE thr' = thr
    BY <2>1, <2>2, Zenon DEF WaitersHear
  <2>3. CASE thr' = [thr EXCEPT ![t] = [pc |-> "clean", tx |-> x]]
    BY <2>1, <2>3, <1>0, <1>2, Zenon
  <2> QED BY <2>1, <2>2, <2>3, Zenon
<1>c. ASSUME NEW t \in Threads, commit(t) PROVE WaitersHear'
  BY <1>c, <1>0, <1>2, Zenon DEF commit
<1>d. ASSUME NEW t \in Threads, rollback(t) PROVE WaitersHear'
  BY <1>d, <1>0, <1>2, Zenon DEF rollback, RollsBack
<1>e. ASSUME NEW t \in Threads, suspend(t) PROVE WaitersHear'
  BY <1>e, <1>0, <1>2, Zenon DEF suspend
<1>f. ASSUME NEW t \in AllThreads, clean(t) PROVE WaitersHear'
  BY <1>f, <1>0, <1>2, Zenon DEF clean
<1>g. ASSUME NEW t \in AllThreads, Connect(t) PROVE WaitersHear'
  <2>1. PICK pc \in {"rollback", "idle"}, x \in {thr[t].tx, NoTx} :
          thr' = [thr EXCEPT ![t] = [pc |-> pc, tx |-> x]]
    BY <1>g, Zenon DEF Connect
  <2>2. m_suspendedTXs' = m_suspendedTXs /\ notified' = notified
    BY <1>g, Zenon DEF Connect
  <2> QED BY <2>1, <2>2, <1>2, Zenon
<1>h. ASSUME NEW t \in AllThreads, ConnectFails(t) PROVE WaitersHear'
  BY <1>h, <1>0, <1>2, Zenon DEF ConnectFails
<1>i. ASSUME NEW t \in Threads, cancel(t) PROVE WaitersHear'
  BY <1>i, <1>0, <1>2, Zenon DEF cancel
<1>j. ASSUME NEW t \in Threads, Forget(t) PROVE WaitersHear'
  BY <1>j, <1>0, <1>2, Zenon DEF Forget
<1>k. ASSUME NEW t \in Threads, addSuspendedTx(t) PROVE WaitersHear'
  BY <1>k, <1>0, <1>1, Zenon DEF addSuspendedTx, Waiting, WaitersHear
<1>l. ASSUME NEW t \in Threads, Look(t) \/ Wake(t) \/ WaitEnds(t)
      PROVE  WaitersHear'
  <2>1. PICK id :
          /\ notified' = notified \ {t}
          /\ \/ /\ thr' = [thr EXCEPT ![t] = [pc |-> "cancel", tx |-> id]]
                /\ m_suspendedTXs' = m_suspendedTXs \ {id}
             \/ /\ id \notin m_suspendedTXs /\ UNCHANGED m_suspendedTXs
                /\ \/ thr' = thr /\ id = thr[t].tx
                   \/ thr' = [thr EXCEPT ![t] = [pc |-> "waiting", tx |-> id]]
                   \/ thr' = [thr EXCEPT ![t] = [pc |-> "idle", tx |-> NoTx]]
    BY <1>l, Zenon DEF Look, Wake, WaitEnds, Search, removeSuspendedTx
  <2>2. thr'[t].pc = "waiting" => thr'[t].tx \notin m_suspendedTXs'
    BY <2>1, <1>0, <1>1
  <2> QED BY <2>1, <2>2, <1>0, <1>1, OthersWait, Zenon
<1>m. ASSUME NEW t \in Threads, resume(t) PROVE WaitersHear'
  BY <1>m, <1>0, <1>3, Zenon DEF resume
<1>n. ASSUME NEW t \in Threads, tryResume(t) PROVE WaitersHear'
  BY <1>n, <1>0, <1>2, Zenon DEF tryResume
<1>o. ASSUME NEW i \in TaskIds, on_callback(i) PROVE WaitersHear'
  BY <1>o, <1>0, <1>2, Zenon DEF on_callback
<1>p. ASSUME on_expire PROVE WaitersHear'
  BY <1>p, <1>0, <1>2, <1>3, Zenon DEF on_expire
<1>q. ASSUME expireRollback PROVE WaitersHear'
  BY <1>q, <1>0, <1>2, Zenon DEF expireRollback, RollsBack
<1>r. CASE UNCHANGED vars
  BY <1>r, Zenon DEF vars, WaitersHear
<1> QED
  BY <1>0, <1>a, <1>b, <1>c, <1>d, <1>e, <1>f, <1>g, <1>h, <1>i, <1>j, <1>k,
     <1>l, <1>m, <1>n, <1>o, <1>p, <1>q, <1>r, Zenon
     DEF Next, Start, Work, Resuming, Expire

(* A thread in tryResume does not sleep while the transaction it waits for *)
(* is suspended (addSuspendedTx notifies under the lock of the map).       *)
THEOREM WaitersAreWoken == Spec => []WaitersHear
<1>1. Init => TypeOK /\ Shape /\ WaitersHear
  BY TypeInit, ShapeInit, WaitersInit, Zenon
<1>2. TypeOK /\ Shape /\ WaitersHear /\ [Next]_vars
        => (TypeOK /\ Shape /\ WaitersHear)'
  BY TypeStep, ShapeStep, WaitersStep, Zenon
<1> QED BY <1>1, <1>2, PTL DEF Spec

-----------------------------------------------------------------------------
(* Connections.                                                            *)

LEMMA ExclusiveInit == Init => ConnectionsExclusive
BY Zenon DEF Init, ConnectionsExclusive

(* A connection that is taken is used by nobody, or has been moved.        *)
LEMMA TakenIsFree ==
  ASSUME TypeOK, ConnectionsExclusive, NEW c \in getConnectionFromQueue
  PROVE  c # NoConn /\ (c \in moved \/ \A u \in AllThreads : conn[u] # c)
<1>1. c \in Conns /\ c # NoConn
  BY QueueType, TxAssumption, Zenon
<1> QED BY <1>1, Zenon DEF getConnectionFromQueue, New, ConnectionsExclusive

(* The ways the connection of thread t changes.                            *)
Moves(t) ==
  \/ UNCHANGED connections
  \/ setStickyNull(t) /\ UNCHANGED moved
  \/ releaseThreadLocalConnection(t) /\ UNCHANGED moved
  \/ \E c \in getConnectionFromQueue :
       \/ setStickyConnection(t, c) /\ UNCHANGED moved
       \/ addStickyConnection(t, c) /\ UNCHANGED moved
       \/ /\ \E d \in {c, NoConn} : conn' = [conn EXCEPT ![t] = d]
          /\ queue' = queue \cup {c} /\ moved' = moved \cup {c}

LEMMA ExclusiveMoves ==
  ASSUME TypeOK, ConnectionsExclusive, NEW t \in AllThreads, Moves(t)
  PROVE  ConnectionsExclusive'
<1>0. conn \in [AllThreads -> Conns \cup {NoConn}]
  BY Zenon DEF TypeOK
<1>1. CASE UNCHANGED connections
  BY <1>1, Zenon DEF ConnectionsExclusive
<1>2. CASE setStickyNull(t) /\ UNCHANGED moved
  BY <1>0, <1>2, Zenon DEF ConnectionsExclusive, setStickyNull
<1>3. CASE releaseThreadLocalConnection(t) /\ UNCHANGED moved
  BY <1>0, <1>3, Zenon
     DEF ConnectionsExclusive, releaseThreadLocalConnection, Some
<1>4. ASSUME NEW c \in getConnectionFromQueue,
             setStickyConnection(t, c) /\ UNCHANGED moved
      PROVE  ConnectionsExclusive'
  BY <1>0, <1>4, TakenIsFree, Zenon
     DEF ConnectionsExclusive, setStickyConnection
<1>5. ASSUME NEW c \in getConnectionFromQueue,
             addStickyConnection(t, c) /\ UNCHANGED moved
      PROVE  ConnectionsExclusive'
  BY <1>0, <1>5, TakenIsFree, Zenon
     DEF ConnectionsExclusive, addStickyConnection, Some
<1>6. ASSUME NEW c \in getConnectionFromQueue, NEW d \in {c, NoConn},
             conn' = [conn EXCEPT ![t] = d], queue' = queue \cup {c},
             moved' = moved \cup {c}
      PROVE  ConnectionsExclusive'
  BY <1>0, <1>6, TakenIsFree, Zenon DEF ConnectionsExclusive
<1> QED
  BY <1>1, <1>2, <1>3, <1>4, <1>5, <1>6, Zenon DEF Moves

LEMMA EndsMoves ==
  ASSUME NEW t \in AllThreads, NEW x, NEW outcome, NEW ok,
         NothingToEnd(t, ok) \/ Ends(t, x, outcome, ok)
  PROVE  Moves(t)
BY Zenon DEF NothingToEnd, Ends, Disconnects, Moves

LEMMA ExclusiveStep ==
  TypeOK /\ ConnectionsExclusive /\ [Next]_vars => ConnectionsExclusive'
<1> SUFFICES ASSUME TypeOK, ConnectionsExclusive, [Next]_vars
             PROVE  ConnectionsExclusive'
  BY Zenon
<1>0. Threads \subseteq AllThreads /\ Expiry \in AllThreads
  BY Zenon DEF AllThreads
<1>a. ASSUME NEW t \in Threads, Start(t) PROVE Moves(t)
  <2>1. ASSUME Operation(t) PROVE Moves(t)
    BY <2>1, Zenon DEF Operation, Disconnects, Moves
  <2>2. ASSUME prepare(t) PROVE Moves(t)
    BY <2>2, Zenon DEF prepare, Disconnects, Moves
  <2>3. ASSUME commit(t) PROVE Moves(t)
    BY <2>3, <1>0, EndsMoves, Zenon DEF commit
  <2>4. ASSUME rollback(t) PROVE Moves(t)
    BY <2>4, <1>0, EndsMoves, Zenon DEF rollback, RollsBack
  <2>5. ASSUME ThreadEnds(t) \/ suspend(t) PROVE Moves(t)
    BY <2>5, Zenon DEF ThreadEnds, suspend, Moves
  <2>6. ASSUME begin(t) \/ resume(t) \/ tryResume(t) PROVE Moves(t)
    BY <2>6, Zenon DEF begin, resume, tryResume, Moves
  <2> QED BY <1>a, <2>1, <2>2, <2>3, <2>4, <2>5, <2>6, Zenon DEF Start
<1>b. ASSUME NEW t \in AllThreads, clean(t) \/ Connect(t) \/ ConnectFails(t)
      PROVE  Moves(t)
  <2>1. ASSUME clean(t) PROVE Moves(t)
    BY <2>1, Zenon DEF clean, Moves
  <2>2. ASSUME Connect(t) PROVE Moves(t)
    BY <2>2, Zenon DEF Connect, Moves
  <2>3. ASSUME ConnectFails(t) PROVE Moves(t)
    BY <2>3, Zenon DEF ConnectFails, Moves
  <2> QED BY <1>b, <2>1, <2>2, <2>3, Zenon
<1>c. ASSUME NEW t \in Threads,
             \/ addSuspendedTx(t) \/ Forget(t) \/ cancel(t)
             \/ Look(t) \/ Wake(t) \/ WaitEnds(t)
      PROVE  Moves(t)
  BY <1>c, Zenon
     DEF addSuspendedTx, Forget, cancel, Look, Wake, WaitEnds, Search, Moves
<1>d. ASSUME (\E i \in TaskIds : on_callback(i)) \/ on_expire \/ UNCHANGED vars
      PROVE  Moves(Expiry)
  BY <1>d, Zenon DEF on_callback, on_expire, vars, Moves
<1>e. ASSUME expireRollback PROVE Moves(Expiry)
  BY <1>e, <1>0, EndsMoves, Zenon DEF expireRollback, RollsBack
<1>1. \E t \in AllThreads : Moves(t)
  BY <1>0, <1>a, <1>b, <1>c, <1>d, <1>e, Zenon DEF Next, Work, Resuming, Expire
<1> QED BY <1>1, ExclusiveMoves, Zenon

(* Whatever fails, a connection is used by one thread, or idle in the      *)
(* queue, but those that a resume has moved a transaction to               *)
(* (ThinClientStickyManager, and the queue of ThinClientPoolDM).           *)
THEOREM ConnectionsAreExclusive == Spec => []ConnectionsExclusive
<1>1. Init => TypeOK /\ Shape /\ ConnectionsExclusive
  BY TypeInit, ShapeInit, ExclusiveInit, Zenon
<1>2. TypeOK /\ Shape /\ ConnectionsExclusive /\ [Next]_vars
        => (TypeOK /\ Shape /\ ConnectionsExclusive)'
  BY TypeStep, ShapeStep, ExclusiveStep, Zenon
<1> QED BY <1>1, <1>2, PTL DEF Spec

-----------------------------------------------------------------------------
(* Commits.                                                                *)

(* A commit that has returned is known until its thread cleans up; a       *)
(* thread whose operations all succeeded has their connection.             *)
Commits ==
  /\ CommitIsDone
  /\ \A x \in done : \E t \in AllThreads : At(t, "clean") /\ thr[t].tx = x
  /\ \A x \in worked : object[x] # "none"
  /\ \A t \in AllThreads, x \in worked \ failed : In(t, x) => conn[t] # NoConn

LEMMA CommitsInit == Init => Commits
BY Zenon DEF Init, Commits, CommitIsDone

(* A step of thread t that is about the transaction y, its own, if any.    *)
Only(t, y) ==
  /\ \A u \in AllThreads : u # t =>
       /\ thr'[u] = thr[u] /\ m_txState'[u] = m_txState[u] /\ conn'[u] = conn[u]
       /\ y \in Txs => ~In(u, y)
  /\ At(t, "clean") => y = thr[t].tx
  /\ \A x \in Txs : x # y =>
       /\ x \in worked' <=> x \in worked
       /\ x \in failed' <=> x \in failed
       /\ x \in done' <=> x \in done
       /\ server'[x] = server[x]
       /\ object'[x] = object[x]

LEMMA OnlyCommits ==
  ASSUME TypeOK', Commits, NEW t \in AllThreads, NEW y, Only(t, y),
         y \in done' => /\ server'[y] = "committed" \/ y \notin worked'
                           \/ y \in failed'
                        /\ thr'[t].pc = "clean" /\ thr'[t].tx = y,
         y \in worked' => object'[y] # "none",
         \A x \in worked' \ failed' :
           thr'[t].pc = "idle" /\ m_txState'[t] = x => conn'[t] # NoConn
  PROVE  Commits'
<1>0. worked' \subseteq Txs /\ done' \subseteq Txs
  BY Zenon DEF TypeOK
<1>1. CommitIsDone'
  BY <1>0, Zenon DEF Commits, CommitIsDone, Only
<1>2. ASSUME NEW x \in done'
      PROVE  \E u \in AllThreads : thr'[u].pc = "clean" /\ thr'[u].tx = x
  <2>1. CASE x = y
    BY <2>1, <1>2, Zenon
  <2>2. CASE x # y
    <3>1. x \in done
      BY <2>2, <1>0, <1>2, Zenon DEF Only
    <3>2. PICK u \in AllThreads : thr[u].pc = "clean" /\ thr[u].tx = x
      BY <3>1, Zenon DEF Commits, At
    <3>3. u # t
      BY <3>2, <2>2, Zenon DEF Only, At
    <3> QED BY <3>2, <3>3, Zenon DEF Only
  <2> QED BY <2>1, <2>2, Zenon
<1>3. \A x \in worked' : object'[x] # "none"
  BY <1>0, Zenon DEF Commits, Only
<1>4. ASSUME NEW u \in AllThreads, NEW x \in worked' \ failed',
             thr'[u].pc = "idle", m_txState'[u] = x
      PROVE  conn'[u] # NoConn
  <2>1. CASE u = t
    BY <2>1, <1>4, Zenon
  <2>2. CASE u # t
    <3>1. In(u, x) /\ conn'[u] = conn[u]
      BY <2>2, <1>4, Zenon DEF Only, In, At
    <3>2. x # y
      BY <3>1, <2>2, <1>0, Zenon DEF Only
    <3> QED BY <3>1, <3>2, <1>0, Zenon DEF Only, Commits
  <2> QED BY <2>1, <2>2, Zenon
<1> QED BY <1>1, <1>2, <1>3, <1>4, Zenon DEF Commits, At, In

(* The transaction of a thread is nobody else's, and is not committed yet. *)
LEMMA OwnsAlone ==
  ASSUME Shape, Home, Commits, NEW t \in AllThreads, NEW y \in Txs, Owns(t, y)
  PROVE  /\ \A u \in AllThreads : u # t => ~In(u, y)
         /\ y \in done => At(t, "clean")
         /\ object[y] # "none"
<1>1. \A u \in AllThreads : In(u, y) => Owns(u, y)
  BY Zenon DEF In, Owns, At
<1>2. \A u \in AllThreads : At(u, "clean") /\ thr[u].tx = y => Owns(u, y)
  BY Zenon DEF Owns, At, Shape
<1>3. y \in m_TXs /\ \A u \in AllThreads : Owns(u, y) => u = t
  BY Zenon DEF Home, Placed
<1>4. y \in done => At(t, "clean")
  BY <1>2, <1>3, Zenon DEF Commits
<1> QED BY <1>1, <1>3, <1>4, Zenon DEF Home

LEMMA UnknownAlone ==
  ASSUME Shape, Home, Commits, NEW y \in Txs, object[y] = "none"
  PROVE  /\ \A u \in AllThreads : ~In(u, y)
         /\ y \notin done /\ y \notin worked
<1>1. \A u \in AllThreads : ~Owns(u, y)
  BY OwnsAlone, Zenon
<1>2. \A u \in AllThreads : ~In(u, y) /\ ~(At(u, "clean") /\ thr[u].tx = y)
  BY <1>1, Zenon DEF In, Owns, At, Shape
<1> QED BY <1>2, Zenon DEF Commits

LEMMA MovesOwn ==
  ASSUME TypeOK, NEW t \in AllThreads, Moves(t)
  PROVE  \A u \in AllThreads : u # t => conn'[u] = conn[u]
BY DEF Moves, TypeOK, setStickyNull, releaseThreadLocalConnection,
       setStickyConnection, addStickyConnection

LEMMA CommitsStep ==
  ASSUME TypeOK, Shape, Home, Commits, [Next]_vars, TypeOK'
  PROVE  Commits'
<1>0. /\ Threads \subseteq AllThreads /\ Expiry \in AllThreads
      /\ Expiry \notin Threads /\ NoTx \notin Txs /\ NoConn \notin Conns
  BY TxAssumption, Zenon DEF AllThreads
<1>1. /\ thr \in [AllThreads -> [pc : Pcs, tx : Txs \cup {NoTx}]]
      /\ m_txState \in [AllThreads -> Txs \cup {NoTx}]
      /\ conn \in [AllThreads -> Conns \cup {NoConn}]
      /\ server \in [Txs -> {"none", "open", "committed", "rolledBack"}]
      /\ object \in [Txs -> {"none", "live", "deleted"}]
      /\ worked \subseteq Txs /\ failed \subseteq Txs /\ done \subseteq Txs
      /\ worked' \subseteq Txs
  BY Zenon DEF TypeOK
<1>2. \A c \in getConnectionFromQueue : c # NoConn
  BY <1>0, QueueType, Zenon
(* A step that no history tells of.                                        *)
<1>3. ASSUME NEW t \in AllThreads, ~At(t, "clean"), Moves(t), Alone(t),
             UNCHANGED <<server, worked, failed, done, object>>,
             thr'[t].pc = "idle" => m_txState'[t] = NoTx \/ conn'[t] # NoConn
      PROVE  Commits'
  <2>1. Only(t, NoTx)
    BY <1>3, <1>0, MovesOwn, Zenon DEF Only, Alone
  <2>2. NoTx \notin done' /\ NoTx \notin worked'
    BY <1>3, <1>0, <1>1, Zenon
  <2> QED BY <1>3, <2>1, <2>2, <1>0, <1>1, OnlyCommits, Zenon
<1> USE DEF At, Becomes, Rests, SetTXState, Idle
<1>a. ASSUME NEW t \in Threads, begin(t) PROVE Commits'
  <2>1. PICK y \in Txs :
          /\ object[y] = "none" /\ object' = [object EXCEPT ![y] = "live"]
          /\ m_txState' = [m_txState EXCEPT ![t] = y]
          /\ thr[t].pc = "idle"
          /\ UNCHANGED <<conn, thr, server, worked, failed, done>>
    BY <1>a, Zenon DEF begin, Free
  <2>2. (\A u \in AllThreads : ~In(u, y)) /\ y \notin done /\ y \notin worked
    BY <2>1, UnknownAlone, Zenon
  <2>3. Only(t, y)
    BY <2>1, <2>2, <1>0, <1>1, Zenon DEF Only
  <2> QED BY <2>1, <2>2, <2>3, <1>0, <1>1, OnlyCommits, Zenon
<1>b. ASSUME NEW t \in Threads, Operation(t) PROVE Commits'
  <2>1. PICK y \in Txs :
          /\ thr[t].pc = "idle" /\ m_txState[t] = y
          /\ \/ /\ \/ conn[t] # NoConn /\ UNCHANGED <<conn, queue>>
                   \/ \E c \in getConnectionFromQueue : setStickyConnection(t, c)
                /\ worked' = worked \cup {y}
                /\ server' = [server EXCEPT ![y] = "open"]
                /\ failed' = failed /\ moved' = moved
             \/ /\ Disconnects(t)
                /\ failed' = failed \cup {y}
                /\ UNCHANGED <<worked, server>>
          /\ UNCHANGED <<m_txState, thr, done, object>>
    BY <1>b, Zenon DEF Operation, In
  <2>2. Moves(t)
    BY <2>1, Zenon DEF Moves, Disconnects
  <2>3. Owns(t, y)
    BY <2>1, Zenon DEF Owns
  <2>4. /\ \A u \in AllThreads : u # t => ~In(u, y)
        /\ y \notin done /\ object[y] # "none"
    BY <2>1, <2>3, <1>0, OwnsAlone, Zenon
  <2>5. Only(t, y)
    BY <2>1, <2>2, <2>4, <1>0, <1>1, MovesOwn DEF Only
  <2>6. \A x \in worked' \ failed' : m_txState'[t] = x => conn'[t] # NoConn
    BY <2>1, <1>0, <1>1, <1>2 DEF setStickyConnection
  <2> QED BY <2>1, <2>4, <2>5, <2>6, <1>0, OnlyCommits, Zenon
<1>c. ASSUME NEW t \in Threads, prepare(t) PROVE Commits'
  <2>1. PICK y \in Txs :
          /\ thr[t].pc = "idle" /\ m_txState[t] = y
          /\ \/ /\ Disconnects(t)
                /\ failed' = failed \cup {y}
                /\ UNCHANGED <<server, thr>>
             \/ /\ server' = [server EXCEPT ![y] = "rolledBack"]
                /\ thr' = [thr EXCEPT ![t] = [pc |-> "clean", tx |-> y]]
                /\ UNCHANGED <<connections, failed>>
          /\ UNCHANGED <<m_txState, worked, done, object>>
    BY <1>c, Zenon DEF prepare, In
  <2>2. Moves(t)
    BY <2>1, Zenon DEF Moves, Disconnects
  <2>3. Owns(t, y)
    BY <2>1, Zenon DEF Owns
  <2>4. /\ \A u \in AllThreads : u # t => ~In(u, y)
        /\ y \notin done /\ object[y] # "none"
    BY <2>1, <2>3, <1>0, OwnsAlone, Zenon
  <2>5. Only(t, y)
    BY <2>1, <2>2, <2>4, <1>0, <1>1, MovesOwn DEF Only
  <2>6. \A x \in worked' \ failed' :
          thr'[t].pc = "idle" /\ m_txState'[t] = x => conn'[t] # NoConn
    BY <2>1, <1>0, <1>1
  <2> QED BY <2>1, <2>4, <2>5, <2>6, <1>0, OnlyCommits, Zenon
<1>d. ASSUME NEW t \in Threads, commit(t) PROVE Commits'
  <2>1. PICK y \in Txs :
          /\ thr[t].pc = "idle" /\ m_txState[t] = y
          /\ NothingToEnd(t, {y}) \/ Ends(t, y, "committed", {y})
          /\ thr' = [thr EXCEPT ![t] = [pc |-> "clean", tx |-> y]]
          /\ UNCHANGED <<m_txState, worked, failed, object>>
    BY <1>d, Zenon DEF commit, In
  <2>2. Moves(t)
    BY <2>1, <1>0, EndsMoves, Zenon
  <2>3. Owns(t, y)
    BY <2>1, Zenon DEF Owns
  <2>4. /\ \A u \in AllThreads : u # t => ~In(u, y)
        /\ y \notin done /\ object[y] # "none"
    BY <2>1, <2>3, <1>0, OwnsAlone, Zenon
  <2>5. /\ done' = done \/ done' = done \cup {y}
        /\ server' = server \/ \E o : server' = [server EXCEPT ![y] = o]
    BY <2>1, Zenon DEF NothingToEnd, Ends
  <2>6. Only(t, y)
    <3>1. \A u \in AllThreads : u # t => conn'[u] = conn[u]
      BY <2>2, <1>0, MovesOwn, Zenon
    <3>2. \A u \in AllThreads :
            u # t => thr'[u] = thr[u] /\ m_txState'[u] = m_txState[u]
      BY <2>1, <1>1, Zenon
    <3>3. \A x \in Txs : x # y => /\ x \in done' <=> x \in done
                                  /\ server'[x] = server[x]
      BY <2>5, <1>1, Zenon
    <3> QED BY <2>1, <2>4, <3>1, <3>2, <3>3, Zenon DEF Only
  <2>7. ASSUME y \in done'
        PROVE  server'[y] = "committed" \/ y \notin worked' \/ y \in failed'
    <3>1. CASE NothingToEnd(t, {y})
      <4>1. conn[t] = NoConn /\ In(t, y)
        BY <3>1, <2>1, Zenon DEF NothingToEnd, In
      <4> QED BY <4>1, <2>1, <1>0, Zenon DEF Commits
    <3>2. CASE Ends(t, y, "committed", {y})
      BY <3>2, <2>4, <2>7, <1>1, Zenon DEF Ends
    <3> QED BY <3>1, <3>2, <2>1, Zenon
  <2>8. thr'[t].pc = "clean" /\ thr'[t].tx = y
    BY <2>1, <1>0, <1>1, Zenon
  <2> QED BY <2>1, <2>4, <2>6, <2>7, <2>8, <1>0, OnlyCommits, Zenon
<1>4. ASSUME NEW t \in AllThreads, NEW y \in Txs, Owns(t, y), ~At(t, "clean"),
             RollsBack(t, y)
      PROVE  Commits'
  <2>1. /\ done' = done /\ UNCHANGED <<m_txState, worked, failed, object>>
        /\ server' = server \/ \E o : server' = [server EXCEPT ![y] = o]
        /\ thr' = [thr EXCEPT ![t] = [pc |-> "clean", tx |-> y]]
    BY <1>4, Zenon DEF RollsBack, NothingToEnd, Ends
  <2>2. Moves(t)
    BY <1>4, EndsMoves, Zenon DEF RollsBack
  <2>3. /\ \A u \in AllThreads : u # t => ~In(u, y)
        /\ y \notin done /\ object[y] # "none"
    BY <1>4, OwnsAlone, Zenon
  <2>4. Only(t, y)
    BY <1>4, <2>1, <2>2, <2>3, <1>0, <1>1, MovesOwn, Zenon DEF Only
  <2>5. thr'[t].pc = "clean"
    BY <2>1, <1>1, Zenon
  <2> QED BY <2>1, <2>3, <2>4, <2>5, OnlyCommits, Zenon
<1>e. ASSUME NEW t \in Threads, rollback(t) PROVE Commits'
  <2>1. PICK y \in Txs :
          thr[t].pc = "idle" /\ m_txState[t] = y /\ RollsBack(t, y)
    BY <1>e, Zenon DEF rollback, In
  <2> QED BY <2>1, <1>0, <1>4, Zenon DEF Owns
<1>f. ASSUME expireRollback PROVE Commits'
  <2>1. /\ thr[Expiry].pc = "rollback" /\ RollsBack(Expiry, thr[Expiry].tx)
        /\ thr[Expiry].tx \in Txs /\ m_txState[Expiry] = thr[Expiry].tx
    BY <1>f, <1>0, Zenon DEF expireRollback, Shape
  <2> QED BY <2>1, <1>0, <1>4, Zenon DEF Owns
<1>g. ASSUME NEW t \in AllThreads, clean(t) PROVE Commits'
  <2> DEFINE y == thr[t].tx
  <2>1. y \in Txs /\ Owns(t, y)
    BY <1>g, Zenon DEF clean, Shape, Owns
  <2>2. \A u \in AllThreads : u # t => ~In(u, y)
    BY <2>1, OwnsAlone, Zenon
  <2>3. /\ done' = done \ {y}
        /\ worked' = worked \ {y} /\ failed' = failed \ {y}
        /\ server' = [server EXCEPT ![y] = "none"]
        /\ object' = [object EXCEPT ![y] = "deleted"]
        /\ m_txState' = [m_txState EXCEPT ![t] = NoTx]
        /\ thr' = [thr EXCEPT ![t] = [pc |-> "idle", tx |-> NoTx]]
        /\ conn' = [conn EXCEPT ![t] = NoConn]
    BY <1>g, Zenon DEF clean, Over, releaseThreadLocalConnection
  <2>4. m_txState'[t] = NoTx /\ NoTx \notin worked'
    BY <2>3, <1>0, <1>1, Zenon
  <2> HIDE DEF y
  <2>5. /\ \A u \in AllThreads : u # t => /\ thr'[u] = thr[u]
                                          /\ m_txState'[u] = m_txState[u]
                                          /\ conn'[u] = conn[u]
        /\ \A x \in Txs :
             x # y => server'[x] = server[x] /\ object'[x] = object[x]
    BY <2>3, <1>1, Zenon
  <2>6. Only(t, y)
    BY <2>2, <2>3, <2>5, Zenon DEF Only, y
  <2> QED BY <2>3, <2>4, <2>6, OnlyCommits, Zenon
<1>h. ASSUME NEW t \in Threads, ThreadEnds(t) PROVE Commits'
  <2>1. PICK y \in Txs :
          /\ thr[t].pc = "idle" /\ m_txState[t] = y
          /\ m_txState' = [m_txState EXCEPT ![t] = NoTx]
          /\ object' = [object EXCEPT ![y] = "deleted"]
          /\ conn' = [conn EXCEPT ![t] = NoConn]
          /\ UNCHANGED <<thr, server, worked, failed, done>>
    BY <1>h, Zenon DEF ThreadEnds, In, releaseThreadLocalConnection
  <2>2. Owns(t, y)
    BY <2>1, Zenon DEF Owns
  <2>3. (\A u \in AllThreads : u # t => ~In(u, y)) /\ y \notin done
    BY <2>1, <2>2, <1>0, OwnsAlone, Zenon
  <2>4. Only(t, y)
    BY <2>1, <2>3, <1>0, <1>1, Zenon DEF Only
  <2>5. m_txState'[t] \notin worked' /\ object'[y] # "none"
    BY <2>1, <1>0, <1>1, Zenon
  <2> QED BY <2>1, <2>3, <2>4, <2>5, <1>0, OnlyCommits, Zenon
<1>i. ASSUME NEW t \in Threads, suspend(t) PROVE Commits'
  <2>1. PICK x \in Txs :
          /\ thr[t].pc = "idle"
          /\ thr' = [thr EXCEPT ![t] = [pc |-> "add", tx |-> x]]
          /\ UNCHANGED <<m_txState, server, worked, failed, done, object>>
    BY <1>i, Zenon DEF suspend, In
  <2>2. Alone(t) /\ thr'[t].pc = "add"
    BY <2>1, <1>0, <1>1, Zenon DEF Alone
  <2>3. Moves(t)
    BY <1>i, Zenon DEF suspend, Moves
  <2> QED BY <2>1, <2>2, <2>3, <1>0, <1>3, Zenon
<1>j. ASSUME NEW t \in Threads, addSuspendedTx(t) PROVE Commits'
  <2>1. /\ ~At(t, "clean") /\ Alone(t)
        /\ UNCHANGED <<server, worked, failed, done, object>>
        /\ thr'[t].pc = "idle" => m_txState'[t] = NoTx \/ conn'[t] # NoConn
    BY <1>j, <1>0, <1>1, <1>2, Zenon DEF addSuspendedTx, Alone
  <2>2. Moves(t)
    BY <1>j, Zenon DEF addSuspendedTx, Moves
  <2> QED BY <2>1, <2>2, <1>0, <1>3, Zenon
<1>k. ASSUME NEW t \in Threads, Forget(t) PROVE Commits'
  <2>1. /\ ~At(t, "clean") /\ Alone(t)
        /\ UNCHANGED <<server, worked, failed, done, object>>
        /\ thr'[t].pc = "idle" => m_txState'[t] = NoTx \/ conn'[t] # NoConn
    BY <1>k, <1>0, <1>1, <1>2, Zenon DEF Forget, Alone
  <2>2. Moves(t)
    BY <1>k, Zenon DEF Forget, Moves
  <2> QED BY <2>1, <2>2, <1>0, <1>3, Zenon
<1>l. ASSUME NEW t \in Threads, resume(t) PROVE Commits'
  <2>1. /\ ~At(t, "clean") /\ Alone(t)
        /\ UNCHANGED <<server, worked, failed, done, object>>
        /\ thr'[t].pc = "idle" => m_txState'[t] = NoTx \/ conn'[t] # NoConn
    BY <1>l, <1>0, <1>1, <1>2, Zenon DEF resume, removeSuspendedTx, Free, Alone
  <2>2. Moves(t)
    BY <1>l, Zenon DEF resume, removeSuspendedTx, Free, Moves
  <2> QED BY <2>1, <2>2, <1>0, <1>3, Zenon
<1>m. ASSUME NEW t \in Threads, tryResume(t) PROVE Commits'
  <2>1. /\ ~At(t, "clean") /\ Alone(t)
        /\ UNCHANGED <<server, worked, failed, done, object>>
        /\ thr'[t].pc = "idle" => m_txState'[t] = NoTx \/ conn'[t] # NoConn
    BY <1>m, <1>0, <1>1, <1>2, Zenon DEF tryResume, Free, Alone
  <2>2. Moves(t)
    BY <1>m, Zenon DEF tryResume, Free, Moves
  <2> QED BY <2>1, <2>2, <1>0, <1>3, Zenon
<1>n. ASSUME NEW t \in Threads, Look(t) PROVE Commits'
  <2>1. /\ ~At(t, "clean") /\ Alone(t)
        /\ UNCHANGED <<server, worked, failed, done, object>>
        /\ thr'[t].pc = "idle" => m_txState'[t] = NoTx \/ conn'[t] # NoConn
    BY <1>n, <1>0, <1>1, <1>2 DEF Look, Search, removeSuspendedTx, Alone, Shape
  <2>2. Moves(t)
    BY <1>n, Zenon DEF Look, Search, removeSuspendedTx, Moves
  <2> QED BY <2>1, <2>2, <1>0, <1>3, Zenon
<1>o. ASSUME NEW t \in Threads, Wake(t) PROVE Commits'
  <2>1. /\ ~At(t, "clean") /\ Alone(t)
        /\ UNCHANGED <<server, worked, failed, done, object>>
        /\ thr'[t].pc = "idle" => m_txState'[t] = NoTx \/ conn'[t] # NoConn
    BY <1>o, <1>0, <1>1, <1>2, Zenon
       DEF Wake, Search, removeSuspendedTx, Alone, Shape
  <2>2. Moves(t)
    BY <1>o, Zenon DEF Wake, Search, removeSuspendedTx, Moves
  <2> QED BY <2>1, <2>2, <1>0, <1>3, Zenon
<1>p. ASSUME NEW t \in Threads, WaitEnds(t) PROVE Commits'
  <2>1. /\ ~At(t, "clean") /\ Alone(t)
        /\ UNCHANGED <<server, worked, failed, done, object>>
        /\ thr'[t].pc = "idle" => m_txState'[t] = NoTx \/ conn'[t] # NoConn
    BY <1>p, <1>0, <1>1, <1>2, Zenon
       DEF WaitEnds, Search, removeSuspendedTx, Alone, Shape
  <2>2. Moves(t)
    BY <1>p, Zenon DEF WaitEnds, Search, removeSuspendedTx, Moves
  <2> QED BY <2>1, <2>2, <1>0, <1>3, Zenon
<1>q. ASSUME NEW t \in Threads, cancel(t) PROVE Commits'
  <2>1. /\ ~At(t, "clean") /\ Alone(t)
        /\ UNCHANGED <<server, worked, failed, done, object>>
        /\ thr'[t].pc = "idle" => m_txState'[t] = NoTx \/ conn'[t] # NoConn
    BY <1>q, <1>0, <1>1, <1>2, Zenon DEF cancel, Alone
  <2>2. Moves(t)
    BY <1>q, Zenon DEF cancel, Moves
  <2> QED BY <2>1, <2>2, <1>0, <1>3, Zenon
<1>r. ASSUME NEW t \in AllThreads, Connect(t) PROVE Commits'
  <2>1. /\ ~At(t, "clean") /\ Alone(t)
        /\ UNCHANGED <<server, worked, failed, done, object>>
    BY <1>r, <1>0, <1>1, Zenon DEF Connect, Alone
  <2>2. conn'[t] # NoConn
    BY <1>r, <1>1, <1>2, Zenon DEF Connect, addStickyConnection
  <2>3. Moves(t)
    BY <1>r, Zenon DEF Connect, Moves
  <2> QED BY <2>1, <2>2, <2>3, <1>3, Zenon
<1>s. ASSUME NEW t \in AllThreads, ConnectFails(t) PROVE Commits'
  <2>1. /\ ~At(t, "clean") /\ Alone(t)
        /\ UNCHANGED <<server, worked, failed, done, object>>
        /\ thr'[t].pc = "idle" => m_txState'[t] = NoTx \/ conn'[t] # NoConn
    BY <1>s, <1>0, <1>1, <1>2, Zenon DEF ConnectFails, Alone
  <2>2. Moves(t)
    BY <1>s, Zenon DEF ConnectFails, Moves
  <2> QED BY <2>1, <2>2, <1>0, <1>3, Zenon
<1>t. ASSUME NEW i \in TaskIds, on_callback(i) PROVE Commits'
  <2>1. /\ ~At(Expiry, "clean") /\ Alone(Expiry) /\ thr'[Expiry].pc = "fire"
        /\ UNCHANGED <<server, worked, failed, done, object>>
    BY <1>t, <1>0, <1>1, Zenon DEF on_callback, Alone
  <2>2. Moves(Expiry)
    BY <1>t, Zenon DEF on_callback, Moves
  <2> QED BY <2>1, <2>2, <1>0, <1>3, Zenon
<1>u. ASSUME on_expire PROVE Commits'
  <2>1. PICK id :
          /\ \/ /\ thr' = [thr EXCEPT ![Expiry] = [pc |-> "connect", tx |-> id]]
                /\ m_txState' = [m_txState EXCEPT ![Expiry] = id]
             \/ /\ thr' = [thr EXCEPT ![Expiry] = [pc |-> "idle", tx |-> NoTx]]
                /\ m_txState' = m_txState
          /\ thr[Expiry].pc = "fire"
          /\ UNCHANGED <<server, worked, failed, done, object, connections>>
    BY <1>u, Zenon DEF on_expire, removeSuspendedTx
  <2>2. m_txState[Expiry] = NoTx
    BY <2>1, <1>0, Zenon DEF Shape
  <2>3. /\ Alone(Expiry)
        /\ thr'[Expiry].pc = "idle" => m_txState'[Expiry] = NoTx
    BY <2>1, <2>2, <1>0, <1>1 DEF Alone
  <2>4. Moves(Expiry)
    BY <2>1, Zenon DEF Moves
  <2> QED BY <2>1, <2>3, <2>4, <1>0, <1>3, Zenon
<1>v. CASE UNCHANGED vars
  BY <1>v, Zenon DEF vars, Commits, CommitIsDone, In
<1> QED
  BY <1>0, <1>a, <1>b, <1>c, <1>d, <1>e, <1>f, <1>g, <1>h, <1>i, <1>j, <1>k,
     <1>l, <1>m, <1>n, <1>o, <1>p, <1>q, <1>r, <1>s, <1>t, <1>u, <1>v, Zenon
     DEF Next, Start, Work, Resuming, Expire

(* A commit that returns without an exception was carried out, or there    *)
(* was nothing to commit, or an operation of the transaction had failed    *)
(* (CacheTransactionManagerImpl::commit, afterCompletion).                 *)
THEOREM CommitsAreDone == Spec => []CommitIsDone
<1>1. Init => TypeOK /\ Shape /\ Home /\ Commits
  BY TypeInit, ShapeInit, HomeInit, CommitsInit, Zenon
<1>2. TypeOK /\ Shape /\ Home /\ Commits /\ [Next]_vars
        => (TypeOK /\ Shape /\ Home /\ Commits)'
  <2>1. TypeOK /\ Shape /\ Home /\ [Next]_vars => (TypeOK /\ Shape /\ Home)'
    BY TypeStep, ShapeStep, HomeStep, Zenon
  <2> QED BY <2>1, CommitsStep, Zenon
<1>3. Commits => CommitIsDone
  BY Zenon DEF Commits
<1> QED BY <1>1, <1>2, <1>3, PTL DEF Spec

-----------------------------------------------------------------------------
(* Expiry.                                                                 *)

(* A transaction that is suspended, or soon, or until a moment ago.        *)
Pending(x) ==
  \/ x \in m_suspendedTXs
  \/ \E t \in Threads : thr[t].pc \in {"add", "cancel"} /\ thr[t].tx = x

(* A task that is scheduled is the last one of its transaction, and so is  *)
(* the one that the expiry thread has begun, unless it was overtaken.      *)
Scheduled ==
  \A i \in TaskIds \ overtaken :
    tasks[i].stage = "scheduled" =>
      /\ tasks[i].tx \in Txs
      /\ m_suspendedExpiryTaskId[tasks[i].tx] = i
      /\ Pending(tasks[i].tx)

Fired ==
  thr[Expiry].pc = "fire" =>
    /\ fired \in TaskIds /\ tasks[fired].stage = "over"
    /\ fired \notin overtaken =>
         /\ thr[Expiry].tx \in Txs /\ object[thr[Expiry].tx] = "live"
         /\ m_suspendedExpiryTaskId[thr[Expiry].tx] = fired

LEMMA TimelyInit == Init => Scheduled /\ Fired
BY TxAssumption DEF Init, Scheduled, Fired, AllThreads, Idle

(* The owner of a pending transaction is in suspend or in resume.          *)
LEMMA PendingOwner ==
  ASSUME TypeOK, Shape, Home, NEW x \in Txs, Pending(x)
  PROVE  /\ object[x] = "live"
         /\ \A t \in AllThreads :
              Owns(t, x) => t \in Threads /\ thr[t].pc \in {"add", "cancel"}
<1>0. Threads \subseteq AllThreads
  BY Zenon DEF AllThreads
<1>1. CASE x \in m_suspendedTXs
  BY <1>1, Zenon DEF Home, Placed
<1>2. ASSUME NEW t \in Threads, thr[t].pc \in {"add", "cancel"}, thr[t].tx = x
      PROVE  object[x] = "live" /\ \A u \in AllThreads : Owns(u, x) => u = t
  <2>1. Owns(t, x)
    BY <1>2, <1>0, Zenon DEF Owns, At, Shape
  <2> QED BY <2>1, <1>0, Zenon DEF Home, Placed
<1> QED BY <1>1, <1>2, Zenon DEF Pending

(* A step that leaves the timer alone.                                     *)
LEMMA TimerAlone ==
  ASSUME Scheduled, Fired,
         UNCHANGED <<tasks, fired, overtaken, m_suspendedExpiryTaskId>>,
         \A x \in Txs : Pending(x) => Pending(x)',
         thr'[Expiry].pc = "fire" =>
           /\ thr[Expiry] = thr'[Expiry]
           /\ \A x \in Txs : object[x] = "live" => object'[x] = "live"
  PROVE  Scheduled' /\ Fired'
<1>1. Scheduled'
  BY Zenon DEF Scheduled
<1>2. Fired'
  BY Zenon DEF Fired
<1> QED BY <1>1, <1>2, Zenon

(* A step of a thread with a transaction that is not pending.              *)
LEMMA NotPending ==
  ASSUME NEW t \in AllThreads, Alone(t), thr[t].pc \notin {"add", "cancel"},
         UNCHANGED m_suspendedTXs
  PROVE  \A x \in Txs : Pending(x) => Pending(x)'
BY Zenon DEF Pending, Alone, AllThreads

(* resume and tryResume take a transaction.                                *)
LEMMA StaysPending ==
  ASSUME TypeOK, NEW t \in Threads, NEW y, removeSuspendedTx(t, y, "cancel"),
         thr[t].pc \notin {"add", "cancel"}
  PROVE  \A x \in Txs : Pending(x) => Pending(x)'
<1>0. /\ t \in AllThreads /\ Threads \subseteq AllThreads
      /\ thr \in [AllThreads -> [pc : Pcs, tx : Txs \cup {NoTx}]]
  BY Zenon DEF TypeOK, AllThreads
<1>1. /\ thr' = [thr EXCEPT ![t] = [pc |-> "cancel", tx |-> y]]
      /\ m_suspendedTXs' = m_suspendedTXs \ {y}
  BY Zenon DEF removeSuspendedTx, Becomes
<1>2. thr'[t].pc = "cancel" /\ thr'[t].tx = y
  BY <1>0, <1>1, Zenon
<1>3. \A u \in Threads : u # t => thr'[u] = thr[u]
  BY <1>0, <1>1, Zenon
<1> QED BY <1>1, <1>2, <1>3, Zenon DEF Pending

LEMMA TimelyStep ==
  ASSUME TypeOK, Shape, Home, Scheduled, Fired, [Next]_vars
  PROVE  Scheduled' /\ Fired'
<1>0. /\ Threads \subseteq AllThreads /\ Expiry \in AllThreads
      /\ Expiry \notin Threads /\ NoTx \notin Txs
  BY TxAssumption, Zenon DEF AllThreads
<1>1. /\ thr \in [AllThreads -> [pc : Pcs, tx : Txs \cup {NoTx}]]
      /\ m_txState \in [AllThreads -> Txs \cup {NoTx}]
      /\ m_suspendedExpiryTaskId \in [Txs -> TaskIds \cup {NoTask}]
      /\ tasks \in [TaskIds -> [stage : {"none", "scheduled", "over"},
                                tx : Txs \cup {NoTx}]]
      /\ object \in [Txs -> {"none", "live", "deleted"}]
      /\ m_suspendedTXs \subseteq Txs
  BY Zenon DEF TypeOK
<1> USE DEF At, Becomes, Rests, SetTXState, Idle
<1>2. ASSUME NEW t \in Threads, Alone(t), thr[t].pc \notin {"add", "cancel"},
             UNCHANGED <<m_suspendedTXs, tasks, fired, overtaken,
                         m_suspendedExpiryTaskId, object>>
      PROVE  Scheduled' /\ Fired'
  <2>1. \A x \in Txs : Pending(x) => Pending(x)'
    BY <1>2, <1>0, NotPending, Zenon
  <2>2. thr'[Expiry] = thr[Expiry]
    BY <1>2, <1>0, Zenon DEF Alone
  <2> QED BY <1>2, <2>1, <2>2, TimerAlone, Zenon
<1>3. ASSUME NEW t \in Threads, NEW y, removeSuspendedTx(t, y, "cancel"),
             thr[t].pc \notin {"add", "cancel"},
             UNCHANGED <<tasks, fired, overtaken, m_suspendedExpiryTaskId, object>>
      PROVE  Scheduled' /\ Fired'
  <2>1. \A x \in Txs : Pending(x) => Pending(x)'
    BY <1>3, StaysPending, Zenon
  <2>2. thr'[Expiry] = thr[Expiry]
    BY <1>3, <1>0, <1>1, Zenon DEF removeSuspendedTx
  <2> QED BY <1>3, <2>1, <2>2, TimerAlone, Zenon
<1>4. ASSUME NEW t \in AllThreads, NEW y \in Txs, Owns(t, y),
             thr[t].pc \notin {"add", "cancel"}
      PROVE  \A i \in TaskIds \ overtaken :
               tasks[i].stage = "scheduled" => tasks[i].tx # y
  BY <1>4, PendingOwner, Zenon DEF Scheduled
<1>e1. ASSUME NEW y, Overtake(y)
       PROVE  /\ \A i : i \notin overtaken' => i \notin overtaken
              /\ thr[Expiry].pc = "fire" /\ thr[Expiry].tx = y => fired \in overtaken'
  BY <1>e1 DEF Overtake, Fires
(* A step that ends the transaction y, which has no task.                  *)
<1>5. ASSUME NEW t \in AllThreads, NEW y \in Txs, Owns(t, y), Alone(t),
             thr[t].pc \notin {"add", "cancel"}, thr'[t].pc = "idle",
             Overtake(y),
             \A x \in Txs : x # y =>
               /\ m_suspendedExpiryTaskId'[x] = m_suspendedExpiryTaskId[x]
               /\ object'[x] = object[x],
             UNCHANGED <<m_suspendedTXs, tasks, fired>>
      PROVE  Scheduled' /\ Fired'
  <2>1. \A x \in Txs : Pending(x) => Pending(x)'
    BY <1>5, NotPending, Zenon
  <2>2. Scheduled'
    <3>1. \A i \in TaskIds \ overtaken :
            tasks[i].stage = "scheduled" => tasks[i].tx # y
      BY <1>4, <1>5, Zenon
    <3> QED BY <1>5, <1>e1, <2>1, <3>1, Zenon DEF Scheduled
  <2>3. thr'[Expiry].pc = "fire" => thr'[Expiry] = thr[Expiry]
    BY <1>5, <1>0, Zenon DEF Alone
  <2>4. thr[Expiry].pc = "fire" /\ fired \notin overtaken' => thr[Expiry].tx # y
    BY <1>5, <1>e1, Zenon
  <2>5. Fired'
    BY <1>5, <1>e1, <2>3, <2>4, Zenon DEF Fired
  <2> QED BY <2>2, <2>5, Zenon
<1>a. ASSUME NEW t \in Threads, begin(t) PROVE Scheduled' /\ Fired'
  <2>1. /\ Alone(t) /\ thr[t].pc = "idle"
        /\ UNCHANGED <<m_suspendedTXs, tasks, fired, overtaken,
                       m_suspendedExpiryTaskId, thr>>
    BY <1>a, <1>0, <1>1, Zenon DEF begin, Free, Alone
  <2>2. \A x \in Txs : Pending(x) => Pending(x)'
    BY <2>1, <1>0, NotPending, Zenon
  <2>3. \A x \in Txs : object[x] = "live" => object'[x] = "live"
    BY <1>a, <1>1, Zenon DEF begin
  <2> QED BY <2>1, <2>2, <2>3, TimerAlone, Zenon DEF Fired
<1>b. ASSUME NEW t \in Threads, Operation(t) PROVE Scheduled' /\ Fired'
  <2>1. /\ Alone(t) /\ thr[t].pc \notin {"add", "cancel"}
        /\ UNCHANGED m_suspendedTXs
    BY <1>b, <1>0, <1>1, Zenon DEF Operation, In, Alone
  <2>2. UNCHANGED <<tasks, fired, overtaken, m_suspendedExpiryTaskId, object>>
    BY <1>b, Zenon DEF Operation, In
  <2> QED BY <2>1, <2>2, <1>0, <1>2, Zenon
<1>c. ASSUME NEW t \in Threads, prepare(t) PROVE Scheduled' /\ Fired'
  <2>1. /\ Alone(t) /\ thr[t].pc \notin {"add", "cancel"}
        /\ UNCHANGED m_suspendedTXs
    BY <1>c, <1>0, <1>1, Zenon DEF prepare, In, Alone
  <2>2. UNCHANGED <<tasks, fired, overtaken, m_suspendedExpiryTaskId, object>>
    BY <1>c, Zenon DEF prepare, In
  <2> QED BY <2>1, <2>2, <1>0, <1>2, Zenon
<1>d. ASSUME NEW t \in Threads, commit(t) PROVE Scheduled' /\ Fired'
  <2>1. /\ Alone(t) /\ thr[t].pc \notin {"add", "cancel"}
        /\ UNCHANGED m_suspendedTXs
    BY <1>d, <1>0, <1>1, Zenon DEF commit, In, Alone
  <2>2. UNCHANGED <<tasks, fired, overtaken, m_suspendedExpiryTaskId, object>>
    BY <1>d, Zenon DEF commit, In
  <2> QED BY <2>1, <2>2, <1>0, <1>2, Zenon
<1>e. ASSUME NEW t \in Threads, rollback(t) PROVE Scheduled' /\ Fired'
  <2>1. /\ Alone(t) /\ thr[t].pc \notin {"add", "cancel"}
        /\ UNCHANGED m_suspendedTXs
    BY <1>e, <1>0, <1>1, Zenon DEF rollback, RollsBack, In, Alone
  <2>2. UNCHANGED <<tasks, fired, overtaken, m_suspendedExpiryTaskId, object>>
    BY <1>e, Zenon DEF rollback, RollsBack, In
  <2> QED BY <2>1, <2>2, <1>0, <1>2, Zenon
<1>f. ASSUME NEW t \in Threads, Forget(t) PROVE Scheduled' /\ Fired'
  <2>1. /\ Alone(t) /\ thr[t].pc \notin {"add", "cancel"}
        /\ UNCHANGED m_suspendedTXs
    BY <1>f, <1>0, <1>1, Zenon DEF Forget, Alone
  <2>2. UNCHANGED <<tasks, fired, overtaken, m_suspendedExpiryTaskId, object>>
    BY <1>f, Zenon DEF Forget
  <2> QED BY <2>1, <2>2, <1>0, <1>2, Zenon
<1>g. ASSUME NEW t \in Threads, tryResume(t) PROVE Scheduled' /\ Fired'
  <2>1. /\ Alone(t) /\ thr[t].pc \notin {"add", "cancel"}
        /\ UNCHANGED m_suspendedTXs
    BY <1>g, <1>0, <1>1, Zenon DEF tryResume, Free, Alone
  <2>2. UNCHANGED <<tasks, fired, overtaken, m_suspendedExpiryTaskId, object>>
    BY <1>g, Zenon DEF tryResume, Free
  <2> QED BY <2>1, <2>2, <1>0, <1>2, Zenon
<1>h. ASSUME NEW t \in Threads, Connect(t) PROVE Scheduled' /\ Fired'
  <2>1. /\ Alone(t) /\ thr[t].pc \notin {"add", "cancel"}
        /\ UNCHANGED m_suspendedTXs
    BY <1>h, <1>0, <1>1, Zenon DEF Connect, Alone
  <2>2. UNCHANGED <<tasks, fired, overtaken, m_suspendedExpiryTaskId, object>>
    BY <1>h, Zenon DEF Connect
  <2> QED BY <2>1, <2>2, <1>0, <1>2, Zenon
<1>i. ASSUME NEW t \in Threads, ConnectFails(t) PROVE Scheduled' /\ Fired'
  <2>1. /\ Alone(t) /\ thr[t].pc \notin {"add", "cancel"}
        /\ UNCHANGED m_suspendedTXs
    BY <1>i, <1>0, <1>1, Zenon DEF ConnectFails, Alone
  <2>2. UNCHANGED <<tasks, fired, overtaken, m_suspendedExpiryTaskId, object>>
    BY <1>i, Zenon DEF ConnectFails
  <2> QED BY <2>1, <2>2, <1>0, <1>2, Zenon
<1>j. ASSUME NEW t \in Threads, resume(t) PROVE Scheduled' /\ Fired'
  BY <1>j, <1>3, Zenon DEF resume, Free
<1>k. ASSUME NEW t \in Threads, Look(t) \/ Wake(t) \/ WaitEnds(t)
      PROVE  Scheduled' /\ Fired'
  <2>1. thr[t].pc \notin {"add", "cancel"}
    BY <1>k, Zenon DEF Look, Wake, WaitEnds
  <2>2. PICK id :
          /\ \/ removeSuspendedTx(t, id, "cancel")
             \/ /\ UNCHANGED m_suspendedTXs
                /\ \/ thr' = thr
                   \/ thr' = [thr EXCEPT ![t] = [pc |-> "waiting", tx |-> id]]
                   \/ thr' = [thr EXCEPT ![t] = [pc |-> "idle", tx |-> NoTx]]
          /\ UNCHANGED <<m_txState, tasks, fired, overtaken, m_suspendedExpiryTaskId,
                         object>>
    BY <1>k, Zenon DEF Look, Wake, WaitEnds, Search
  <2>3. CASE removeSuspendedTx(t, id, "cancel")
    BY <2>1, <2>2, <2>3, <1>3, Zenon
  <2>4. CASE ~removeSuspendedTx(t, id, "cancel")
    <3>1. Alone(t)
      BY <2>2, <2>4, <1>1, Zenon DEF Alone
    <3> QED BY <3>1, <2>1, <2>2, <2>4, <1>2, Zenon
  <2> QED BY <2>3, <2>4, Zenon
<1>l. ASSUME NEW t \in Threads, addSuspendedTx(t) PROVE Scheduled' /\ Fired'
  <2>1. /\ m_suspendedTXs' = m_suspendedTXs \cup {thr[t].tx}
        /\ UNCHANGED <<tasks, fired, overtaken, m_suspendedExpiryTaskId, object>>
        /\ \A u \in AllThreads : u # t => thr'[u] = thr[u]
    BY <1>l, <1>1, Zenon DEF addSuspendedTx
  <2>2. \A x \in Txs : Pending(x) => Pending(x)'
    BY <2>1, <1>0, Zenon DEF Pending
  <2>3. thr'[Expiry] = thr[Expiry]
    BY <2>1, <1>0, Zenon
  <2> QED BY <2>1, <2>2, <2>3, TimerAlone, Zenon
<1>m. ASSUME NEW t \in Threads, cancel(t) PROVE Scheduled' /\ Fired'
  <2> DEFINE y == thr[t].tx
  <2>1. y \in Txs
    BY <1>m, <1>0, Zenon DEF cancel, Shape
  <2>2. /\ tasks' = [i \in TaskIds |->
                       IF i = m_suspendedExpiryTaskId[y]
                            /\ tasks[i].stage = "scheduled"
                       THEN Finished ELSE tasks[i]]
        /\ UNCHANGED <<m_suspendedTXs, fired, overtaken, m_suspendedExpiryTaskId,
                       object>>
        /\ \A u \in AllThreads : u # t => thr'[u] = thr[u]
    BY <1>m, <1>1, Zenon DEF cancel
  <2>3. \A i \in TaskIds :
          /\ tasks'[i].stage = "scheduled" =>
               tasks'[i] = tasks[i] /\ i # m_suspendedExpiryTaskId[y]
          /\ tasks[i].stage = "over" => tasks'[i].stage = "over"
    BY <2>2, Zenon DEF Finished
  <2>4. \A x \in Txs : x # y /\ Pending(x) => Pending(x)'
    BY <2>2, <1>0, Zenon DEF Pending
  <2> HIDE DEF y
  <2>5. Scheduled'
    BY <2>2, <2>3, <2>4 DEF Scheduled
  <2>6. Fired'
    BY <2>2, <2>3, <1>0, Zenon DEF Fired
  <2> QED BY <2>5, <2>6, Zenon
<1>n. ASSUME NEW t \in Threads, ThreadEnds(t) PROVE Scheduled' /\ Fired'
  <2>1. PICK y \in Txs :
          /\ thr[t].pc = "idle" /\ m_txState[t] = y /\ Overtake(y)
          /\ m_txState' = [m_txState EXCEPT ![t] = NoTx]
          /\ object' = [object EXCEPT ![y] = "deleted"]
          /\ UNCHANGED <<thr, m_suspendedTXs, m_suspendedExpiryTaskId, tasks, fired>>
    BY <1>n, Zenon DEF ThreadEnds, In
  <2>2. Owns(t, y) /\ Alone(t) /\ \A x \in Txs : x # y => object'[x] = object[x]
    BY <2>1, <1>1, Zenon DEF Owns, Alone
  <2> QED BY <2>1, <2>2, <1>0, <1>5, Zenon
<1>o. ASSUME NEW t \in AllThreads, clean(t) PROVE Scheduled' /\ Fired'
  <2> DEFINE y == thr[t].tx
  <2>1. y \in Txs /\ Owns(t, y) /\ thr[t].pc = "clean" /\ Overtake(y)
    BY <1>o, Zenon DEF clean, Shape, Owns
  <2>2. /\ m_txState' = [m_txState EXCEPT ![t] = NoTx]
        /\ thr' = [thr EXCEPT ![t] = [pc |-> "idle", tx |-> NoTx]]
        /\ object' = [object EXCEPT ![y] = "deleted"]
        /\ m_suspendedExpiryTaskId' =
             [m_suspendedExpiryTaskId EXCEPT ![y] = NoTask]
        /\ UNCHANGED <<m_suspendedTXs, tasks, fired>>
    BY <1>o, Zenon DEF clean
  <2> HIDE DEF y
  <2>3. Alone(t) /\ thr'[t].pc = "idle"
    BY <2>2, <1>1, Zenon DEF Alone
  <2>4. \A x \in Txs : x # y =>
          /\ m_suspendedExpiryTaskId'[x] = m_suspendedExpiryTaskId[x]
          /\ object'[x] = object[x]
    BY <2>2, <1>1, Zenon
  <2> QED BY <2>1, <2>2, <2>3, <2>4, <1>5, Zenon
<1>p. ASSUME NEW t \in Threads, suspend(t) PROVE Scheduled' /\ Fired'
  <2>1. PICK y \in Txs, j \in TaskIds :
          /\ thr[t].pc = "idle" /\ m_txState[t] = y /\ Overtake(y)
          /\ tasks[j].stage = "none"
          /\ tasks' = [tasks EXCEPT ![j] = [stage |-> "scheduled", tx |-> y]]
          /\ m_suspendedExpiryTaskId' = [m_suspendedExpiryTaskId EXCEPT ![y] = j]
          /\ thr' = [thr EXCEPT ![t] = [pc |-> "add", tx |-> y]]
          /\ UNCHANGED <<m_txState, m_suspendedTXs, object, fired>>
    BY <1>p, Zenon DEF suspend, schedule, In
  <2>2. Owns(t, y) /\ Alone(t)
    BY <2>1, <1>1, Zenon DEF Owns, Alone
  <2>3. \A x \in Txs : Pending(x) => Pending(x)'
    BY <2>1, <2>2, <1>0, NotPending, Zenon
  <2>4. Pending(y)'
    BY <2>1, <1>0, <1>1, Zenon DEF Pending
  <2>5. \A i \in TaskIds \ overtaken :
          tasks[i].stage = "scheduled" => tasks[i].tx # y
    BY <2>1, <2>2, <1>0, <1>4, Zenon
  <2>6. Scheduled'
    BY <2>1, <2>3, <2>4, <2>5, <1>1, <1>e1, Zenon DEF Scheduled
  <2>7. /\ thr'[Expiry] = thr[Expiry]
        /\ thr[Expiry].pc = "fire" /\ fired \notin overtaken' => thr[Expiry].tx # y
    BY <2>1, <2>2, <1>0, <1>e1, Zenon DEF Alone
  <2>8. Fired'
    BY <2>1, <2>7, <1>1, <1>e1, Zenon DEF Fired
  <2> QED BY <2>6, <2>8, Zenon
<1>q. ASSUME NEW i \in TaskIds, on_callback(i) PROVE Scheduled' /\ Fired'
  <2>1. /\ tasks[i].stage = "scheduled" /\ thr[Expiry].pc = "idle"
        /\ tasks' = [tasks EXCEPT ![i] = Finished] /\ fired' = i
        /\ thr' = [thr EXCEPT ![Expiry] = [pc |-> "fire", tx |-> tasks[i].tx]]
        /\ UNCHANGED <<m_txState, m_suspendedTXs, m_suspendedExpiryTaskId, object,
                       overtaken>>
    BY <1>q, Zenon DEF on_callback
  <2>2. i \notin overtaken =>
          /\ tasks[i].tx \in Txs /\ m_suspendedExpiryTaskId[tasks[i].tx] = i
          /\ object[tasks[i].tx] = "live"
    BY <2>1, PendingOwner, Zenon DEF Scheduled
  <2>3. \A x \in Txs : Pending(x) => Pending(x)'
    BY <2>1, <1>0, <1>1, NotPending, Zenon DEF Alone
  <2>4. Scheduled'
    BY <2>1, <2>3, <1>1, Zenon DEF Scheduled, Finished
  <2>5. Fired'
    BY <2>1, <2>2, <1>0, <1>1, Zenon DEF Fired, Finished
  <2> QED BY <2>4, <2>5, Zenon
<1>r. ASSUME on_expire PROVE Scheduled' /\ Fired'
  <2>1. PICK y :
          /\ y \in getId(thr[Expiry].tx)
          /\ \/ /\ m_suspendedTXs' = m_suspendedTXs \ {y}
                /\ thr' = [thr EXCEPT ![Expiry] = [pc |-> "connect", tx |-> y]]
                /\ overtaken' =
                     (overtaken \cup {m_suspendedExpiryTaskId[y]}) \ {fired}
             \/ /\ m_suspendedTXs' = m_suspendedTXs
                /\ thr' = [thr EXCEPT ![Expiry] = [pc |-> "idle", tx |-> NoTx]]
                /\ overtaken' = overtaken \ {fired}
          /\ UNCHANGED <<tasks, m_suspendedExpiryTaskId, object>>
    BY <1>r, Zenon DEF on_expire, removeSuspendedTx
  <2>2. /\ thr[Expiry].pc = "fire"
        /\ fired \in TaskIds => tasks[fired].stage = "over"
    BY <1>r, Zenon DEF on_expire, Fired
  <2>3. /\ \A u \in Threads : thr'[u] = thr[u]
        /\ thr'[Expiry].pc # "fire"
    BY <2>1, <1>0, <1>1
  <2>4. \A x \in Txs : x # y /\ Pending(x) => Pending(x)'
    BY <2>1, <2>3, Zenon DEF Pending
  <2>5. ASSUME NEW i \in TaskIds \ overtaken', tasks[i].stage = "scheduled"
        PROVE  /\ tasks[i].tx \in Txs
               /\ m_suspendedExpiryTaskId[tasks[i].tx] = i
               /\ Pending(tasks[i].tx)'
    <3>0. tasks' = tasks BY <2>1, Zenon
    <3>1. i \in TaskIds /\ i # fired BY <2>2, <2>5
    <3>2. i \notin overtaken BY <2>1, <2>5, <3>1
    <3>3. /\ tasks[i].tx \in Txs /\ m_suspendedExpiryTaskId[tasks[i].tx] = i
          /\ Pending(tasks[i].tx)
      BY <2>5, <3>1, <3>2 DEF Scheduled
    <3>4. CASE m_suspendedTXs' = m_suspendedTXs
      BY <2>3, <3>0, <3>3, <3>4, Zenon DEF Pending
    <3>5. CASE overtaken' = (overtaken \cup {m_suspendedExpiryTaskId[y]}) \ {fired}
      <4>1. tasks[i].tx # y BY <2>5, <3>1, <3>3, <3>5
      <4> QED BY <2>4, <3>0, <3>3, <4>1, Zenon DEF Pending
    <3> QED BY <2>1, <3>4, <3>5, Zenon
  <2>6. Scheduled'
    BY <2>1, <2>5, Zenon DEF Scheduled
  <2> QED BY <2>3, <2>6, Zenon DEF Fired
<1>s. ASSUME Connect(Expiry) \/ ConnectFails(Expiry) \/ expireRollback
      PROVE  Scheduled' /\ Fired'
  <2>1. UNCHANGED <<m_suspendedTXs, tasks, fired, overtaken,
                    m_suspendedExpiryTaskId, object>>
    BY <1>s, Zenon DEF Connect, ConnectFails, expireRollback, RollsBack
  <2>2. /\ \A u \in Threads : thr'[u] = thr[u]
        /\ thr'[Expiry].pc # "fire"
    BY <1>s, <1>0, <1>1 DEF Connect, ConnectFails, expireRollback, RollsBack
  <2>3. \A x \in Txs : Pending(x) => Pending(x)'
    BY <2>1, <2>2, Zenon DEF Pending
  <2> QED BY <2>1, <2>2, <2>3, TimerAlone, Zenon
<1>t. CASE UNCHANGED vars
  <2>1. \A x \in Txs : Pending(x) => Pending(x)'
    BY <1>t, Zenon DEF vars, Pending
  <2> QED BY <1>t, <2>1, TimerAlone, Zenon DEF vars
<1> QED
  BY <1>0, <1>a, <1>b, <1>c, <1>d, <1>e, <1>f, <1>g, <1>h, <1>i, <1>j, <1>k,
     <1>l, <1>m, <1>n, <1>o, <1>p, <1>q, <1>r, <1>s, <1>t, Zenon
     DEF Next, Start, Work, Resuming, Expire

(* Only on_expire gives the expiry thread a transaction.                   *)
LEMMA ExpiryTakes ==
  ASSUME TypeOK, Shape, Scheduled, Fired, [Next]_vars, NEW x \in Txs,
         m_txState'[Expiry] = x, m_txState[Expiry] # x, fired \notin overtaken
  PROVE  m_suspendedExpiryTaskId[x] = fired
<1>0. /\ Threads \subseteq AllThreads /\ Expiry \in AllThreads
      /\ Expiry \notin Threads /\ NoTx \notin Txs
  BY TxAssumption, Zenon DEF AllThreads
<1>1. m_txState \in [AllThreads -> Txs \cup {NoTx}]
  BY Zenon DEF TypeOK
<1>2. ASSUME NEW t \in Threads, NEW y, SetTXState(t, y)
      PROVE  m_txState'[Expiry] = m_txState[Expiry]
  BY <1>2, <1>0, <1>1, Zenon DEF SetTXState
<1>3. SetTXState(Expiry, NoTx) => m_txState'[Expiry] = NoTx
  BY <1>0, <1>1, Zenon DEF SetTXState
<1>4. ASSUME NEW t \in Threads, Start(t) \/ Work(t) PROVE FALSE
  <2>1. UNCHANGED m_txState \/ \E y : SetTXState(t, y)
    BY <1>4, Zenon
       DEF Start, begin, Operation, prepare, commit, rollback, RollsBack,
           ThreadEnds, suspend, resume, tryResume, Work, clean, addSuspendedTx,
           Forget, Look, Wake, WaitEnds, Search, Resuming, cancel, Connect,
           ConnectFails
  <2> QED BY <2>1, <1>2, Zenon
<1>5. CASE on_expire
  <2>1. /\ object[thr[Expiry].tx] = "live"
        /\ m_suspendedExpiryTaskId[thr[Expiry].tx] = fired
    BY <1>5, Zenon DEF on_expire, At, Fired
  <2>2. SetTXState(Expiry, thr[Expiry].tx) \/ UNCHANGED m_txState
    BY <1>5, <2>1, Zenon DEF on_expire, getId
  <2> QED BY <2>1, <2>2, <1>0, <1>1, Zenon DEF SetTXState
<1>6. ASSUME ~on_expire, ~\E t \in Threads : Start(t) \/ Work(t) PROVE FALSE
  <2>1. UNCHANGED m_txState \/ SetTXState(Expiry, NoTx)
    BY <1>6, Zenon
       DEF Next, vars, on_callback, Expire, Connect, ConnectFails,
           expireRollback, RollsBack, clean
  <2> QED BY <2>1, <1>0, <1>3, Zenon
<1> QED BY <1>4, <1>5, <1>6, Zenon

(* In every schedule the expiry thread takes a transaction by the task of  *)
(* its last suspension, or by a task that was overtaken between the test   *)
(* of cancelled_ (ExpiryTask::on_callback) and the search (on_expire), or  *)
(* that such a task left behind: resume's cancel misses no other.          *)
THEOREM ExpiresInTime ==
  Spec => ExpiryInTime
<1> DEFINE I == TypeOK /\ Shape /\ Home /\ Scheduled /\ Fired
<1>1. Init => I
  BY TypeInit, ShapeInit, HomeInit, TimelyInit, Zenon
<1>2. I /\ [Next]_vars => I'
  BY TypeStep, ShapeStep, HomeStep, TimelyStep, Zenon
<1>3. I /\ [Next]_vars =>
        [\A x \in Txs :
           m_txState'[Expiry] = x /\ m_txState[Expiry] # x
             => m_suspendedExpiryTaskId[x] = fired \/ fired \in overtaken]_vars
  BY ExpiryTakes, Zenon
<1> QED BY <1>1, <1>2, <1>3, PTL DEF Spec, ExpiryInTime

=============================================================================
