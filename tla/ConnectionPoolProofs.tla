------------------------ MODULE ConnectionPoolProofs ------------------------
(***************************************************************************)
(* Proofs about ConnectionPool, for any number of servers, threads,        *)
(* connections and retries.                                                *)
(***************************************************************************)
EXTENDS ConnectionPool, FiniteSetTheorems, TLAPS

Pcs == {"idle", "getFromEP", "checkEP", "connectEP", "temporary", "pop",
        "check", "connect", "wait", "asleep", "noConn", "send", "purge",
        "drop", "retry"}

(* A state of a thread as TypeOK requires it.                              *)
ThreadOK(s) == s \in ThreadStates /\ HoldsWhileSending(s)

ManagerOK(m) ==
  /\ m \in ManagerStates
  /\ m.pc \in ManagerHolding => m.conn # None
  /\ m.conn # None => m.pc \in ManagerHolding \cup {"restoreOne"}
  /\ m.other # None <=> m.pc \in {"probe", "putNew"}

Asleep == {t \in Threads : thr[t].pc = "asleep"}

-----------------------------------------------------------------------------
(* States of one thread.                                                   *)

LEMMA LimitType == Limit \in Nat /\ MinConnections <= Limit
  BY PoolAssumption DEF Limit

LEMMA CountType ==
  ASSUME NEW e \in SUBSET Servers
  PROVE  Cardinality(e) \in 0..Cardinality(Servers)
<1>1. IsFiniteSet(e) /\ Cardinality(e) <= Cardinality(Servers)
  BY PoolAssumption, FS_Subset, Zenon
<1>2. Cardinality(e) \in Nat /\ Cardinality(Servers) \in Nat
  BY <1>1, PoolAssumption, FS_CardinalityType, Zenon
<1> QED
  BY <1>1, <1>2

LEMMA IdleOK ==
  /\ ThreadOK(Idle)
  /\ Idle.pc = "idle" /\ Idle.conn = None /\ Idle.pooled
  BY PoolAssumption, CountType
     DEF ThreadOK, Idle, ThreadStates, Ops, HoldsWhileSending, Holding, Directed

LEMMA AtOK ==
  ASSUME NEW s, ThreadOK(s), NEW pc \in Pcs,
         pc \in Holding <=> s.pc \in Holding,
         pc \in Directed => s.target # None,
         pc = "temporary" => s.op = "endpoint"
  PROVE  /\ ThreadOK([s EXCEPT !.pc = pc])
         /\ [s EXCEPT !.pc = pc].pc = pc
         /\ [s EXCEPT !.pc = pc].conn = s.conn
         /\ [s EXCEPT !.pc = pc].pooled = s.pooled
  BY DEF ThreadOK, ThreadStates, HoldsWhileSending, Pcs

LEMMA WithOK ==
  ASSUME NEW s, ThreadOK(s), s.pc \notin Holding, NEW ep \in Servers
  PROVE  /\ ThreadOK(With(s, ep))
         /\ With(s, ep).pc = "send" /\ With(s, ep).conn = ep
         /\ With(s, ep).pooled /\ With(s, ep).op = s.op
  BY PoolAssumption, Zenon
     DEF ThreadOK, With, ThreadStates, HoldsWhileSending, Holding, Directed

LEMMA AttemptOK ==
  ASSUME NEW s \in ThreadStates, s.op = "endpoint" => s.target # None, s.pooled
  PROVE  /\ ThreadOK(Attempt(s))
         /\ Attempt(s).pc \in {"getFromEP", "pop"}
         /\ Attempt(s).conn = None /\ Attempt(s).pooled
<1>1. Cardinality(s.exclude) \in 0..Cardinality(Servers)
  BY CountType, Zenon DEF ThreadStates
<1>2. (IF retryAllEPsOnce \/ s.retries < 0 THEN s.retries ELSE s.retries - 1)
        \in -1..(RetryAttempts + 1)
  BY PoolAssumption DEF ThreadStates
<1> QED
  BY <1>1, <1>2, PoolAssumption, Zenon
     DEF ThreadOK, Attempt, ThreadStates, HoldsWhileSending, Holding, Directed

-----------------------------------------------------------------------------
(* The queue.                                                              *)

LEMMA RemoveAtOK ==
  ASSUME NEW q \in Seq(Servers), NEW i \in DOMAIN q
  PROVE  /\ RemoveAt(q, i) \in Seq(Servers)
         /\ Len(RemoveAt(q, i)) = Len(q) - 1
         /\ q[i] \in Servers /\ Len(q) > 0
<1>1. q[i] \in Servers /\ Len(q) > 0
  OBVIOUS
<1>2. RemoveAt(q, i) \in Seq(Servers) /\ Len(RemoveAt(q, i)) = Len(q) - 1
  BY DEF RemoveAt
<1> QED
  BY <1>1, <1>2, Zenon

LEMMA PrefixOK ==
  ASSUME NEW q \in Seq(Servers), NEW i \in DOMAIN q
  PROVE  /\ SubSeq(q, 1, i - 1) \in Seq(Servers)
         /\ Len(SubSeq(q, 1, i - 1)) = i - 1
         /\ q[i] \in Servers /\ i \in 1..Len(q)
  OBVIOUS

LEMMA FrontOK ==
  ASSUME NEW q \in Seq(Servers), q # <<>>
  PROVE  /\ Front(q) \in Seq(Servers)
         /\ Len(Front(q)) = Len(q) - 1
         /\ Last(q) \in Servers /\ Len(q) > 0
<1>1. Len(q) \in Nat /\ Len(q) # 0
  OBVIOUS
<1> QED
  BY <1>1 DEF Front, Last

LEMMA PlacesOK ==
  ASSUME NEW q \in Seq(Servers), NEW k \in 0..Len(q),
         NEW f \in [1..k -> DOMAIN q]
  PROVE  /\ [n \in 1..k |-> q[f[n]]] \in Seq(Servers)
         /\ Len([n \in 1..k |-> q[f[n]]]) = k
  OBVIOUS

LEMMA PutOK ==
  ASSUME TypeOK, NEW c \in Servers, put(c)
  PROVE  /\ queue_' \in Seq(Servers)
         /\ Len(queue_') = IF closed_ THEN Len(queue_) ELSE Len(queue_) + 1
         /\ notified' \subseteq Asleep
<1>1. queue_' \in Seq(Servers)
      /\ Len(queue_') = IF closed_ THEN Len(queue_) ELSE Len(queue_) + 1
  BY DEF put, TypeOK
<1>2. notified' \subseteq Asleep
  BY Zenon DEF put, NotifyOne, Sleepers, TypeOK, Asleep
<1> QED
  BY <1>1, <1>2, Zenon

-----------------------------------------------------------------------------
(* Type correctness.                                                       *)

LEMMA ThreadStep ==
  ASSUME TypeOK, NEW t \in Threads, NEW s, Becomes(t, s)
  PROVE  thr'[t] = s /\ \A u \in Threads \ {t} : thr'[u] = thr[u]
  BY Zenon DEF TypeOK, Becomes

LEMMA ThreadType ==
  ASSUME TypeOK, NEW t \in Threads, NEW s, ThreadOK(s), Becomes(t, s),
         queue_' \in Seq(Servers), m_poolSize' \in Int,
         notified' \subseteq Asleep, t \in notified' => s.pc = "asleep",
         closed_' = closed_, mgr' = mgr, running' = running,
         slips' \in 0..MaxSlips
  PROVE  TypeOK'
<1>1. thr' \in [Threads -> ThreadStates]
  BY Zenon DEF TypeOK, Becomes, ThreadOK
<1>2. \A u \in Threads : HoldsWhileSending(thr'[u])
  BY ThreadStep DEF TypeOK, ThreadOK
<1>3. notified' \subseteq {u \in Threads : thr'[u].pc = "asleep"}
  BY ThreadStep DEF Asleep
<1> QED
  BY <1>1, <1>2, <1>3, Zenon DEF TypeOK

LEMMA ManagerType ==
  ASSUME TypeOK, ManagerOK(mgr'),
         queue_' \in Seq(Servers), m_poolSize' \in Int,
         notified' \subseteq Asleep, closed_' = closed_, thr' = thr,
         running' = running, slips' = slips
  PROVE  TypeOK'
  BY Zenon DEF TypeOK, ManagerOK, Asleep

(* What TypeOK says of a thread that is not asleep.                        *)
LEMMA AwakeOK ==
  ASSUME TypeOK, NEW t \in Threads
  PROVE  /\ ThreadOK(thr[t])
         /\ thr[t].pc # "asleep" => t \notin Asleep
         /\ notified \subseteq Asleep
  BY Zenon DEF TypeOK, ThreadOK, Asleep

LEMMA BeginType ==
  ASSUME TypeOK, NEW t \in Threads,
         \/ \E target \in Servers \cup {None} : Begin(t, target)
         \/ \E ep \in Servers : BeginToEP(t, ep)
  PROVE  TypeOK'
<1>1. CASE \E target \in Servers \cup {None} : Begin(t, target)
  <2> PICK target \in Servers \cup {None} : Begin(t, target)
    BY <1>1, Zenon
  <2> DEFINE s == [Idle EXCEPT !.target = target, !.retries = RetryAttempts + 1]
  <2>0. RetryAttempts + 1 \in -1..(RetryAttempts + 1)
    BY PoolAssumption
  <2>1. s \in ThreadStates /\ s.op = "request" /\ s.pooled
    BY <2>0, IdleOK, Zenon DEF ThreadOK, ThreadStates, Idle
  <2>2. ThreadOK(Attempt(s))
    BY <2>1, AttemptOK, Zenon
  <2> QED
    BY <2>2, AwakeOK, ThreadType, Zenon DEF Begin, TypeOK
<1>2. CASE \E ep \in Servers : BeginToEP(t, ep)
  <2> PICK ep \in Servers : BeginToEP(t, ep)
    BY <1>2, Zenon
  <2> DEFINE s == [Idle EXCEPT !.pc = "getFromEP", !.op = "endpoint",
                               !.target = ep]
  <2>1. ThreadOK(s)
    BY IdleOK, PoolAssumption, Zenon
       DEF ThreadOK, ThreadStates, Idle, Ops, HoldsWhileSending, Holding, Directed
  <2> QED
    BY <2>1, AwakeOK, ThreadType, Zenon DEF BeginToEP, TypeOK
<1> QED
  BY <1>1, <1>2, Zenon

LEMMA GetType ==
  ASSUME TypeOK, NEW t \in Threads,
         getFromEP(t) \/ CheckEP(t) \/ ConnectEP(t) \/ Temporary(t)
  PROVE  TypeOK'
<1> DEFINE s == thr[t]
<1>t. /\ ThreadOK(s) /\ s.target \in Servers \cup {None}
      /\ queue_ \in Seq(Servers) /\ m_poolSize \in Int
      /\ slips \in 0..MaxSlips
  BY AwakeOK, Zenon DEF TypeOK, ThreadOK, ThreadStates
<1>d. s.pc \in Directed => s.target \in Servers
  BY <1>t, Zenon DEF ThreadOK, HoldsWhileSending
<1>w. s.pc \in Directed => ThreadOK(With(s, s.target))
  BY <1>t, <1>d, WithOK, Zenon DEF Holding, Directed
<1>a. ASSUME s.pc \in Directed, NEW pc \in Pcs \ Holding,
             pc = "temporary" => s.op = "endpoint"
      PROVE  ThreadOK(At(t, pc))
  BY <1>t, <1>d, <1>a, AtOK, PoolAssumption, Zenon DEF At, Holding, Directed
<1>e. /\ Elsewhere(t) \in Pcs \ Holding
      /\ Elsewhere(t) = "temporary" => s.op = "endpoint"
  BY <1>t, Zenon DEF Elsewhere, Pcs, Holding, ThreadOK, ThreadStates, Ops
<1>n. t \in notified => s.pc = "asleep"
  BY AwakeOK, Zenon
<1>1. CASE getFromEP(t)
  <2>d. s.pc \in Directed
    BY <1>1, Zenon DEF getFromEP, Directed
  <2>1. CASE \E i \in DOMAIN queue_ : /\ queue_' = RemoveAt(queue_, i)
                                     /\ Becomes(t, With(s, s.target))
    <3>1. queue_' \in Seq(Servers)
      BY <2>1, <1>t, RemoveAtOK, Zenon
    <3> QED
      BY <3>1, <2>1, <2>d, <1>w, <1>1, <1>t, <1>n, AwakeOK, ThreadType, Zenon
         DEF getFromEP
  <2>2. CASE Becomes(t, At(t, "checkEP")) /\ UNCHANGED queue_
    <3>1. ThreadOK(At(t, "checkEP"))
      BY <2>d, <1>a, Zenon DEF Pcs, Holding
    <3> QED
      BY <3>1, <2>2, <1>1, <1>t, <1>n, AwakeOK, ThreadType, Zenon DEF getFromEP
  <2> QED
    BY <1>1, <2>1, <2>2, Zenon DEF getFromEP
<1>2. CASE CheckEP(t)
  <2> DEFINE pc == IF m_poolSize >= Limit THEN Elsewhere(t) ELSE "connectEP"
  <2>1. /\ s.pc \in Directed /\ pc \in Pcs \ Holding
        /\ pc = "temporary" => s.op = "endpoint"
    BY <1>2, <1>e, Zenon DEF CheckEP, Directed, Pcs, Holding
  <2>2. ThreadOK(At(t, pc))
    BY <2>1, <1>a, Zenon
  <2> QED
    BY <2>2, <1>2, <1>t, <1>n, AwakeOK, ThreadType, Zenon DEF CheckEP
<1>3. CASE ConnectEP(t)
  <2>0. m_poolSize' \in Int /\ s.pc \in Directed
    BY <1>3, <1>t DEF ConnectEP, Directed
  <2>1. CASE Becomes(t, With(s, s.target))
    BY <2>0, <2>1, <1>w, <1>3, <1>t, <1>n, AwakeOK, ThreadType, Zenon DEF ConnectEP
  <2>2. CASE Becomes(t, At(t, Elsewhere(t)))
    <3>1. ThreadOK(At(t, Elsewhere(t)))
      BY <2>0, <1>a, <1>e, Zenon
    <3> QED
      BY <3>1, <2>0, <2>2, <1>3, <1>t, <1>n, AwakeOK, ThreadType, Zenon DEF ConnectEP
  <2>3. CASE Becomes(t, Idle)
    BY <2>0, <2>3, <1>3, <1>t, <1>n, IdleOK, AwakeOK, ThreadType, Zenon DEF ConnectEP
  <2> QED
    BY <1>3, <2>1, <2>2, <2>3, Zenon DEF ConnectEP
<1>4. CASE Temporary(t)
  <2> DEFINE x == [With(s, s.target) EXCEPT !.pooled = FALSE]
  <2>0. s.pc \in Directed /\ s.op = "endpoint" /\ s.pc \notin Holding
    BY <1>4, <1>t, Zenon DEF Temporary, Directed, Holding, ThreadOK, HoldsWhileSending
  <2>1. ThreadOK(With(s, s.target)) /\ With(s, s.target).pc = "send"
        /\ With(s, s.target).op = "endpoint"
    BY <2>0, <1>t, <1>d, WithOK
  <2>2. ThreadOK(x)
    BY <2>1, Zenon DEF ThreadOK, ThreadStates, HoldsWhileSending, Holding
  <2> QED
    BY <2>2, <1>4, <1>t, <1>n, IdleOK, AwakeOK, ThreadType, Zenon DEF Temporary
<1> QED
  BY <1>1, <1>2, <1>3, <1>4, Zenon

LEMMA WaitType ==
  ASSUME TypeOK, NEW t \in Threads,
         \/ Pop(t) \/ Check(t) \/ Connect(t) \/ Wait(t) \/ Wake(t)
         \/ Timeout(t) \/ NoConn(t)
  PROVE  TypeOK'
<1> DEFINE s == thr[t]
<1>t. /\ ThreadOK(s) /\ queue_ \in Seq(Servers) /\ m_poolSize \in Int
      /\ slips \in 0..MaxSlips
  BY AwakeOK, Zenon DEF TypeOK
<1>n. t \in notified => s.pc = "asleep"
  BY AwakeOK, Zenon
<1>w. ASSUME s.pc \in {"pop", "connect", "wait", "asleep"}, NEW ep \in Servers
      PROVE  ThreadOK(With(s, ep))
  BY <1>t, <1>w, WithOK, Zenon DEF Holding
<1>a. ASSUME s.pc \in {"pop", "check", "connect", "wait", "asleep", "noConn"},
             NEW pc \in {"check", "connect", "wait", "asleep", "noConn", "retry"}
      PROVE  ThreadOK(At(t, pc)) /\ At(t, pc).pc = pc
  <2>1. /\ pc \in Pcs /\ pc \notin Holding /\ pc \notin Directed
        /\ pc # "temporary" /\ s.pc \notin Holding
    BY <1>a, Zenon DEF Holding, Directed, Pcs
  <2> QED
    BY <2>1, <1>t, AtOK, Zenon DEF At
<1>e. NoConnection(t) \in {"wait", "noConn"}
  BY Zenon DEF NoConnection
<1>p. ASSUME WakeUp(t), s.pc \in {"wait", "asleep"}, m_poolSize' = m_poolSize,
             closed_' = closed_, mgr' = mgr, running' = running, slips' = slips
      PROVE  TypeOK'
  <2>0. notified' \subseteq Asleep /\ t \notin notified'
    BY <1>p, AwakeOK, Zenon DEF WakeUp
  <2>1. CASE Becomes(t, At(t, "noConn")) /\ UNCHANGED queue_
    <3>1. ThreadOK(At(t, "noConn"))
      BY <1>p, <1>a, Zenon
    <3> QED
      BY <3>1, <2>1, <2>0, <1>p, <1>t, ThreadType, Zenon
  <2>2. CASE /\ queue_ # <<>> /\ queue_' = Front(queue_)
             /\ Becomes(t, With(s, Last(queue_)))
    <3>1. queue_' \in Seq(Servers) /\ Last(queue_) \in Servers
      BY <2>2, <1>t, FrontOK, Zenon
    <3>2. ThreadOK(With(s, Last(queue_)))
      BY <3>1, <1>p, <1>w, Zenon
    <3> QED
      BY <3>1, <3>2, <2>2, <2>0, <1>p, <1>t, ThreadType, Zenon
  <2> QED
    BY <1>p, <2>1, <2>2, Zenon DEF WakeUp
<1>1. CASE Pop(t)
  <2>1. CASE Becomes(t, [At(t, "check") EXCEPT !.isClosed = TRUE])
             /\ UNCHANGED <<queue_, m_poolSize>>
    <3>1. ThreadOK(At(t, "check")) /\ At(t, "check").pc = "check"
      BY <1>1, <1>a, Zenon DEF Pop
    <3>2. ThreadOK([At(t, "check") EXCEPT !.isClosed = TRUE])
      BY <3>1, Zenon DEF ThreadOK, ThreadStates, HoldsWhileSending
    <3> QED
      BY <3>2, <2>1, <1>1, <1>t, <1>n, AwakeOK, ThreadType, Zenon DEF Pop
  <2>2. CASE \E i \in DOMAIN queue_ :
               /\ queue_' = SubSeq(queue_, 1, i - 1)
               /\ m_poolSize' = m_poolSize - (Len(queue_) - i)
               /\ Becomes(t, With(s, queue_[i]))
    <3> PICK i \in DOMAIN queue_ :
               /\ queue_' = SubSeq(queue_, 1, i - 1)
               /\ m_poolSize' = m_poolSize - (Len(queue_) - i)
               /\ Becomes(t, With(s, queue_[i]))
      BY <2>2, Zenon
    <3>1. queue_' \in Seq(Servers) /\ queue_[i] \in Servers
      BY <1>t, PrefixOK, Zenon
    <3>2. m_poolSize' \in Int
      BY <1>t
    <3>3. ThreadOK(With(s, queue_[i]))
      BY <3>1, <1>1, <1>w, Zenon DEF Pop
    <3> QED
      BY <3>1, <3>2, <3>3, <1>1, <1>t, <1>n, AwakeOK, ThreadType, Zenon DEF Pop
  <2>3. CASE /\ queue_' = <<>> /\ m_poolSize' = m_poolSize - Len(queue_)
             /\ Becomes(t, At(t, "check"))
    <3>1. ThreadOK(At(t, "check"))
      BY <1>1, <1>a, Zenon DEF Pop
    <3>2. queue_' \in Seq(Servers) /\ m_poolSize' \in Int
      BY <2>3, <1>t
    <3> QED
      BY <3>1, <3>2, <2>3, <1>1, <1>t, <1>n, AwakeOK, ThreadType, Zenon DEF Pop
  <2> QED
    BY <1>1, <2>1, <2>2, <2>3, Zenon DEF Pop
<1>2. CASE Check(t)
  <2> DEFINE pc == IF m_poolSize >= Limit THEN NoConnection(t) ELSE "connect"
  <2>1. pc \in {"wait", "noConn", "connect"}
    BY <1>e, Zenon
  <2>2. ThreadOK(At(t, pc))
    BY <2>1, <1>2, <1>a, Zenon DEF Check
  <2> QED
    BY <2>2, <1>2, <1>t, <1>n, AwakeOK, ThreadType, Zenon DEF Check
<1>3. CASE Connect(t)
  <2>0. m_poolSize' \in Int
    <3>1. m_poolSize' = m_poolSize \/ m_poolSize' = m_poolSize + 1
      BY <1>3, Zenon DEF Connect
    <3> QED
      BY <3>1, <1>t
  <2>1. CASE \E ep \in Servers : Becomes(t, With(s, ep))
    BY <2>0, <2>1, <1>w, <1>3, <1>t, <1>n, AwakeOK, ThreadType, Zenon DEF Connect
  <2>2. CASE \E ep \in Servers : Becomes(t, [s EXCEPT !.exclude = @ \cup {ep}])
    <3> PICK ep \in Servers : Becomes(t, [s EXCEPT !.exclude = @ \cup {ep}])
      BY <2>2, Zenon
    <3>1. ThreadOK([s EXCEPT !.exclude = @ \cup {ep}])
      BY <1>t DEF ThreadOK, ThreadStates, HoldsWhileSending
    <3> QED
      BY <3>1, <2>0, <1>3, <1>t, <1>n, AwakeOK, ThreadType, Zenon DEF Connect
  <2>3. CASE Becomes(t, [At(t, NoConnection(t)) EXCEPT !.err = TRUE])
    <3>1. ThreadOK(At(t, NoConnection(t)))
      BY <1>3, <1>a, <1>e, Zenon DEF Connect
    <3>2. ThreadOK([At(t, NoConnection(t)) EXCEPT !.err = TRUE])
      BY <3>1, Zenon DEF ThreadOK, ThreadStates, HoldsWhileSending
    <3> QED
      BY <3>2, <2>0, <2>3, <1>3, <1>t, <1>n, AwakeOK, ThreadType, Zenon DEF Connect
  <2> QED
    BY <1>3, <2>1, <2>2, <2>3, Zenon DEF Connect
<1>4. CASE Wait(t)
  <2>1. CASE WakeUp(t)
    BY <2>1, <1>4, <1>p, Zenon DEF Wait
  <2>2. CASE Becomes(t, At(t, "asleep")) /\ UNCHANGED <<queue_, notified>>
    <3>1. ThreadOK(At(t, "asleep")) /\ At(t, "asleep").pc = "asleep"
      BY <1>4, <1>a, Zenon DEF Wait
    <3> QED
      BY <3>1, <2>2, <1>4, <1>t, AwakeOK, ThreadType, Zenon DEF Wait
  <2> QED
    BY <1>4, <2>1, <2>2, Zenon DEF Wait
<1>5. CASE Wake(t)
  <2>1. CASE WakeUp(t)
    BY <2>1, <1>5, <1>p, Zenon DEF Wake
  <2>2. CASE notified' = notified \ {t} /\ UNCHANGED <<thr, queue_>>
    BY <2>2, <1>5, Zenon DEF Wake, TypeOK
  <2> QED
    BY <1>5, <2>1, <2>2, Zenon DEF Wake
<1>6. CASE Timeout(t)
  BY <1>6, <1>p, Zenon DEF Timeout
<1>7. CASE NoConn(t)
  <2>1. ThreadOK(At(t, "retry"))
    BY <1>7, <1>a, Zenon DEF NoConn
  <2> QED
    BY <2>1, <1>7, <1>t, <1>n, IdleOK, AwakeOK, ThreadType, Zenon DEF NoConn
<1> QED
  BY <1>1, <1>2, <1>3, <1>4, <1>5, <1>6, <1>7, Zenon

LEMMA SendType ==
  ASSUME TypeOK, NEW t \in Threads,
         \/ Answered(t) \/ Reauth(t) \/ Refused(t) \/ NoCredentials(t)
         \/ UnknownReply(t)
         \/ \E timeout \in BOOLEAN : Failed(t, timeout)
         \/ Purge(t) \/ Drop(t)
         \/ \E ends \in BOOLEAN : Retry(t, ends)
  PROVE  TypeOK'
<1> DEFINE s == thr[t]
<1>t. /\ ThreadOK(s) /\ queue_ \in Seq(Servers) /\ m_poolSize \in Int
      /\ slips \in 0..MaxSlips /\ s \in ThreadStates /\ s.op \in Ops
  BY AwakeOK, Zenon DEF TypeOK, ThreadOK, ThreadStates
<1>n. s.pc # "asleep" => t \notin Asleep /\ t \notin notified
  BY AwakeOK, Zenon
<1>c. s.pc \in Holding => s.conn \in Servers
  BY <1>t, Zenon DEF ThreadOK, HoldsWhileSending, ThreadStates
<1>p. s.op = "request" => s.pooled
  BY <1>t, Zenon DEF ThreadOK, HoldsWhileSending, ThreadStates
<1>b. ASSUME s.pc = "send", put(s.conn) \/ UNCHANGED <<queue_, notified>>
      PROVE  /\ queue_' \in Seq(Servers) /\ notified' \subseteq Asleep
             /\ t \notin notified'
  <2>1. s.conn \in Servers /\ t \notin Asleep /\ notified \subseteq Asleep
    BY <1>b, <1>c, <1>n, AwakeOK, Zenon DEF Holding
  <2> QED
    BY <2>1, <1>b, <1>t, PutOK, Zenon
<1>1. CASE Answered(t)
  BY <1>1, <1>b, <1>t, IdleOK, ThreadType, Zenon DEF Answered
<1>2. CASE Reauth(t)
  <2> DEFINE next == [s EXCEPT !.auth = @ + 1]
             again == [next EXCEPT !.pc = "getFromEP", !.conn = None,
                                   !.pooled = TRUE]
  <2>0. s.pc = "send" /\ s.auth + 1 \in 0..MaxReauth
    <3>1. s.pc = "send" /\ s.auth < MaxReauth
      BY <1>2, Zenon DEF Reauth
    <3> QED
      BY <3>1, <1>t, PoolAssumption DEF ThreadStates
  <2>1. /\ next \in ThreadStates /\ next.op = s.op /\ next.pooled = s.pooled
        /\ next.target = s.target
    BY <2>0, <1>t, Zenon DEF ThreadStates
  <2>2. s.op = "request" => ThreadOK(Attempt(next))
                            /\ Attempt(next).pc # "asleep"
    BY <2>1, <1>p, AttemptOK, Zenon
  <2>3. s.op = "endpoint" => s.target # None
    BY <1>t, Zenon DEF ThreadOK, HoldsWhileSending
  <2>4. s.op = "endpoint" => ThreadOK(again)
    BY <2>1, <2>3, PoolAssumption, Zenon
       DEF ThreadOK, HoldsWhileSending, ThreadStates, Holding, Directed
  <2>5. PICK x : Becomes(t, x) /\ ThreadOK(x)
    BY <1>2, <2>2, <2>4, IdleOK, Zenon DEF Reauth
  <2> QED
    BY <2>5, <2>0, <1>2, <1>b, <1>t, ThreadType, Zenon DEF Reauth
<1>3. CASE Refused(t) \/ NoCredentials(t)
  <2>1. s.pc = "send" /\ PutBack(t) /\ Becomes(t, Idle)
        /\ UNCHANGED <<closed_, m_poolSize, mgr, running>>
    BY <1>3, Zenon DEF Refused, NoCredentials
  <2>2. slips' \in 0..MaxSlips
    BY <2>1, <1>t, PoolAssumption DEF PutBack
  <2>3. put(s.conn)
    BY <2>1, Zenon DEF PutBack
  <2> QED
    BY <2>1, <2>2, <2>3, <1>b, <1>t, IdleOK, ThreadType, Zenon
<1>d. s.pc \in Holding => ThreadOK(At(t, "drop")) /\ ThreadOK(At(t, "purge"))
  BY <1>t, AtOK, Zenon DEF At, Holding, Directed, Pcs
<1>4. CASE UnknownReply(t)
  <2>1. s.pc = "send" /\ s.pc \in Holding
    BY <1>4, Zenon DEF UnknownReply, Holding
  <2>2. PICK x : Becomes(t, x) /\ ThreadOK(x)
    BY <2>1, <1>4, <1>d, Zenon DEF UnknownReply
  <2>3. slips' \in 0..MaxSlips
    BY <1>4, <1>t, PoolAssumption DEF UnknownReply
  <2> QED
    BY <2>1, <2>2, <2>3, <1>4, <1>b, <1>t, ThreadType, Zenon DEF UnknownReply
<1>5. CASE \E timeout \in BOOLEAN : Failed(t, timeout)
  <2>1. s.pc = "send" /\ s.pc \in Holding
    BY <1>5, Zenon DEF Failed, Holding
  <2>2. PICK x : Becomes(t, x) /\ ThreadOK(x)
    BY <2>1, <1>5, <1>d, Zenon DEF Failed
  <2> QED
    BY <2>1, <2>2, <1>5, <1>b, <1>t, ThreadType, Zenon DEF Failed
<1>6. CASE Purge(t)
  <2> PICK k \in 0..Len(queue_) : \E f \in [1..k -> DOMAIN queue_] :
             /\ queue_' = [n \in 1..k |-> queue_[f[n]]]
             /\ m_poolSize' = m_poolSize - (Len(queue_) - k)
    BY <1>6, Zenon DEF Purge
  <2>1. queue_' \in Seq(Servers) /\ m_poolSize' \in Int
    BY <1>t, PlacesOK
  <2>2. ThreadOK(At(t, "drop")) /\ t \notin notified /\ notified \subseteq Asleep
    BY <1>6, <1>d, <1>n, AwakeOK, Zenon DEF Purge, Holding
  <2> QED
    BY <2>1, <2>2, <1>6, <1>t, ThreadType, Zenon DEF Purge
<1>7. CASE Drop(t)
  <2> DEFINE x == [At(t, "retry") EXCEPT !.conn = None,
                                         !.exclude = @ \cup {s.conn}]
  <2>0. s.conn \in Servers /\ t \notin notified /\ notified \subseteq Asleep
    BY <1>7, <1>c, <1>n, AwakeOK, Zenon DEF Drop, Holding
  <2>1. s.op = "request" => ThreadOK(x)
    BY <2>0, <1>t, <1>p, Zenon
       DEF ThreadOK, HoldsWhileSending, ThreadStates, Holding, Directed, At
  <2>2. m_poolSize' \in Int
    BY <1>7, <1>t DEF Drop
  <2>3. PICK y : Becomes(t, y) /\ ThreadOK(y)
    BY <2>1, <1>7, <1>t, IdleOK, Zenon DEF Drop, Ops
  <2> QED
    BY <2>0, <2>2, <2>3, <1>7, <1>t, ThreadType, Zenon DEF Drop
<1>8. CASE \E ends \in BOOLEAN : Retry(t, ends)
  <2> DEFINE same == Cardinality(s.exclude) = s.tried
             next == [s EXCEPT !.exclude = IF same THEN {} ELSE @]
  <2>0. s.pc = "retry" /\ t \notin notified /\ notified \subseteq Asleep
    BY <1>8, <1>n, AwakeOK, Zenon DEF Retry
  <2>1. next \in ThreadStates /\ next.op = s.op /\ next.pooled = s.pooled
        /\ next.target = s.target
    BY <1>t, Zenon DEF ThreadStates
  <2>2. s.pooled /\ (s.op = "endpoint" => s.target # None)
    BY <2>0, <1>t, Zenon DEF ThreadOK, HoldsWhileSending, Holding
  <2>3. ThreadOK(Attempt(next))
    BY <2>1, <2>2, AttemptOK, Zenon
  <2>4. Becomes(t, Attempt(next)) \/ Becomes(t, Idle)
    BY <1>8, Zenon DEF Retry
  <2> QED
    BY <2>0, <2>3, <2>4, <1>8, <1>t, IdleOK, ThreadType, Zenon DEF Retry
<1> QED
  BY <1>1, <1>2, <1>3, <1>4, <1>5, <1>6, <1>7, <1>8, Zenon

-----------------------------------------------------------------------------
(* The managing thread.                                                    *)

LEMMA ManagerStepType ==
  ASSUME TypeOK, Manage \/ ManagerStep
  PROVE  TypeOK'
<1>t. /\ ManagerOK(mgr) /\ mgr \in ManagerStates /\ queue_ \in Seq(Servers)
      /\ m_poolSize \in Int /\ notified \subseteq Asleep
      /\ mgr.replaceCount \in Nat /\ Len(queue_) \in Nat
  BY DEF TypeOK, ManagerOK, Asleep, ManagerStates
<1>c. /\ mgr.pc \in ManagerHolding => mgr.conn \in Servers
      /\ mgr.conn # None => mgr.conn \in Servers
      /\ mgr.pc \in {"probe", "putNew"} => mgr.other \in Servers
  BY <1>t, Zenon DEF ManagerOK, ManagerStates
<1>i. ManagerOK(IdleManager)
  BY PoolAssumption DEF ManagerOK, ManagerStates, IdleManager, ManagerHolding
<1>o. OneLess \in 0..MinConnections
  BY <1>t, PoolAssumption DEF OneLess, ManagerStates
<1>l. mgr.pc \in {"judge", "probe"} =>
        ManagerOK([Listed EXCEPT !.other = None])
        /\ (mgr.pc = "judge" => ManagerOK(Listed))
  <2>1. mgr.conn \in Servers => Append(mgr.list, mgr.conn) \in Seq(Servers)
    BY <1>t DEF ManagerStates
  <2> QED
    BY <2>1, <1>t, <1>c, PoolAssumption, Zenon
       DEF Listed, ManagerOK, ManagerStates, ManagerHolding
<1>1. CASE Manage
  <2>0. mgr' = [pc |-> "scan", left |-> Len(queue_),
                replaceCount |-> MinConnections, list |-> <<>>,
                conn |-> None, other |-> None, exclude |-> {}]
    BY <1>1, Zenon DEF Manage, IdleManager
  <2>1. ManagerOK(mgr')
    BY <2>0, <1>t, PoolAssumption DEF ManagerOK, ManagerStates, ManagerHolding
  <2> QED
    BY <2>1, <1>1, <1>t, ManagerType, Zenon DEF Manage, others
<1>2. CASE Scan
  <2>1. CASE /\ mgr' = [mgr EXCEPT !.pc = "remove", !.left = 0]
             /\ UNCHANGED queue_
    <3>1. ManagerOK(mgr')
      BY <2>1, <1>2, <1>t, Zenon DEF Scan, ManagerOK, ManagerStates, ManagerHolding
    <3> QED
      BY <3>1, <2>1, <1>2, <1>t, ManagerType, Zenon DEF Scan, others
  <2>2. CASE /\ mgr.left # 0 /\ queue_ # <<>>
             /\ mgr' = [mgr EXCEPT !.pc = "judge", !.conn = Last(queue_),
                                   !.left = @ - 1]
             /\ queue_' = Front(queue_)
    <3>1. queue_' \in Seq(Servers) /\ Last(queue_) \in Servers
      BY <2>2, <1>t, FrontOK, Zenon
    <3>2. mgr.left - 1 \in Nat
      BY <2>2, <1>t DEF ManagerStates
    <3>3. ManagerOK(mgr')
      BY <3>1, <3>2, <2>2, <1>2, <1>t, PoolAssumption, Zenon
         DEF Scan, ManagerOK, ManagerStates, ManagerHolding
    <3> QED
      BY <3>1, <3>3, <2>2, <1>2, <1>t, ManagerType, Zenon DEF Scan, others
  <2> QED
    BY <1>2, <2>1, <2>2, Zenon DEF Scan
<1>3. CASE Keep
  <2>1. ManagerOK(mgr')
    BY <1>3, <1>t, <1>o, PoolAssumption, Zenon
       DEF Keep, ManagerOK, ManagerStates, ManagerHolding
  <2>2. mgr.conn \in Servers
    BY <1>3, <1>c, Zenon DEF Keep, ManagerHolding
  <2> QED
    BY <2>1, <2>2, <1>3, <1>t, PutOK, ManagerType, Zenon DEF Keep, others
<1>4. CASE \E expired \in BOOLEAN : Delete(expired)
  <2>1. CASE /\ \E i \in DOMAIN queue_ : queue_' = RemoveAt(queue_, i)
             /\ mgr' = [mgr EXCEPT !.pc = "probe", !.other = mgr.conn]
    <3>1. queue_' \in Seq(Servers)
      BY <2>1, <1>t, RemoveAtOK, Zenon
    <3>2. ManagerOK(mgr')
      BY <2>1, <1>4, <1>c, <1>t, PoolAssumption, Zenon
         DEF Delete, ManagerOK, ManagerStates, ManagerHolding
    <3> QED
      BY <3>1, <3>2, <1>4, <1>t, ManagerType, Zenon DEF Delete, others
  <2>2. CASE mgr' = Listed /\ UNCHANGED queue_
    BY <2>2, <1>4, <1>l, <1>t, ManagerType, Zenon DEF Delete, others
  <2> QED
    BY <1>4, <2>1, <2>2, Zenon DEF Delete
<1>5. CASE Probe
  <2>1. mgr.other \in Servers /\ ManagerOK(mgr')
    BY <1>5, <1>c, <1>l, Zenon DEF Probe
  <2> QED
    BY <2>1, <1>5, <1>t, PutOK, ManagerType, Zenon DEF Probe, others
<1>6. CASE RemoveNext
  <2>1. CASE /\ mgr' = [IdleManager EXCEPT !.pc = "restore",
                                           !.left = 2 * MinConnections]
             /\ UNCHANGED m_poolSize
    <3>0. mgr' = [pc |-> "restore", left |-> 2 * MinConnections,
                  replaceCount |-> 0, list |-> <<>>,
                  conn |-> None, other |-> None, exclude |-> {}]
      BY <2>1, Zenon DEF IdleManager
    <3>1. ManagerOK(mgr')
      BY <3>0, PoolAssumption DEF ManagerOK, ManagerStates, ManagerHolding
    <3> QED
      BY <3>1, <2>1, <1>6, <1>t, ManagerType, Zenon DEF RemoveNext, others
  <2>2. CASE mgr.list # <<>>
    <3> DEFINE next == [mgr EXCEPT !.list = Tail(@), !.replaceCount = OneLess,
                                   !.conn = Head(mgr.list)]
    <3>0. Tail(mgr.list) \in Seq(Servers) /\ Head(mgr.list) \in Servers
      BY <2>2, <1>t DEF ManagerStates
    <3>1. /\ next \in ManagerStates /\ next.pc = "remove"
          /\ next.conn \in Servers /\ next.other = None
      BY <3>0, <1>6, <1>t, <1>o, Zenon
         DEF RemoveNext, ManagerOK, ManagerStates
    <3>2. /\ ManagerOK([next EXCEPT !.conn = None])
          /\ ManagerOK([next EXCEPT !.pc = "noNew"])
          /\ ManagerOK([next EXCEPT !.pc = "replace"])
      BY <3>1, PoolAssumption, Zenon DEF ManagerOK, ManagerStates, ManagerHolding
    <3>3. CASE mgr' = [next EXCEPT !.conn = None]
               /\ m_poolSize' = m_poolSize - 1
      BY <3>3, <3>2, <1>6, <1>t, ManagerType DEF RemoveNext, others
    <3>4. CASE /\ \/ mgr' = [next EXCEPT !.pc = "noNew"]
                  \/ mgr' = [next EXCEPT !.pc = "replace"]
               /\ UNCHANGED m_poolSize
      BY <3>4, <3>2, <1>6, <1>t, ManagerType, Zenon DEF RemoveNext, others
    <3> QED
      BY <3>3, <3>4, <2>2, <1>6, Zenon DEF RemoveNext
  <2> QED
    BY <1>6, <2>1, <2>2, Zenon DEF RemoveNext
<1>7. CASE Replace
  <2>0. mgr.pc = "replace" /\ mgr.conn \in Servers /\ mgr.other = None
    BY <1>7, <1>c, <1>t, Zenon DEF Replace, ManagerHolding, ManagerOK
  <2>1. CASE /\ put(mgr.conn)
             /\ mgr' = [mgr EXCEPT !.pc = "remove", !.conn = None]
             /\ UNCHANGED m_poolSize
    <3>1. ManagerOK(mgr')
      BY <2>0, <2>1, <1>t, PoolAssumption, Zenon
         DEF ManagerOK, ManagerStates, ManagerHolding
    <3> QED
      BY <3>1, <2>0, <2>1, <1>7, <1>t, PutOK, ManagerType, Zenon DEF Replace, others
  <2>2. CASE /\ \E ep \in Servers :
                  \/ /\ mgr' = [mgr EXCEPT !.pc = "putNew", !.other = ep]
                     /\ m_poolSize' = m_poolSize + 1
                  \/ /\ mgr' = [mgr EXCEPT !.exclude = @ \cup {ep}]
                     /\ UNCHANGED m_poolSize
             /\ UNCHANGED <<queue_, notified>>
    <3>1. m_poolSize' \in Int
      BY <2>2, <1>t
    <3>2. \A ep \in Servers :
            ManagerOK([mgr EXCEPT !.pc = "putNew", !.other = ep])
      BY <2>0, <1>t, PoolAssumption, Zenon DEF ManagerOK, ManagerStates, ManagerHolding
    <3>3. \A ep \in Servers : ManagerOK([mgr EXCEPT !.exclude = @ \cup {ep}])
      BY <1>t, Zenon DEF ManagerOK, ManagerStates
    <3>4. ManagerOK(mgr')
      BY <2>2, <3>2, <3>3, Zenon
    <3> QED
      BY <3>1, <3>4, <2>2, <1>7, <1>t, ManagerType, Zenon DEF Replace, others
  <2>3. CASE /\ mgr' = [mgr EXCEPT !.pc = "noNew"]
             /\ UNCHANGED <<queue_, notified, m_poolSize>>
    <3>1. ManagerOK(mgr')
      BY <2>0, <2>3, <1>t, PoolAssumption, Zenon
         DEF ManagerOK, ManagerStates, ManagerHolding
    <3> QED
      BY <3>1, <2>3, <1>7, <1>t, ManagerType, Zenon DEF Replace, others
  <2> QED
    BY <1>7, <2>1, <2>2, <2>3, Zenon DEF Replace
<1>8. CASE PutNew
  <2>1. mgr.other \in Servers /\ ManagerOK(mgr')
    BY <1>8, <1>c, <1>t, PoolAssumption, Zenon
       DEF PutNew, ManagerOK, ManagerStates, ManagerHolding
  <2> QED
    BY <2>1, <1>8, <1>t, PutOK, ManagerType, Zenon DEF PutNew, others
<1>9. CASE DropOld
  <2>1. ManagerOK(mgr')
    BY <1>9, <1>t, PoolAssumption, Zenon
       DEF DropOld, ManagerOK, ManagerStates, ManagerHolding
  <2> QED
    BY <2>1, <1>9, <1>t, ManagerType DEF DropOld, others
<1>10. CASE KeepOld
  <2>1. mgr.conn \in Servers /\ ManagerOK(mgr')
    BY <1>10, <1>c, <1>t, PoolAssumption, Zenon
       DEF KeepOld, ManagerOK, ManagerStates, ManagerHolding
  <2> QED
    BY <2>1, <1>10, <1>t, PutOK, ManagerType, Zenon DEF KeepOld, others
<1>11. CASE RestoreNext
  <2>1. CASE mgr' = IdleManager
    BY <2>1, <1>11, <1>i, <1>t, ManagerType, Zenon DEF RestoreNext, others
  <2>2. CASE /\ mgr.left > 0
             /\ mgr' = [mgr EXCEPT !.pc = "restoreOne", !.left = @ - 1]
    <3>1. mgr.left - 1 \in Nat
      BY <2>2, <1>t DEF ManagerStates
    <3>2. ManagerOK(mgr')
      BY <3>1, <2>2, <1>11, <1>t, Zenon
         DEF RestoreNext, ManagerOK, ManagerStates, ManagerHolding
    <3> QED
      BY <3>2, <1>11, <1>t, ManagerType, Zenon DEF RestoreNext, others
  <2> QED
    BY <1>11, <2>1, <2>2, Zenon DEF RestoreNext
<1>12. CASE Restore
  <2>0. mgr.pc = "restoreOne" /\ mgr.other = None
    BY <1>12, <1>t, Zenon DEF Restore, ManagerOK
  <2>1. CASE /\ mgr.conn # None /\ put(mgr.conn)
             /\ mgr' = [mgr EXCEPT !.pc = "restore", !.conn = None]
             /\ UNCHANGED m_poolSize
    <3>1. ManagerOK(mgr')
      BY <2>0, <2>1, <1>t, PoolAssumption, Zenon
         DEF ManagerOK, ManagerStates, ManagerHolding
    <3> QED
      BY <3>1, <2>1, <1>12, <1>c, <1>t, PutOK, ManagerType, Zenon DEF Restore, others
  <2>2. CASE /\ \E ep \in Servers :
                  \/ /\ mgr' = [mgr EXCEPT !.conn = ep]
                     /\ m_poolSize' = m_poolSize + 1
                  \/ /\ mgr' = [mgr EXCEPT !.exclude = @ \cup {ep}]
                     /\ UNCHANGED m_poolSize
             /\ UNCHANGED <<queue_, notified>>
    <3>1. m_poolSize' \in Int
      BY <2>2, <1>t
    <3>2. PICK ep \in Servers :
            mgr' \in {[mgr EXCEPT !.conn = ep],
                     [mgr EXCEPT !.exclude = @ \cup {ep}]}
      BY <2>2, Zenon
    <3>3. ManagerOK([mgr EXCEPT !.conn = ep])
      BY <2>0, <1>t, PoolAssumption, Zenon
         DEF ManagerOK, ManagerStates, ManagerHolding
    <3>4. mgr.exclude \cup {ep} \in SUBSET Servers
      BY <1>t, Zenon DEF ManagerOK, ManagerStates
    <3>5. ManagerOK([mgr EXCEPT !.exclude = @ \cup {ep}])
      BY <3>4, <2>0, <1>t, Zenon
         DEF ManagerOK, ManagerStates, ManagerHolding
    <3> QED
      BY <3>1, <3>2, <3>3, <3>5, <2>2, <1>12, <1>t, ManagerType, Zenon
         DEF Restore, others
  <2>3. CASE /\ mgr.conn = None
             /\ mgr' = [mgr EXCEPT !.pc = "restore"]
             /\ UNCHANGED <<queue_, notified, m_poolSize>>
    <3>1. ManagerOK(mgr')
      BY <2>0, <2>3, <1>t, PoolAssumption, Zenon
         DEF ManagerOK, ManagerStates, ManagerHolding
    <3> QED
      BY <3>1, <2>3, <1>12, <1>t, ManagerType, Zenon DEF Restore, others
  <2> QED
    BY <1>12, <2>1, <2>2, <2>3, Zenon DEF Restore
<1> QED
  BY <1>1, <1>2, <1>3, <1>4, <1>5, <1>6, <1>7, <1>8, <1>9, <1>10, <1>11,
     <1>12, Zenon DEF ManagerStep

-----------------------------------------------------------------------------

(* TypeOK holds in every state: in particular a thread has a connection in *)
(* hand exactly in the steps that send on it or delete it                  *)
(* (ThinClientPoolDM::sendSyncRequest), and so has manageConnections.      *)
THEOREM TypeCorrect == Spec => []TypeOK
<1>1. Init => TypeOK
  <2> SUFFICES ASSUME Init PROVE TypeOK
    BY Zenon
  <2>1. ManagerOK(IdleManager)
    BY PoolAssumption DEF ManagerOK, ManagerStates, IdleManager, ManagerHolding
  <2>2. /\ mgr \in ManagerStates
        /\ mgr.pc \in ManagerHolding => mgr.conn # None
        /\ mgr.conn # None => mgr.pc \in ManagerHolding \cup {"restoreOne"}
        /\ mgr.other # None <=> mgr.pc \in {"probe", "putNew"}
    BY <2>1, Zenon DEF Init, ManagerOK
  <2>3. /\ thr \in [Threads -> ThreadStates]
        /\ \A t \in Threads : HoldsWhileSending(thr[t])
    BY IdleOK, Zenon DEF Init, ThreadOK
  <2>4. queue_ \in Seq(Servers) /\ notified = {}
    BY DEF Init
  <2>5. m_poolSize \in Int /\ slips \in 0..MaxSlips
    BY PoolAssumption DEF Init
  <2>6. closed_ \in BOOLEAN /\ running \in BOOLEAN
    BY Zenon DEF Init
  <2> QED
    BY <2>2, <2>3, <2>4, <2>5, <2>6, Zenon DEF TypeOK
<1>2. TypeOK /\ [Next]_vars => TypeOK'
  <2> SUFFICES ASSUME TypeOK, [Next]_vars PROVE TypeOK'
    BY Zenon
  <2>1. ASSUME NEW t \in Threads,
               \/ \E target \in Servers \cup {None} : Begin(t, target)
               \/ \E ep \in Servers : BeginToEP(t, ep)
               \/ Work(t) \/ Timeout(t)
        PROVE  TypeOK'
    BY <2>1, BeginType, GetType, WaitType, SendType, Zenon DEF Work
  <2>2. CASE Manage \/ ManagerStep
    BY <2>2, ManagerStepType, Zenon
  <2>3. CASE Stop
    BY <2>3, Zenon DEF Stop, TypeOK
  <2>4. CASE close
    BY <2>4 DEF close, TypeOK
  <2>5. CASE UNCHANGED vars
    BY <2>5, Zenon DEF vars, TypeOK
  <2> QED
    BY <2>1, <2>2, <2>3, <2>4, <2>5, Zenon DEF Next
<1> QED
  BY <1>1, <1>2, PTL DEF Spec

-----------------------------------------------------------------------------
(* What the pool counts: its connections, the requests that make one, and  *)
(* the threads that are woken.                                             *)

-----------------------------------------------------------------------------
(* Threads that are making a connection.                                   *)

MakingAt == {"connect", "connectEP"}

Making == {t \in Threads : thr[t].pc \in MakingAt}

ManagerMaking ==
  IF mgr.pc = "replace" \/ (mgr.pc = "restoreOne" /\ mgr.conn = None)
  THEN 1 ELSE 0

(* Every connection that is being made is counted beforehand.              *)
Ahead ==
  m_poolSize + Cardinality(Making) + ManagerMaking
    <= Limit + Cardinality(Threads)

LEMMA MakingType ==
  /\ IsFiniteSet(Making)
  /\ Cardinality(Making) \in 0..Cardinality(Threads)
  /\ Cardinality(Threads) \in Nat
<1>1. IsFiniteSet(Making) /\ Cardinality(Making) <= Cardinality(Threads)
  BY PoolAssumption, FS_Subset, Zenon DEF Making
<1>2. Cardinality(Making) \in Nat /\ Cardinality(Threads) \in Nat
  BY <1>1, PoolAssumption, FS_CardinalityType, Zenon
<1> QED
  BY <1>1, <1>2

(* A step of a thread: it stops making a connection, with a new one or     *)
(* not; it goes on; or it begins, below the limit.                         *)
LEMMA AheadThread ==
  ASSUME TypeOK, Ahead, NEW t \in Threads, NEW s, Becomes(t, s), mgr' = mgr,
         m_poolSize' \in Int,
         \/ s.pc \notin MakingAt /\ m_poolSize' <= m_poolSize
         \/ s.pc \notin MakingAt /\ thr[t].pc \in MakingAt
            /\ m_poolSize' = m_poolSize + 1
         \/ thr[t].pc \in MakingAt /\ m_poolSize' = m_poolSize
         \/ m_poolSize < Limit /\ m_poolSize' = m_poolSize
  PROVE  Ahead'
<1>t. /\ thr'[t] = s /\ \A u \in Threads \ {t} : thr'[u] = thr[u]
      /\ m_poolSize \in Int /\ Limit \in Nat /\ ManagerMaking \in 0..1
      /\ ManagerMaking' = ManagerMaking
  BY ThreadStep, LimitType DEF TypeOK, ManagerMaking
<1>f. /\ IsFiniteSet(Making) /\ Cardinality(Making) \in 0..Cardinality(Threads)
      /\ Cardinality(Threads) \in Nat
  BY MakingType, Zenon
<1>g. IsFiniteSet(Making') /\ Cardinality(Making') \in 0..Cardinality(Threads)
  <2>1. IsFiniteSet(Making') /\ Cardinality(Making') <= Cardinality(Threads)
    BY PoolAssumption, FS_Subset, Zenon DEF Making
  <2> QED
    BY <2>1, <1>f, FS_CardinalityType
<1>1. CASE s.pc \notin MakingAt /\ m_poolSize' <= m_poolSize
  <2>1. Making' \subseteq Making
    BY <1>1, <1>t, Zenon DEF Making
  <2>2. Cardinality(Making') <= Cardinality(Making)
    BY <2>1, <1>f, FS_Subset, Zenon
  <2> QED
    BY <2>2, <1>1, <1>t, <1>f, <1>g DEF Ahead
<1>2. CASE s.pc \notin MakingAt /\ thr[t].pc \in MakingAt
           /\ m_poolSize' = m_poolSize + 1
  <2>1. Making' = Making \ {t} /\ t \in Making
    BY <1>2, <1>t DEF Making
  <2>2. Cardinality(Making') = Cardinality(Making) - 1
    BY <2>1, <1>f, FS_RemoveElement, Zenon
  <2> QED
    BY <2>2, <1>2, <1>t, <1>f, <1>g DEF Ahead
<1>3. CASE thr[t].pc \in MakingAt /\ m_poolSize' = m_poolSize
  <2>1. Making' \subseteq Making
    BY <1>3, <1>t, Zenon DEF Making
  <2>2. Cardinality(Making') <= Cardinality(Making)
    BY <2>1, <1>f, FS_Subset, Zenon
  <2> QED
    BY <2>2, <1>3, <1>t, <1>f, <1>g DEF Ahead
<1>4. CASE m_poolSize < Limit /\ m_poolSize' = m_poolSize
  BY <1>4, <1>t, <1>f, <1>g DEF Ahead
<1> QED
  BY <1>1, <1>2, <1>3, <1>4, Zenon

(* A step that leaves the threads alone.                                   *)
LEMMA AheadManager ==
  ASSUME TypeOK, Ahead, thr' = thr, m_poolSize' \in Int,
         \/ m_poolSize' <= m_poolSize /\ ManagerMaking' <= ManagerMaking
         \/ m_poolSize' = m_poolSize + 1 /\ ManagerMaking = 1 /\ ManagerMaking' = 0
         \/ m_poolSize < Limit /\ m_poolSize' = m_poolSize
  PROVE  Ahead'
<1>t. /\ m_poolSize \in Int /\ Limit \in Nat /\ ManagerMaking \in 0..1
      /\ ManagerMaking' \in 0..1 /\ Making' = Making
  BY LimitType DEF TypeOK, ManagerMaking, Making
<1> QED
  BY <1>t, MakingType DEF Ahead

-----------------------------------------------------------------------------
(* What a step of a thread does to the counts.                             *)

(* A connection of the pool is in hand.                                    *)
Has(s) == IF s.conn # None /\ s.pooled THEN 1 ELSE 0

(* It makes a connection as AheadThread requires.                          *)
Slots(t, s) ==
  \/ s.pc \notin MakingAt /\ m_poolSize' <= m_poolSize
  \/ s.pc \notin MakingAt /\ thr[t].pc \in MakingAt
     /\ m_poolSize' = m_poolSize + 1
  \/ thr[t].pc \in MakingAt /\ m_poolSize' = m_poolSize
  \/ m_poolSize < Limit /\ m_poolSize' = m_poolSize

(* It changes m_poolSize by the connections it adds and removes.           *)
Balanced(t, s) ==
  slips' = 0 /\ ~closed_ =>
    /\ slips = 0
    /\ m_poolSize' - Len(queue_') - Has(s) = m_poolSize - Len(queue_) - Has(thr[t])

(* It puts no thread to sleep and wakes none but by a put.                 *)
Quiet(t, s) ==
  /\ s.pc # "asleep" /\ thr[t].pc # "asleep"
  /\ \/ Len(queue_') <= Len(queue_) /\ UNCHANGED notified
     \/ \E c \in Servers : put(c)

Effect(t, s) ==
  /\ Becomes(t, s) /\ UNCHANGED <<closed_, mgr>>
  /\ Slots(t, s) /\ Balanced(t, s)

LEMMA Fields ==
  ASSUME NEW s \in ThreadStates
  PROVE  /\ \A pc : /\ [s EXCEPT !.pc = pc].pc = pc
                    /\ [s EXCEPT !.pc = pc].conn = s.conn
                    /\ [s EXCEPT !.pc = pc].pooled = s.pooled
         /\ \A ep : /\ With(s, ep).pc = "send" /\ With(s, ep).conn = ep
                    /\ With(s, ep).pooled = s.pooled
         /\ Attempt(s).pc \in {"getFromEP", "pop"}
         /\ Attempt(s).conn = None
  BY Zenon DEF ThreadStates, With, Attempt

(* The facts the steps of a thread are counted with.                       *)
LEMMA Counted ==
  ASSUME TypeOK, TypeOK', NEW t \in Threads
  PROVE  /\ thr[t] \in ThreadStates
         /\ Len(queue_) \in Nat /\ Len(queue_') \in Nat
         /\ m_poolSize \in Int /\ m_poolSize' \in Int /\ slips \in Nat
         /\ Has(Idle) = 0 /\ Idle.pc = "idle"
         /\ thr[t].pc \notin Holding => thr[t].pooled /\ Has(thr[t]) = 0
         /\ thr[t].pc \in Holding =>
              /\ thr[t].conn \in Servers
              /\ Has(thr[t]) = IF thr[t].pooled THEN 1 ELSE 0
<1>1. thr[t] \in ThreadStates /\ HoldsWhileSending(thr[t])
  BY Zenon DEF TypeOK
<1>2. Len(queue_) \in Nat /\ Len(queue_') \in Nat
  BY DEF TypeOK
<1>3. m_poolSize \in Int /\ m_poolSize' \in Int /\ slips \in Nat
  BY PoolAssumption DEF TypeOK
<1>4. Has(Idle) = 0 /\ Idle.pc = "idle"
  BY IdleOK, Zenon DEF Has
<1>5. thr[t].pc \notin Holding => thr[t].pooled /\ Has(thr[t]) = 0
  BY <1>1, Zenon DEF HoldsWhileSending, Has, ThreadStates
<1>6. thr[t].pc \in Holding =>
        /\ thr[t].conn \in Servers
        /\ Has(thr[t]) = IF thr[t].pooled THEN 1 ELSE 0
  BY <1>1, Zenon DEF HoldsWhileSending, Has, ThreadStates
<1> QED
  BY <1>1, <1>2, <1>3, <1>4, <1>5, <1>6, Zenon

(* A step that makes no connection and changes no count.                   *)
LEMMA PlainStep ==
  ASSUME TypeOK, TypeOK', NEW t \in Threads, NEW s, Becomes(t, s),
         UNCHANGED <<queue_, closed_, m_poolSize, notified, mgr, slips>>,
         Has(s) = Has(thr[t]), s.pc \notin MakingAt,
         s.pc # "asleep", thr[t].pc # "asleep"
  PROVE  Effect(t, s) /\ Quiet(t, s)
<1>1. /\ queue_' = queue_ /\ m_poolSize' = m_poolSize /\ slips' = slips
      /\ notified' = notified
      /\ m_poolSize' <= m_poolSize /\ Len(queue_') <= Len(queue_)
  BY Counted
<1>2. Slots(t, s)
  BY <1>1, Zenon DEF Slots
<1>3. Balanced(t, s)
  BY <1>1, Zenon DEF Balanced
<1>4. Quiet(t, s)
  BY <1>1, Zenon DEF Quiet
<1> QED
  BY <1>2, <1>3, <1>4, Zenon DEF Effect

LEMMA BeginEffect ==
  ASSUME TypeOK, TypeOK', NEW t \in Threads,
         \/ \E target \in Servers \cup {None} : Begin(t, target)
         \/ \E ep \in Servers : BeginToEP(t, ep)
  PROVE  \E s : Effect(t, s) /\ Quiet(t, s)
<1>t. /\ thr[t] \in ThreadStates /\ m_poolSize \in Int /\ Len(queue_) \in Nat
      /\ thr[t].pc \notin Holding => Has(thr[t]) = 0
  BY Counted, Zenon
<1>1. CASE \E target \in Servers \cup {None} : Begin(t, target)
  <2> PICK target \in Servers \cup {None} : Begin(t, target)
    BY <1>1, Zenon
  <2> DEFINE s == [Idle EXCEPT !.target = target, !.retries = RetryAttempts + 1]
  <2>0. RetryAttempts + 1 \in -1..(RetryAttempts + 1)
    BY PoolAssumption
  <2>1. s \in ThreadStates
    BY <2>0, IdleOK, Zenon DEF ThreadOK, ThreadStates, Idle
  <2>2. Attempt(s).pc \in {"getFromEP", "pop"} /\ Attempt(s).conn = None
    BY <2>1, Fields, Zenon
  <2>3. Has(Attempt(s)) = 0 /\ Has(thr[t]) = 0
    BY <2>2, <1>t, Zenon DEF Has, Begin, Holding
  <2>4. /\ Attempt(s).pc \notin MakingAt /\ Attempt(s).pc # "asleep"
        /\ thr[t].pc # "asleep"
    BY <2>2, Zenon DEF MakingAt, Begin
  <2> QED
    BY <2>3, <2>4, PlainStep, Zenon DEF Begin
<1>2. CASE \E ep \in Servers : BeginToEP(t, ep)
  <2> PICK ep \in Servers : BeginToEP(t, ep)
    BY <1>2, Zenon
  <2> DEFINE s == [Idle EXCEPT !.pc = "getFromEP", !.op = "endpoint",
                               !.target = ep]
  <2>1. s.pc = "getFromEP" /\ s.conn = None
    BY Zenon DEF Idle
  <2>2. Has(s) = 0 /\ Has(thr[t]) = 0
    BY <2>1, <1>t, Zenon DEF Has, BeginToEP, Holding
  <2>3. s.pc \notin MakingAt /\ s.pc # "asleep" /\ thr[t].pc # "asleep"
    BY <2>1, Zenon DEF MakingAt, BeginToEP
  <2> QED
    BY <2>2, <2>3, PlainStep, Zenon DEF BeginToEP
<1> QED
  BY <1>1, <1>2, Zenon

LEMMA GetEffect ==
  ASSUME TypeOK, TypeOK', NEW t \in Threads,
         getFromEP(t) \/ CheckEP(t) \/ ConnectEP(t) \/ Temporary(t)
  PROVE  \E s : Effect(t, s) /\ Quiet(t, s)
<1> DEFINE s == thr[t]
<1>c. /\ s \in ThreadStates /\ m_poolSize \in Int
      /\ Len(queue_) \in Nat /\ Len(queue_') \in Nat
      /\ Has(Idle) = 0 /\ Idle.pc = "idle"
  BY Counted, Zenon
<1>h. /\ s.pc \in Directed /\ s.pc \notin Holding /\ s.pc # "asleep"
      /\ s.pooled /\ Has(s) = 0 /\ s.target \in Servers
  <2>1. s.pc \in Directed /\ s.pc \notin Holding /\ s.pc # "asleep"
    BY Zenon DEF getFromEP, CheckEP, ConnectEP, Temporary, Directed, Holding
  <2>2. s.target \in Servers
    BY <2>1, Zenon DEF TypeOK, HoldsWhileSending, ThreadStates
  <2> QED
    BY <2>1, <2>2, Counted, Zenon
<1>w. LET w == With(s, s.target)
      IN w.pc = "send" /\ Has(w) = 1 /\ w \in ThreadStates
  <2>1. /\ With(s, s.target).pc = "send" /\ With(s, s.target).conn = s.target
        /\ With(s, s.target).pooled = s.pooled
    BY <1>c, Fields, Zenon
  <2>2. With(s, s.target) \in ThreadStates
    BY <1>h, WithOK, AwakeOK, Zenon DEF ThreadOK
  <2> QED
    BY <2>1, <2>2, <1>h, PoolAssumption, Zenon DEF Has
<1>a. \A pc : At(t, pc).pc = pc /\ Has(At(t, pc)) = 0
  BY <1>c, <1>h, Fields DEF At, Has
<1>e. Elsewhere(t) \in {"pop", "temporary"}
  BY Zenon DEF Elsewhere
<1>1. CASE getFromEP(t)
  <2>1. CASE \E i \in DOMAIN queue_ : /\ queue_' = RemoveAt(queue_, i)
                                     /\ Becomes(t, With(s, s.target))
    <3>1. /\ Len(queue_') = Len(queue_) - 1 /\ m_poolSize' = m_poolSize
          /\ slips' = slips /\ notified' = notified
      BY <2>1, <1>1, RemoveAtOK, Zenon DEF getFromEP, TypeOK
    <3>2. Balanced(t, With(s, s.target))
      BY <3>1, <1>c, <1>h, <1>w DEF Balanced
    <3>3. Slots(t, With(s, s.target))
      BY <3>1, <1>c, <1>w DEF Slots, MakingAt
    <3>4. Len(queue_') <= Len(queue_) /\ With(s, s.target).pc # "asleep"
      BY <3>1, <1>c, <1>w
    <3>5. Quiet(t, With(s, s.target))
      BY <3>1, <3>4, <1>h, Zenon DEF Quiet
    <3> QED
      BY <3>2, <3>3, <3>5, <2>1, <1>1, Zenon DEF Effect, getFromEP
  <2>2. CASE Becomes(t, At(t, "checkEP")) /\ UNCHANGED queue_
    <3>1. At(t, "checkEP").pc \notin MakingAt /\ At(t, "checkEP").pc # "asleep"
      BY <1>a DEF MakingAt
    <3> QED
      BY <3>1, <2>2, <1>1, <1>a, <1>h, PlainStep, Zenon DEF getFromEP
  <2> QED
    BY <1>1, <2>1, <2>2, Zenon DEF getFromEP
<1>2. CASE CheckEP(t)
  <2>1. CASE m_poolSize >= Limit
    <3>1. /\ At(t, Elsewhere(t)).pc \notin MakingAt
          /\ At(t, Elsewhere(t)).pc # "asleep"
      BY <1>a, <1>e, Zenon DEF MakingAt
    <3> QED
      BY <3>1, <2>1, <1>2, <1>a, <1>h, PlainStep, Zenon DEF CheckEP
  <2>2. CASE ~(m_poolSize >= Limit)
    <3> DEFINE x == At(t, "connectEP")
    <3>0. x.pc = "connectEP" /\ x.pc # "asleep" /\ Has(x) = 0
      BY <1>a
    <3>1. /\ Becomes(t, x) /\ m_poolSize < Limit /\ m_poolSize' = m_poolSize
          /\ queue_' = queue_ /\ notified' = notified /\ slips' = slips
          /\ closed_' = closed_ /\ mgr' = mgr /\ Len(queue_') <= Len(queue_)
      BY <2>2, <1>2, <1>c, LimitType DEF CheckEP
    <3>2. Slots(t, x)
      BY <3>1, Zenon DEF Slots
    <3>3. Balanced(t, x)
      BY <3>0, <3>1, <1>h, Zenon DEF Balanced
    <3>4. Quiet(t, x)
      BY <3>0, <3>1, <1>h, Zenon DEF Quiet
    <3> QED
      BY <3>1, <3>2, <3>3, <3>4, Zenon DEF Effect
  <2> QED
    BY <2>1, <2>2, Zenon
<1>3. CASE ConnectEP(t)
  <2>1. CASE Becomes(t, With(s, s.target)) /\ m_poolSize' = m_poolSize + 1
    <3> DEFINE x == With(s, s.target)
    <3>1. /\ queue_' = queue_ /\ notified' = notified /\ slips' = slips
          /\ closed_' = closed_ /\ mgr' = mgr /\ Len(queue_') <= Len(queue_)
          /\ x.pc # "asleep" /\ x.pc \notin MakingAt /\ s.pc \in MakingAt
      BY <1>3, <1>c, <1>w DEF ConnectEP, MakingAt
    <3>2. Slots(t, x)
      BY <3>1, <2>1, Zenon DEF Slots
    <3>3. Balanced(t, x)
      BY <3>1, <2>1, <1>c, <1>h, <1>w DEF Balanced
    <3>4. Quiet(t, x)
      BY <3>1, <1>h, Zenon DEF Quiet
    <3> QED
      BY <3>1, <3>2, <3>3, <3>4, <2>1, Zenon DEF Effect
  <2>2. CASE Becomes(t, At(t, Elsewhere(t))) /\ UNCHANGED m_poolSize
    <3>1. /\ At(t, Elsewhere(t)).pc \notin MakingAt
          /\ At(t, Elsewhere(t)).pc # "asleep"
      BY <1>a, <1>e, Zenon DEF MakingAt
    <3> QED
      BY <3>1, <2>2, <1>3, <1>a, <1>h, PlainStep, Zenon DEF ConnectEP
  <2>3. CASE Becomes(t, Idle) /\ UNCHANGED m_poolSize
    BY <2>3, <1>3, <1>c, <1>h, PlainStep, Zenon DEF ConnectEP, MakingAt
  <2> QED
    BY <1>3, <2>1, <2>2, <2>3, Zenon DEF ConnectEP
<1>4. CASE Temporary(t)
  <2>1. CASE Becomes(t, Idle)
    BY <2>1, <1>4, <1>c, <1>h, PlainStep, Zenon DEF Temporary, MakingAt
  <2>2. CASE Becomes(t, [With(s, s.target) EXCEPT !.pooled = FALSE])
    <3> DEFINE x == [With(s, s.target) EXCEPT !.pooled = FALSE]
    <3>1. x.pc = "send" /\ ~x.pooled
      BY <1>w, Zenon DEF ThreadStates
    <3>2. Has(x) = 0 /\ x.pc \notin MakingAt /\ x.pc # "asleep"
      BY <3>1, Zenon DEF Has, MakingAt
    <3> QED
      BY <3>2, <2>2, <1>4, <1>h, PlainStep, Zenon DEF Temporary
  <2> QED
    BY <1>4, <2>1, <2>2, Zenon DEF Temporary
<1> QED
  BY <1>1, <1>2, <1>3, <1>4, Zenon

(* A step that takes a connection from the queue and deletes others.       *)
LEMMA QueueStep ==
  ASSUME TypeOK, TypeOK', NEW t \in Threads, NEW s, Becomes(t, s),
         closed_' = closed_, mgr' = mgr, slips' = slips,
         s.pc \notin MakingAt, m_poolSize' <= m_poolSize,
         m_poolSize' - Len(queue_') - Has(s)
           = m_poolSize - Len(queue_) - Has(thr[t])
  PROVE  /\ Effect(t, s)
         /\ /\ s.pc # "asleep" /\ thr[t].pc # "asleep"
            /\ notified' = notified /\ Len(queue_') <= Len(queue_)
            => Quiet(t, s)
<1>1. Slots(t, s)
  BY Zenon DEF Slots
<1>2. Balanced(t, s)
  BY Zenon DEF Balanced
<1>3. ASSUME s.pc # "asleep", thr[t].pc # "asleep",
             notified' = notified, Len(queue_') <= Len(queue_)
      PROVE  Quiet(t, s)
  BY <1>3, Zenon DEF Quiet
<1> QED
  BY <1>1, <1>2, <1>3, Zenon DEF Effect

LEMMA PopEffect ==
  ASSUME TypeOK, TypeOK', NEW t \in Threads,
         Pop(t) \/ Check(t) \/ Connect(t) \/ NoConn(t)
  PROVE  \E s : Effect(t, s) /\ Quiet(t, s)
<1> DEFINE s == thr[t]
<1>c. /\ s \in ThreadStates /\ m_poolSize \in Int /\ m_poolSize' \in Int
      /\ Len(queue_) \in Nat /\ Len(queue_') \in Nat
      /\ Has(Idle) = 0 /\ Idle.pc = "idle" /\ queue_ \in Seq(Servers)
  BY Counted, Zenon DEF TypeOK
<1>h. s.pc \notin Holding /\ s.pc # "asleep" /\ s.pooled /\ Has(s) = 0
  <2>1. s.pc \notin Holding /\ s.pc # "asleep"
    BY Zenon DEF Pop, Check, Connect, NoConn, Holding
  <2> QED
    BY <2>1, Counted, Zenon
<1>w. ASSUME NEW ep \in Servers
      PROVE  /\ With(s, ep).pc \notin MakingAt /\ With(s, ep).pc # "asleep"
             /\ Has(With(s, ep)) = 1
  BY <1>c, <1>h, Fields, PoolAssumption DEF Has, MakingAt
<1>a. \A pc : At(t, pc).pc = pc /\ Has(At(t, pc)) = 0
  BY <1>c, <1>h, Fields DEF At, Has
<1>e. NoConnection(t) \in {"wait", "noConn"}
  BY Zenon DEF NoConnection
<1>1. CASE Pop(t)
  <2>1. CASE Becomes(t, [At(t, "check") EXCEPT !.isClosed = TRUE])
             /\ UNCHANGED <<queue_, m_poolSize>>
    <3> DEFINE x == [At(t, "check") EXCEPT !.isClosed = TRUE]
    <3>1. x.pc = "check" /\ x.conn = s.conn /\ x.pooled = s.pooled
      BY <1>c, Zenon DEF At, ThreadStates
    <3>2. Has(x) = Has(s) /\ x.pc \notin MakingAt /\ x.pc # "asleep"
      BY <3>1, Zenon DEF Has, MakingAt
    <3> QED
      BY <3>2, <2>1, <1>1, <1>h, PlainStep, Zenon DEF Pop
  <2>2. CASE \E i \in DOMAIN queue_ :
               /\ queue_' = SubSeq(queue_, 1, i - 1)
               /\ m_poolSize' = m_poolSize - (Len(queue_) - i)
               /\ Becomes(t, With(s, queue_[i]))
    <3>p. PICK i \in DOMAIN queue_ :
               /\ queue_' = SubSeq(queue_, 1, i - 1)
               /\ m_poolSize' = m_poolSize - (Len(queue_) - i)
               /\ Becomes(t, With(s, queue_[i]))
      BY <2>2, Zenon
    <3> DEFINE x == With(s, queue_[i])
    <3>1. queue_[i] \in Servers /\ i \in 1..Len(queue_) /\ Len(queue_') = i - 1
      BY <3>p, <1>c, PrefixOK, Zenon
    <3>2. x.pc \notin MakingAt /\ x.pc # "asleep" /\ Has(x) = 1
      BY <3>1, <1>w, Zenon
    <3>3. /\ m_poolSize' <= m_poolSize /\ Len(queue_') <= Len(queue_)
          /\ m_poolSize' - Len(queue_') - 1 = m_poolSize - Len(queue_)
      <4>1. ASSUME NEW m \in Int, NEW n \in Nat, NEW j \in 1..n
            PROVE  /\ m - (n - j) <= m /\ j - 1 <= n
                   /\ (m - (n - j)) - (j - 1) - 1 = m - n
        OBVIOUS
      <4>2. m_poolSize' = m_poolSize - (Len(queue_) - i) /\ Len(queue_') = i - 1
        BY <3>p, <3>1, Zenon
      <4>3. /\ m_poolSize - (Len(queue_) - i) <= m_poolSize
            /\ i - 1 <= Len(queue_)
            /\ (m_poolSize - (Len(queue_) - i)) - (i - 1) - 1
                 = m_poolSize - Len(queue_)
        BY <4>1, <3>1, <1>c, Zenon
      <4> QED
        BY <4>2, <4>3, Zenon
    <3>4. m_poolSize' - Len(queue_') - Has(x) = m_poolSize - Len(queue_) - Has(s)
      <4> HIDE DEF x, s
      <4> QED
        BY <3>2, <3>3, <1>c, <1>h
    <3> QED
      BY <3>p, <3>2, <3>3, <3>4, <1>1, <1>h, QueueStep, Zenon DEF Pop
  <2>3. CASE /\ queue_' = <<>> /\ m_poolSize' = m_poolSize - Len(queue_)
             /\ Becomes(t, At(t, "check"))
    <3>1. At(t, "check").pc \notin MakingAt /\ At(t, "check").pc # "asleep"
      BY <1>a DEF MakingAt
    <3>2. /\ m_poolSize' <= m_poolSize /\ Len(queue_') <= Len(queue_)
          /\ m_poolSize' - Len(queue_') - Has(At(t, "check"))
               = m_poolSize - Len(queue_) - Has(s)
      BY <2>3, <1>a, <1>c, <1>h
    <3> QED
      BY <3>1, <3>2, <2>3, <1>1, <1>h, QueueStep, Zenon DEF Pop
  <2> QED
    BY <1>1, <2>1, <2>2, <2>3, Zenon DEF Pop
<1>2. CASE Check(t)
  <2>1. CASE m_poolSize >= Limit
    <3>1. /\ At(t, NoConnection(t)).pc \notin MakingAt
          /\ At(t, NoConnection(t)).pc # "asleep"
      BY <1>a, <1>e, Zenon DEF MakingAt
    <3> QED
      BY <3>1, <2>1, <1>2, <1>a, <1>h, PlainStep, Zenon DEF Check
  <2>2. CASE ~(m_poolSize >= Limit)
    <3> DEFINE x == At(t, "connect")
    <3>0. x.pc = "connect" /\ x.pc # "asleep" /\ Has(x) = 0
      BY <1>a
    <3>1. /\ Becomes(t, x) /\ m_poolSize < Limit /\ m_poolSize' = m_poolSize
          /\ queue_' = queue_ /\ notified' = notified /\ slips' = slips
          /\ closed_' = closed_ /\ mgr' = mgr /\ Len(queue_') <= Len(queue_)
      BY <2>2, <1>2, <1>c, LimitType DEF Check
    <3>2. Slots(t, x)
      BY <3>1, Zenon DEF Slots
    <3>3. Balanced(t, x)
      BY <3>0, <3>1, <1>h, Zenon DEF Balanced
    <3>4. Quiet(t, x)
      BY <3>0, <3>1, <1>h, Zenon DEF Quiet
    <3> QED
      BY <3>1, <3>2, <3>3, <3>4, Zenon DEF Effect
  <2> QED
    BY <2>1, <2>2, Zenon
<1>3. CASE Connect(t)
  <2>0. /\ queue_' = queue_ /\ notified' = notified /\ slips' = slips
        /\ closed_' = closed_ /\ mgr' = mgr /\ Len(queue_') <= Len(queue_)
        /\ s.pc \in MakingAt
    BY <1>3, <1>c DEF Connect, MakingAt
  <2>1. CASE \E ep \in Servers : /\ Becomes(t, With(s, ep))
                                 /\ m_poolSize' = m_poolSize + 1
    <3> PICK ep \in Servers : /\ Becomes(t, With(s, ep))
                              /\ m_poolSize' = m_poolSize + 1
      BY <2>1, Zenon
    <3> DEFINE x == With(s, ep)
    <3>1. x.pc \notin MakingAt /\ x.pc # "asleep" /\ Has(x) = 1
      BY <1>w, Zenon
    <3>2. Slots(t, x)
      BY <3>1, <2>0, Zenon DEF Slots
    <3>3. Balanced(t, x)
      BY <3>1, <2>0, <1>c, <1>h DEF Balanced
    <3>4. Quiet(t, x)
      BY <3>1, <2>0, <1>h, Zenon DEF Quiet
    <3> QED
      BY <3>2, <3>3, <3>4, <2>0, Zenon DEF Effect
  <2>2. CASE \E ep \in Servers :
               /\ Becomes(t, [s EXCEPT !.exclude = @ \cup {ep}])
               /\ UNCHANGED m_poolSize
    <3> PICK ep \in Servers : /\ Becomes(t, [s EXCEPT !.exclude = @ \cup {ep}])
                              /\ UNCHANGED m_poolSize
      BY <2>2, Zenon
    <3> DEFINE x == [s EXCEPT !.exclude = @ \cup {ep}]
    <3>0. x.pc = s.pc /\ x.conn = s.conn /\ x.pooled = s.pooled
      BY <1>c, Zenon DEF ThreadStates
    <3>1. Has(x) = Has(s) /\ x.pc # "asleep"
      BY <3>0, <1>h, Zenon DEF Has
    <3>2. Slots(t, x)
      BY <2>0, Zenon DEF Slots
    <3>3. Balanced(t, x)
      BY <3>1, <2>0, Zenon DEF Balanced
    <3>4. Quiet(t, x)
      BY <3>1, <2>0, <1>h, Zenon DEF Quiet
    <3> QED
      BY <3>2, <3>3, <3>4, <2>0, Zenon DEF Effect
  <2>3. CASE Becomes(t, [At(t, NoConnection(t)) EXCEPT !.err = TRUE])
             /\ UNCHANGED m_poolSize
    <3> DEFINE x == [At(t, NoConnection(t)) EXCEPT !.err = TRUE]
    <3>1. x.pc = NoConnection(t) /\ x.conn = s.conn /\ x.pooled = s.pooled
      BY <1>c, Zenon DEF At, ThreadStates
    <3>2. Has(x) = Has(s) /\ x.pc \notin MakingAt /\ x.pc # "asleep"
      BY <3>1, <1>e, Zenon DEF Has, MakingAt
    <3> QED
      BY <3>2, <2>0, <2>3, <1>h, PlainStep, Zenon
  <2> QED
    BY <1>3, <2>1, <2>2, <2>3, Zenon DEF Connect
<1>4. CASE NoConn(t)
  <2>1. At(t, "retry").pc \notin MakingAt /\ At(t, "retry").pc # "asleep"
    BY <1>a DEF MakingAt
  <2>2. CASE Becomes(t, At(t, "retry"))
    BY <2>1, <2>2, <1>4, <1>a, <1>h, PlainStep, Zenon DEF NoConn
  <2>3. CASE Becomes(t, Idle)
    BY <2>3, <1>4, <1>c, <1>h, PlainStep, Zenon DEF NoConn, MakingAt
  <2> QED
    BY <1>4, <2>2, <2>3, Zenon DEF NoConn
<1> QED
  BY <1>1, <1>2, <1>3, <1>4, Zenon

LEMMA SleepEffect ==
  ASSUME TypeOK, TypeOK', NEW t \in Threads, Wait(t) \/ Wake(t) \/ Timeout(t)
  PROVE  \E s : Effect(t, s)
<1> DEFINE s == thr[t]
<1>c. /\ s \in ThreadStates /\ m_poolSize \in Int /\ Len(queue_) \in Nat
      /\ Len(queue_') \in Nat /\ queue_ \in Seq(Servers)
  BY Counted, Zenon DEF TypeOK
<1>u. /\ closed_' = closed_ /\ mgr' = mgr /\ slips' = slips
      /\ m_poolSize' = m_poolSize /\ m_poolSize' <= m_poolSize
  BY <1>c DEF Wait, Wake, Timeout
<1>h. s.pc \notin Holding /\ s.pc \notin MakingAt /\ s.pooled /\ Has(s) = 0
  <2>1. s.pc \notin Holding /\ s.pc \notin MakingAt
    BY Zenon DEF Wait, Wake, Timeout, Holding, MakingAt
  <2> QED
    BY <2>1, Counted, Zenon
<1>a. \A pc : At(t, pc).pc = pc /\ Has(At(t, pc)) = 0
  BY <1>c, <1>h, Fields DEF At, Has
<1>1. CASE \E pc \in {"noConn", "asleep"} : Becomes(t, At(t, pc)) /\ queue_' = queue_
  <2> PICK pc \in {"noConn", "asleep"} : Becomes(t, At(t, pc)) /\ queue_' = queue_
    BY <1>1, Zenon
  <2>1. At(t, pc).pc \notin MakingAt /\ Has(At(t, pc)) = 0
    BY <1>a, Zenon DEF MakingAt
  <2>2. m_poolSize' - Len(queue_') - Has(At(t, pc))
          = m_poolSize - Len(queue_) - Has(s)
    BY <2>1, <1>u, <1>h, Zenon
  <2> QED
    BY <2>1, <2>2, <1>u, QueueStep, Zenon
<1>2. CASE /\ queue_ # <<>> /\ queue_' = Front(queue_)
           /\ Becomes(t, With(s, Last(queue_)))
  <2> DEFINE x == With(s, Last(queue_))
  <2>1. Last(queue_) \in Servers /\ Len(queue_') = Len(queue_) - 1
    BY <1>2, <1>c, FrontOK, Zenon
  <2>2. x.pc \notin MakingAt /\ Has(x) = 1
    BY <2>1, <1>c, <1>h, Fields, PoolAssumption DEF Has, MakingAt
  <2>3. m_poolSize' - Len(queue_') - Has(x) = m_poolSize - Len(queue_) - Has(s)
    <3> HIDE DEF x, s
    <3> QED
      BY <2>1, <2>2, <1>c, <1>h, <1>u
  <2> QED
    BY <2>2, <2>3, <1>2, <1>u, QueueStep, Zenon
<1>3. CASE thr' = thr /\ queue_' = queue_
  <2>1. Becomes(t, s)
    BY <1>3, Zenon DEF Becomes, TypeOK
  <2> QED
    BY <2>1, <1>3, <1>h, <1>u, QueueStep, Zenon
<1> QED
  BY <1>1, <1>2, <1>3, Zenon DEF Wait, Wake, Timeout, WakeUp

(* A step that puts the connection in hand back, or closes one that does   *)
(* not belong to the pool.                                                 *)
LEMMA PutStep ==
  ASSUME TypeOK, TypeOK', NEW t \in Threads, NEW s, Becomes(t, s),
         thr[t].pc = "send", s.pc \in {"idle", "getFromEP", "pop"}, s.conn = None,
         closed_' = closed_, mgr' = mgr, slips' = slips, m_poolSize' = m_poolSize,
         IF thr[t].pooled THEN put(thr[t].conn) ELSE UNCHANGED <<queue_, notified>>
  PROVE  Effect(t, s) /\ Quiet(t, s)
<1>c. /\ m_poolSize \in Int /\ Len(queue_) \in Nat /\ Len(queue_') \in Nat
      /\ thr[t].conn \in Servers
      /\ Has(thr[t]) = IF thr[t].pooled THEN 1 ELSE 0
  BY Counted, Zenon DEF Holding
<1>s. /\ Has(s) = 0 /\ s.pc \notin MakingAt /\ s.pc # "asleep"
      /\ thr[t].pc # "asleep" /\ m_poolSize' <= m_poolSize
  BY <1>c DEF Has, MakingAt
<1>1. CASE thr[t].pooled
  <2>1. put(thr[t].conn)
    BY <1>1, Zenon
  <2>2. ~closed_ => Len(queue_') = Len(queue_) + 1
    BY <2>1, <1>c, PutOK, Zenon
  <2>3. Balanced(t, s)
    BY <2>2, <1>1, <1>c, <1>s DEF Balanced
  <2>4. Slots(t, s) /\ Quiet(t, s)
    BY <2>1, <1>c, <1>s, Zenon DEF Slots, Quiet
  <2> QED
    BY <2>3, <2>4, Zenon DEF Effect
<1>2. CASE ~thr[t].pooled
  BY <1>2, <1>c, <1>s, PlainStep, Zenon
<1> QED
  BY <1>1, <1>2, Zenon

LEMMA SendEffect ==
  ASSUME TypeOK, TypeOK', NEW t \in Threads,
         \/ Answered(t) \/ Reauth(t) \/ Refused(t) \/ NoCredentials(t)
         \/ UnknownReply(t)
         \/ \E timeout \in BOOLEAN : Failed(t, timeout)
         \/ Purge(t) \/ Drop(t)
         \/ \E ends \in BOOLEAN : Retry(t, ends)
  PROVE  \E s : Effect(t, s) /\ Quiet(t, s)
<1> DEFINE s == thr[t]
<1>c. /\ s \in ThreadStates /\ m_poolSize \in Int /\ m_poolSize' \in Int
      /\ Len(queue_) \in Nat /\ Len(queue_') \in Nat /\ slips \in Nat
      /\ Has(Idle) = 0 /\ Idle.pc = "idle" /\ Idle.conn = None
      /\ queue_ \in Seq(Servers)
  BY Counted, IdleOK, Zenon DEF TypeOK
<1>h. s.pc \in Holding => /\ s.conn \in Servers
                          /\ Has(s) = IF s.pooled THEN 1 ELSE 0
  BY Counted, Zenon
<1>i. Idle.pc \notin MakingAt /\ Idle.pc # "asleep"
  BY <1>c, Zenon DEF MakingAt
<1>a. \A pc \in {"purge", "drop", "retry"} :
        /\ At(t, pc).pc \notin MakingAt /\ At(t, pc).pc # "asleep"
        /\ Has(At(t, pc)) = Has(s)
  BY <1>c, Fields DEF At, Has, MakingAt
<1>1. CASE Answered(t)
  BY <1>1, <1>c, PutStep, Zenon DEF Answered
<1>2. CASE Reauth(t)
  <2> DEFINE next == [s EXCEPT !.auth = @ + 1]
             again == [next EXCEPT !.pc = "getFromEP", !.conn = None,
                                   !.pooled = TRUE]
  <2>0. s.pc = "send" /\ s.auth < MaxReauth
    BY <1>2, Zenon DEF Reauth
  <2>1. s.auth + 1 \in 0..MaxReauth
    BY <2>0, <1>c, PoolAssumption DEF ThreadStates
  <2>2. next \in ThreadStates
    BY <2>1, <1>c, Zenon DEF ThreadStates
  <2>3. Attempt(next).pc \in {"getFromEP", "pop"} /\ Attempt(next).conn = None
    BY <2>2, Fields, Zenon
  <2>4. again.pc = "getFromEP" /\ again.conn = None
    BY <2>2, Zenon DEF ThreadStates
  <2>5. PICK x : /\ Becomes(t, x) /\ x.conn = None
                 /\ x.pc \in {"idle", "getFromEP", "pop"}
    BY <1>2, <2>3, <2>4, <1>c, Zenon DEF Reauth
  <2>6. /\ closed_' = closed_ /\ mgr' = mgr /\ slips' = slips
        /\ m_poolSize' = m_poolSize
        /\ IF s.pooled THEN put(s.conn) ELSE UNCHANGED <<queue_, notified>>
    BY <1>2, Zenon DEF Reauth
  <2> QED
    BY <2>0, <2>5, <2>6, PutStep, Zenon
<1>e. ASSUME NEW x, slips' = slips + 1, Becomes(t, x), put(s.conn),
             s.pc = "send", x.pc \notin MakingAt, x.pc # "asleep",
             UNCHANGED <<closed_, m_poolSize, mgr>>
      PROVE  Effect(t, x) /\ Quiet(t, x)
  <2>1. /\ slips' # 0 /\ closed_' = closed_ /\ mgr' = mgr /\ s.pc # "asleep"
        /\ m_poolSize' <= m_poolSize
    BY <1>e, <1>c
  <2>2. s.conn \in Servers
    BY <1>e, <1>h, Zenon DEF Holding
  <2>3. Slots(t, x) /\ Balanced(t, x) /\ Quiet(t, x)
    BY <2>1, <2>2, <1>e, Zenon DEF Slots, Balanced, Quiet
  <2> QED
    BY <2>1, <2>3, <1>e, Zenon DEF Effect
<1>3. CASE Refused(t) \/ NoCredentials(t)
  <2>1. s.pc = "send" /\ PutBack(t) /\ Becomes(t, Idle)
        /\ UNCHANGED <<closed_, m_poolSize, mgr, running>>
    BY <1>3, Zenon DEF Refused, NoCredentials
  <2>2. CASE s.pooled
    BY <2>1, <2>2, <1>c, PutStep, Zenon DEF PutBack
  <2>3. CASE ~s.pooled
    BY <2>1, <2>3, <1>e, <1>i, Zenon DEF PutBack
  <2> QED
    BY <2>2, <2>3, Zenon
<1>4. CASE UnknownReply(t)
  <2>1. PICK pc \in {"purge", "drop"} : Becomes(t, At(t, pc))
    BY <1>4, Zenon DEF UnknownReply
  <2> QED
    BY <2>1, <1>4, <1>a, <1>e, Zenon DEF UnknownReply
<1>5. CASE \E timeout \in BOOLEAN : Failed(t, timeout)
  <2>1. PICK pc \in {"purge", "drop"} : Becomes(t, At(t, pc))
    BY <1>5, Zenon DEF Failed
  <2> QED
    BY <2>1, <1>5, <1>a, PlainStep, Zenon DEF Failed
<1>6. CASE Purge(t)
  <2>k. PICK k \in 0..Len(queue_) : \E f \in [1..k -> DOMAIN queue_] :
             /\ queue_' = [n \in 1..k |-> queue_[f[n]]]
             /\ m_poolSize' = m_poolSize - (Len(queue_) - k)
    BY <1>6, Zenon DEF Purge
  <2>p. PICK f \in [1..k -> DOMAIN queue_] :
             /\ queue_' = [n \in 1..k |-> queue_[f[n]]]
             /\ m_poolSize' = m_poolSize - (Len(queue_) - k)
    BY <2>k, Zenon
  <2>1. Len(queue_') = k /\ k \in Nat /\ k <= Len(queue_)
    BY <2>p, <1>c, PlacesOK
  <2>2. m_poolSize' = m_poolSize - (Len(queue_) - k)
    BY <2>p, Zenon
  <2>3. /\ m_poolSize' <= m_poolSize /\ Len(queue_') <= Len(queue_)
        /\ m_poolSize' - Len(queue_') = m_poolSize - Len(queue_)
    BY <2>1, <2>2, <1>c
  <2>4. m_poolSize' - Len(queue_') - Has(At(t, "drop"))
          = m_poolSize - Len(queue_) - Has(s)
    BY <2>3, <1>a, Zenon
  <2> QED
    BY <2>3, <2>4, <1>6, <1>a, QueueStep, Zenon DEF Purge
<1>7. CASE Drop(t)
  <2> DEFINE x == [At(t, "retry") EXCEPT !.conn = None,
                                         !.exclude = @ \cup {s.conn}]
  <2>1. x.pc = "retry" /\ x.conn = None
    BY <1>c, Zenon DEF At, ThreadStates
  <2>2. x.pc \notin MakingAt /\ x.pc # "asleep" /\ Has(x) = 0
    BY <2>1, Zenon DEF Has, MakingAt
  <2>3. PICK y : /\ Becomes(t, y) /\ y.pc \notin MakingAt /\ y.pc # "asleep"
                 /\ Has(y) = 0
    BY <2>2, <1>7, <1>c, <1>i, Zenon DEF Drop
  <2>4. /\ s.pc = "drop" /\ s.pc \in Holding /\ queue_' = queue_
        /\ m_poolSize' = m_poolSize - Has(s)
    BY <1>7, <1>c, <1>h DEF Drop, Holding
  <2>5. /\ m_poolSize' <= m_poolSize /\ Len(queue_') <= Len(queue_)
        /\ m_poolSize' - Len(queue_') - Has(y)
             = m_poolSize - Len(queue_) - Has(s)
    <3>1. Has(s) \in {0, 1}
      BY <2>4, <1>h, Zenon
    <3> HIDE DEF s
    <3> QED
      BY <3>1, <2>3, <2>4, <1>c
  <2> QED
    BY <2>3, <2>4, <2>5, <1>7, QueueStep, Zenon DEF Drop
<1>8. CASE \E ends \in BOOLEAN : Retry(t, ends)
  <2> DEFINE same == Cardinality(s.exclude) = s.tried
             next == [s EXCEPT !.exclude = IF same THEN {} ELSE @]
  <2>0. s.pc = "retry" /\ Has(s) = 0
    BY <1>8, Counted, Zenon DEF Retry, Holding
  <2>1. next \in ThreadStates
    <3>1. (IF same THEN {} ELSE s.exclude) \in SUBSET Servers
      BY <1>c, Zenon DEF ThreadStates
    <3>2. ASSUME NEW x \in SUBSET Servers
          PROVE  [s EXCEPT !.exclude = x] \in ThreadStates
      BY <1>c, Zenon DEF ThreadStates
    <3> QED
      BY <3>1, <3>2, Zenon
  <2>2. Attempt(next).pc \in {"getFromEP", "pop"} /\ Attempt(next).conn = None
    BY <2>1, Fields, Zenon
  <2>3. /\ Attempt(next).pc \notin MakingAt /\ Attempt(next).pc # "asleep"
        /\ Has(Attempt(next)) = 0
    BY <2>2, Zenon DEF Has, MakingAt
  <2>4. Becomes(t, Attempt(next)) \/ Becomes(t, Idle)
    BY <1>8, Zenon DEF Retry
  <2> QED
    BY <2>0, <2>3, <2>4, <1>8, <1>c, <1>i, PlainStep DEF Retry
<1> QED
  BY <1>1, <1>2, <1>3, <1>4, <1>5, <1>6, <1>7, <1>8, Zenon

(* Every step of a thread, and which of them are quiet.                    *)
LEMMA ThreadEffect ==
  ASSUME TypeOK, TypeOK', NEW t \in Threads,
         \/ \E target \in Servers \cup {None} : Begin(t, target)
         \/ \E ep \in Servers : BeginToEP(t, ep)
         \/ Work(t) \/ Timeout(t)
  PROVE  \E s : /\ Effect(t, s)
                /\ (Quiet(t, s) \/ Wait(t) \/ Wake(t) \/ Timeout(t))
<1>1. CASE \/ \E target \in Servers \cup {None} : Begin(t, target)
           \/ \E ep \in Servers : BeginToEP(t, ep)
  BY <1>1, BeginEffect, Zenon
<1>2. CASE getFromEP(t) \/ CheckEP(t) \/ ConnectEP(t) \/ Temporary(t)
  BY <1>2, GetEffect, Zenon
<1>3. CASE Pop(t) \/ Check(t) \/ Connect(t) \/ NoConn(t)
  BY <1>3, PopEffect, Zenon
<1>4. CASE Wait(t) \/ Wake(t) \/ Timeout(t)
  BY <1>4, SleepEffect, Zenon
<1>5. CASE \/ Answered(t) \/ Reauth(t) \/ Refused(t) \/ NoCredentials(t)
           \/ UnknownReply(t)
           \/ \E timeout \in BOOLEAN : Failed(t, timeout)
           \/ Purge(t) \/ Drop(t)
           \/ \E ends \in BOOLEAN : Retry(t, ends)
  BY <1>5, SendEffect, Zenon
<1> QED
  BY <1>1, <1>2, <1>3, <1>4, <1>5, Zenon DEF Work

-----------------------------------------------------------------------------
(* What a step of the managing thread does to the counts.                  *)

(* It makes a connection as AheadManager requires.                         *)
ManagerSlots ==
  \/ m_poolSize' <= m_poolSize /\ ManagerMaking' <= ManagerMaking
  \/ m_poolSize' = m_poolSize + 1 /\ ManagerMaking = 1 /\ ManagerMaking' = 0
  \/ m_poolSize < Limit /\ m_poolSize' = m_poolSize

ManagerBalanced ==
  ~closed_ => m_poolSize' - Len(queue_') - Managed' = m_poolSize - Len(queue_) - Managed

ManagerQuiet ==
  \/ Len(queue_') <= Len(queue_) /\ UNCHANGED notified
  \/ \E c \in Servers : put(c)

ManagerEffect ==
  /\ UNCHANGED <<closed_, thr, slips>>
  /\ ManagerSlots /\ ManagerBalanced /\ ManagerQuiet

(* removelist is empty outside of cleanStaleConnections.                   *)
ListDone == mgr.pc \in {"idle", "restore", "restoreOne"} => mgr.list = <<>>

LEMMA ManagerCounted ==
  ASSUME TypeOK, TypeOK'
  PROVE  /\ m_poolSize \in Int /\ m_poolSize' \in Int
         /\ Len(queue_) \in Nat /\ Len(queue_') \in Nat
         /\ Len(mgr.list) \in Nat /\ Len(mgr'.list) \in Nat
         /\ ManagerMaking \in 0..1 /\ ManagerMaking' \in 0..1
         /\ mgr \in ManagerStates /\ ManagerOK(mgr)
<1>1. m_poolSize \in Int /\ m_poolSize' \in Int
  BY Zenon DEF TypeOK
<1>2. Len(queue_) \in Nat /\ Len(queue_') \in Nat
  BY DEF TypeOK
<1>3. mgr \in ManagerStates /\ mgr' \in ManagerStates /\ ManagerOK(mgr)
  BY Zenon DEF TypeOK, ManagerOK
<1>4. Len(mgr.list) \in Nat /\ Len(mgr'.list) \in Nat
  BY <1>3 DEF ManagerStates
<1>5. ManagerMaking \in 0..1 /\ ManagerMaking' \in 0..1
  BY DEF ManagerMaking
<1> QED
  BY <1>1, <1>2, <1>3, <1>4, <1>5

(* Managed, by what the managing thread has in hand.                       *)
ManagedBy(m) == Len(m.list) + (IF m.conn = None THEN 0 ELSE 1)
                            + (IF m.other = None THEN 0 ELSE 1)

LEMMA ManagedIs ==
  ASSUME NEW m, NEW n \in Nat, Len(m.list) = n
  PROVE  /\ m.conn = None /\ m.other = None => ManagedBy(m) = n
         /\ m.conn # None /\ m.other = None => ManagedBy(m) = n + 1
         /\ m.conn # None /\ m.other # None => ManagedBy(m) = n + 2
         /\ ManagedBy(m) \in Nat
<1> DEFINE a == IF m.conn = None THEN 0 ELSE 1
           b == IF m.other = None THEN 0 ELSE 1
<1>1. /\ m.conn = None => a = 0
      /\ m.conn # None => a = 1
      /\ m.other = None => b = 0
      /\ m.other # None => b = 1
      /\ a \in Nat /\ b \in Nat
  BY Zenon
<1>2. ManagedBy(m) = n + a + b
  BY Zenon DEF ManagedBy
<1> HIDE DEF a, b
<1> QED
  BY <1>1, <1>2

LEMMA ManagedNow ==
  Managed = ManagedBy(mgr) /\ Managed' = ManagedBy(mgr')
  BY Zenon DEF Managed, ManagedBy

(* A step that makes no connection.                                        *)
LEMMA ManagerPlain ==
  ASSUME TypeOK, TypeOK', UNCHANGED <<closed_, thr, slips>>,
         mgr'.pc # "replace", mgr'.pc # "restoreOne",
         m_poolSize' <= m_poolSize, ManagerBalanced, ManagerQuiet
  PROVE  ManagerEffect
<1>1. ManagerMaking' = 0
  BY Zenon DEF ManagerMaking
<1>2. ManagerMaking' <= ManagerMaking
  BY <1>1, ManagerCounted
<1>3. ManagerSlots
  BY <1>2, Zenon DEF ManagerSlots
<1> QED
  BY <1>3, Zenon DEF ManagerEffect

(* A step that puts a connection back, and no longer has it in hand.       *)
LEMMA ManagerPuts ==
  ASSUME TypeOK, TypeOK', UNCHANGED <<closed_, thr, slips, m_poolSize>>,
         NEW c \in Servers, put(c), Managed' = Managed - 1,
         mgr'.pc # "replace", mgr'.pc # "restoreOne"
  PROVE  ManagerEffect
<1>c. m_poolSize \in Int /\ Len(queue_) \in Nat /\ Len(queue_') \in Nat
      /\ Managed \in Int
  BY ManagerCounted, ManagedIs, ManagedNow
<1>1. ~closed_ => Len(queue_') = Len(queue_) + 1
  BY PutOK, Zenon
<1>2. ManagerBalanced
  BY <1>1, <1>c DEF ManagerBalanced
<1>3. ManagerQuiet
  BY Zenon DEF ManagerQuiet
<1>4. m_poolSize' <= m_poolSize
  BY <1>c
<1> QED
  BY <1>2, <1>3, <1>4, ManagerPlain, Zenon

LEMMA ScanEffect ==
  ASSUME TypeOK, TypeOK', ListDone,
         \/ Manage \/ Scan \/ Keep \/ Probe
         \/ \E expired \in BOOLEAN : Delete(expired)
  PROVE  ManagerEffect
<1>c. /\ m_poolSize \in Int /\ Len(queue_) \in Nat /\ Len(queue_') \in Nat
      /\ Len(mgr.list) \in Nat /\ mgr \in ManagerStates /\ ManagerOK(mgr)
      /\ queue_ \in Seq(Servers) /\ mgr.list \in Seq(Servers)
  BY ManagerCounted, Zenon DEF TypeOK, ManagerStates
<1>u. /\ UNCHANGED <<closed_, thr, slips>>
      /\ m_poolSize' = m_poolSize /\ m_poolSize' <= m_poolSize
  BY <1>c DEF Manage, Scan, Keep, Probe, Delete, others
<1>n. ASSUME Len(queue_') + Managed' = Len(queue_) + Managed,
             Managed \in Int, Managed' \in Int,
             Len(queue_') <= Len(queue_), notified' = notified,
             mgr'.pc # "replace", mgr'.pc # "restoreOne"
      PROVE  ManagerEffect
  <2>1. ManagerBalanced
    <3>1. ASSUME NEW m \in Int, NEW a \in Int, NEW b \in Int, NEW c \in Int,
                 NEW d \in Int, a + b = c + d
          PROVE  m - a - b = m - c - d
      BY <3>1
    <3>2. Len(queue_) \in Int /\ Len(queue_') \in Int
      BY <1>c
    <3>3. m_poolSize - Len(queue_') - Managed' = m_poolSize - Len(queue_) - Managed
      <4>1. PICK a \in Int : a = Len(queue_')
        BY <3>2, Zenon
      <4>2. PICK b \in Int : b = Managed'
        BY <1>n, Zenon
      <4>3. PICK d \in Int : d = Managed
        BY <1>n, Zenon
      <4>4. a + b = Len(queue_) + d
        BY <4>1, <4>2, <4>3, <1>n, Zenon
      <4>5. m_poolSize - a - b = m_poolSize - Len(queue_) - d
        BY <3>1, <3>2, <4>4, <1>c
      <4> QED
        BY <4>1, <4>2, <4>3, <4>5, Zenon
    <3> QED
      BY <3>3, <1>u, Zenon DEF ManagerBalanced
  <2>2. ManagerQuiet
    BY <1>n, Zenon DEF ManagerQuiet
  <2> QED
    BY <2>1, <2>2, <1>n, <1>u, ManagerPlain, Zenon
<1>1. CASE Manage
  <2>1. mgr' = [pc |-> "scan", left |-> Len(queue_),
                replaceCount |-> MinConnections, list |-> <<>>,
                conn |-> None, other |-> None, exclude |-> {}]
    BY <1>1, Zenon DEF Manage, IdleManager
  <2>2. mgr.conn = None /\ mgr.other = None /\ mgr.list = <<>>
    BY <1>1, <1>c, Zenon DEF Manage, ManagerOK, ManagerHolding, ListDone
  <2>3. Len(mgr.list) = 0 /\ Len(mgr'.list) = 0
    BY <2>1, <2>2, Zenon
  <2>4. /\ mgr'.pc = "scan" /\ mgr'.conn = None /\ mgr'.other = None
    BY <2>1, Zenon
  <2>5. Managed = 0 /\ Managed' = 0
    BY <2>2, <2>3, <2>4, ManagedIs, ManagedNow, Zenon
  <2> QED
    BY <2>4, <2>5, <1>1, <1>c, <1>n DEF Manage
<1>2. CASE Scan
  <2>0. mgr.conn = None /\ mgr.other = None /\ Managed = Len(mgr.list)
    <3>1. mgr.conn = None /\ mgr.other = None
      BY <1>2, <1>c, Zenon DEF Scan, ManagerOK, ManagerHolding
    <3> QED
      BY <3>1, <1>c, ManagedIs, ManagedNow, Zenon
  <2>1. CASE /\ mgr' = [mgr EXCEPT !.pc = "remove", !.left = 0]
             /\ UNCHANGED queue_
    <3>1. Managed' = Managed /\ mgr'.pc = "remove"
      BY <2>1, <1>c, Zenon DEF Managed, ManagerStates
    <3> QED
      BY <3>1, <2>0, <2>1, <1>2, <1>c, <1>n DEF Scan
  <2>2. CASE /\ queue_ # <<>> /\ queue_' = Front(queue_)
             /\ mgr' = [mgr EXCEPT !.pc = "judge", !.conn = Last(queue_),
                                   !.left = @ - 1]
    <3>1. Last(queue_) \in Servers /\ Len(queue_') = Len(queue_) - 1
      BY <2>2, <1>c, FrontOK, Zenon
    <3>2. /\ mgr'.pc = "judge" /\ mgr'.list = mgr.list /\ mgr'.other = None
          /\ mgr'.conn # None
      BY <3>1, <2>0, <2>2, <1>c, PoolAssumption, Zenon DEF ManagerStates
    <3>3. Managed' = Len(mgr.list) + 1
      BY <3>2, <1>c, ManagedIs, ManagedNow, Zenon
    <3> QED
      BY <3>1, <3>2, <3>3, <2>0, <1>2, <1>c, <1>n DEF Scan
  <2> QED
    BY <1>2, <2>1, <2>2, Zenon DEF Scan
<1>3. CASE Keep
  <2>0. mgr.conn \in Servers /\ mgr.other = None
    BY <1>3, <1>c, Zenon DEF Keep, ManagerOK, ManagerHolding, ManagerStates
  <2>1. /\ mgr'.pc = "scan" /\ mgr'.conn = None /\ mgr'.other = None
        /\ mgr'.list = mgr.list
    BY <2>0, <1>3, <1>c, Zenon DEF Keep, ManagerStates
  <2>2. Managed' = Managed - 1
    <3>1. Managed' = Len(mgr.list) /\ Managed = Len(mgr.list) + 1
      BY <2>0, <2>1, <1>c, PoolAssumption, ManagedIs, ManagedNow
    <3> QED
      BY <3>1, <1>c
  <2> QED
    BY <2>0, <2>1, <2>2, <1>3, <1>u, ManagerPuts, Zenon DEF Keep
<1>l. /\ mgr.conn \in Servers => Len(Listed.list) = Len(mgr.list) + 1
      /\ Listed.pc = "scan" /\ Listed.conn = None /\ Listed.other = mgr.other
      /\ Listed = [mgr EXCEPT !.pc = "scan", !.conn = None,
                              !.list = Listed.list]
  BY <1>c DEF Listed, ManagerStates
<1>4. CASE \E expired \in BOOLEAN : Delete(expired)
  <2>0. mgr.conn \in Servers /\ mgr.other = None
    BY <1>4, <1>c, Zenon DEF Delete, ManagerOK, ManagerHolding, ManagerStates
  <2>1. CASE /\ \E i \in DOMAIN queue_ : queue_' = RemoveAt(queue_, i)
             /\ mgr' = [mgr EXCEPT !.pc = "probe", !.other = mgr.conn]
    <3>1. Len(queue_') = Len(queue_) - 1
      BY <2>1, <1>c, RemoveAtOK, Zenon
    <3>2. /\ mgr'.pc = "probe" /\ mgr'.list = mgr.list
          /\ mgr'.conn # None /\ mgr'.other # None
      BY <2>0, <2>1, <1>c, PoolAssumption, Zenon DEF ManagerStates
    <3>3. Managed' = Len(mgr.list) + 2 /\ Managed = Len(mgr.list) + 1
      BY <3>2, <2>0, <1>c, PoolAssumption, ManagedIs, ManagedNow, Zenon
    <3> QED
      BY <3>1, <3>2, <3>3, <1>4, <1>c, <1>n DEF Delete
  <2>2. CASE mgr' = Listed /\ UNCHANGED queue_
    <3>0. /\ Len(mgr'.list) = Len(mgr.list) + 1 /\ mgr'.conn = None
          /\ mgr'.other = None /\ Len(mgr.list) + 1 \in Nat
      BY <2>0, <2>2, <1>l, <1>c
    <3>1. Managed' = Len(mgr.list) + 1 /\ Managed = Len(mgr.list) + 1
      BY <3>0, <2>0, <1>c, PoolAssumption, ManagedIs, ManagedNow, Zenon
    <3> QED
      BY <3>1, <2>2, <1>4, <1>l, <1>c, <1>n DEF Delete
  <2> QED
    BY <1>4, <2>1, <2>2, Zenon DEF Delete
<1>5. CASE Probe
  <2>0. mgr.conn \in Servers /\ mgr.other \in Servers
    BY <1>5, <1>c, Zenon DEF Probe, ManagerOK, ManagerHolding, ManagerStates
  <2>1. /\ mgr'.pc = "scan" /\ mgr'.conn = None /\ mgr'.other = None
        /\ mgr'.list = Listed.list
    BY <2>0, <1>5, <1>l, <1>c, Zenon DEF Probe, ManagerStates
  <2>2. Managed' = Len(mgr.list) + 1 /\ Managed = Len(mgr.list) + 2
    <3>1. Len(mgr'.list) = Len(mgr.list) + 1 /\ Len(mgr.list) + 1 \in Nat
      BY <2>0, <2>1, <1>l, <1>c
    <3> QED
      BY <3>1, <2>0, <2>1, <1>c, PoolAssumption, ManagedIs, ManagedNow, Zenon
  <2>3. Managed' = Managed - 1
    BY <2>2, <1>c
  <2> QED
    BY <2>0, <2>1, <2>3, <1>5, <1>u, ManagerPuts, Zenon DEF Probe
<1> QED
  BY <1>1, <1>2, <1>3, <1>4, <1>5, Zenon

(* A step that leaves the queue alone.                                     *)
LEMMA ManagerStill ==
  ASSUME TypeOK, TypeOK', UNCHANGED <<queue_, notified, closed_, thr, slips>>,
         ManagerSlots, m_poolSize' - Managed' = m_poolSize - Managed
  PROVE  ManagerEffect
<1>c. /\ m_poolSize \in Int /\ m_poolSize' \in Int /\ Len(queue_) \in Nat
      /\ queue_' = queue_ /\ Managed \in Int /\ Managed' \in Int
  BY ManagerCounted, ManagedIs, ManagedNow
<1>1. ManagerBalanced
  <2>1. ASSUME NEW a \in Int, NEW b \in Int, NEW c \in Int, NEW d \in Int,
               NEW n \in Nat, a - b = c - d
        PROVE  a - n - b = c - n - d
    BY <2>1
  <2>2. m_poolSize' - Len(queue_) - Managed' = m_poolSize - Len(queue_) - Managed
    <3>1. PICK a \in Int : a = m_poolSize'
      BY <1>c, Zenon
    <3>2. PICK b \in Int : b = Managed'
      BY <1>c, Zenon
    <3>3. PICK d \in Int : d = Managed
      BY <1>c, Zenon
    <3>4. a - b = m_poolSize - d
      BY <3>1, <3>2, <3>3, Zenon
    <3>5. a - Len(queue_) - b = m_poolSize - Len(queue_) - d
      BY <2>1, <3>4, <1>c
    <3> QED
      BY <3>1, <3>2, <3>3, <3>5, Zenon
  <2> QED
    BY <2>2, <1>c, Zenon DEF ManagerBalanced
<1>2. Len(queue_') <= Len(queue_)
  BY <1>c
<1>3. ManagerQuiet
  BY <1>2, Zenon DEF ManagerQuiet
<1> QED
  BY <1>1, <1>3, Zenon DEF ManagerEffect

LEMMA RemoveEffect ==
  ASSUME TypeOK, TypeOK', RemoveNext
  PROVE  ManagerEffect
<1>c. /\ m_poolSize \in Int /\ m_poolSize' \in Int /\ mgr \in ManagerStates
      /\ Len(mgr.list) \in Nat /\ mgr.list \in Seq(Servers)
  BY ManagerCounted, Zenon DEF ManagerStates
<1>0. /\ mgr.pc = "remove" /\ mgr.conn = None /\ mgr.other = None
      /\ UNCHANGED <<queue_, notified, closed_, thr, slips>>
  BY ManagerCounted, Zenon DEF RemoveNext, ManagerOK, ManagerHolding, others
<1>m. Managed = Len(mgr.list)
  BY <1>0, <1>c, ManagedIs, ManagedNow, Zenon
<1>s. ASSUME m_poolSize' <= m_poolSize, mgr'.pc \in {"restore", "remove", "noNew"}
      PROVE  ManagerSlots
  <2>1. ManagerMaking' = 0
    BY <1>s, Zenon DEF ManagerMaking
  <2>2. ManagerMaking' <= ManagerMaking
    BY <2>1, ManagerCounted
  <2> QED
    BY <2>2, <1>s, Zenon DEF ManagerSlots
<1>1. CASE mgr.list = <<>>
  <2>1. /\ mgr' = [IdleManager EXCEPT !.pc = "restore",
                                      !.left = 2 * MinConnections]
        /\ m_poolSize' = m_poolSize
    BY <1>1, Zenon DEF RemoveNext
  <2>2. /\ mgr'.pc = "restore" /\ mgr'.conn = None /\ mgr'.other = None
        /\ mgr'.list = <<>>
    BY <2>1, Zenon DEF IdleManager
  <2>3. Len(mgr.list) = 0 /\ Len(mgr'.list) = 0
    BY <2>2, <1>1, Zenon
  <2>4. Managed' = 0 /\ Managed = 0
    BY <2>2, <2>3, <1>m, ManagedIs, ManagedNow, Zenon
  <2>5. m_poolSize' <= m_poolSize /\ m_poolSize' - Managed' = m_poolSize - Managed
    BY <2>1, <2>4, <1>c
  <2> QED
    BY <2>2, <2>5, <1>0, <1>s, ManagerStill, Zenon
<1>2. CASE mgr.list # <<>>
  <2> DEFINE next == [mgr EXCEPT !.list = Tail(@), !.replaceCount = OneLess,
                                 !.conn = Head(mgr.list)]
  <2>0. /\ Head(mgr.list) \in Servers /\ Len(Tail(mgr.list)) = Len(mgr.list) - 1
        /\ Len(mgr.list) - 1 \in Nat
    BY <1>2, <1>c
  <2>1. CASE /\ mgr' = [next EXCEPT !.conn = None]
             /\ m_poolSize' = m_poolSize - 1
    <3>1. /\ mgr'.pc = "remove" /\ mgr'.conn = None /\ mgr'.other = None
          /\ mgr'.list = Tail(mgr.list)
      BY <2>1, <1>0, <1>c, Zenon DEF ManagerStates
    <3>2. Managed' = Len(mgr.list) - 1
      BY <3>1, <2>0, ManagedIs, ManagedNow, Zenon
    <3>3. m_poolSize' <= m_poolSize /\ m_poolSize' - Managed' = m_poolSize - Managed
      BY <3>2, <2>1, <1>c, <1>m
    <3> QED
      BY <3>1, <3>3, <1>0, <1>s, ManagerStill
  <2>2. CASE /\ \/ m_poolSize >= Limit /\ mgr' = [next EXCEPT !.pc = "noNew"]
                \/ m_poolSize < Limit /\ mgr' = [next EXCEPT !.pc = "replace"]
             /\ m_poolSize' = m_poolSize
    <3>1. /\ mgr'.conn # None /\ mgr'.other = None
          /\ mgr'.list = Tail(mgr.list)
          /\ mgr'.pc = "noNew" \/ m_poolSize < Limit
      BY <2>0, <2>2, <1>0, <1>c, PoolAssumption, Zenon DEF ManagerStates
    <3>2. Managed' = (Len(mgr.list) - 1) + 1
      BY <3>1, <2>0, ManagedIs, ManagedNow, Zenon
    <3>3. m_poolSize' <= m_poolSize /\ m_poolSize' - Managed' = m_poolSize - Managed
      BY <3>2, <2>2, <1>c, <1>m
    <3>4. ManagerSlots
      <4>1. CASE mgr'.pc = "noNew"
        BY <4>1, <3>3, <1>s, Zenon
      <4>2. CASE m_poolSize < Limit
        BY <4>2, <2>2, Zenon DEF ManagerSlots
      <4> QED
        BY <4>1, <4>2, <3>1, Zenon
    <3> QED
      BY <3>3, <3>4, <1>0, ManagerStill, Zenon
  <2>3. m_poolSize >= Limit \/ m_poolSize < Limit
    BY <1>c, LimitType
  <2> QED
    BY <2>1, <2>2, <2>3, <1>2, Zenon DEF RemoveNext
<1> QED
  BY <1>1, <1>2, Zenon

LEMMA ReplaceEffect ==
  ASSUME TypeOK, TypeOK', Replace \/ PutNew \/ DropOld \/ KeepOld
  PROVE  ManagerEffect
<1>c. /\ m_poolSize \in Int /\ m_poolSize' \in Int /\ mgr \in ManagerStates
      /\ Len(mgr.list) \in Nat
  BY ManagerCounted, Zenon
<1>0. mgr.conn \in Servers /\ mgr.conn # None
  BY ManagerCounted, PoolAssumption, Zenon
     DEF Replace, PutNew, DropOld, KeepOld, ManagerOK, ManagerHolding, ManagerStates
<1>1. CASE Replace
  <2>0. mgr.pc = "replace" /\ mgr.other = None /\ ManagerMaking = 1
        /\ UNCHANGED <<closed_, thr, slips>>
    BY <1>1, ManagerCounted, Zenon DEF Replace, ManagerOK, ManagerMaking, others
  <2>m. Managed = Len(mgr.list) + 1
    BY <2>0, <1>0, <1>c, ManagedIs, ManagedNow, Zenon
  <2>1. CASE /\ put(mgr.conn)
             /\ mgr' = [mgr EXCEPT !.pc = "remove", !.conn = None]
             /\ UNCHANGED m_poolSize
    <3>1. /\ mgr'.pc = "remove" /\ mgr'.conn = None /\ mgr'.other = None
          /\ mgr'.list = mgr.list
      BY <2>0, <2>1, <1>c, Zenon DEF ManagerStates
    <3>2. Managed' = Len(mgr.list)
      BY <3>1, <1>c, ManagedIs, ManagedNow, Zenon
    <3>3. Managed' = Managed - 1
      BY <3>2, <2>m, <1>c
    <3> QED
      BY <3>1, <3>3, <2>0, <2>1, <1>0, ManagerPuts, Zenon
  <2>2. CASE /\ \E ep \in Servers : mgr' = [mgr EXCEPT !.pc = "putNew", !.other = ep]
             /\ m_poolSize' = m_poolSize + 1
             /\ UNCHANGED <<queue_, notified>>
    <3>1. /\ mgr'.pc = "putNew" /\ mgr'.conn # None /\ mgr'.other # None
          /\ mgr'.list = mgr.list
      BY <2>0, <2>2, <1>0, <1>c, PoolAssumption DEF ManagerStates
    <3>2. Managed' = Len(mgr.list) + 2
      BY <3>1, <1>c, ManagedIs, ManagedNow, Zenon
    <3>3. m_poolSize' - Managed' = m_poolSize - Managed
      BY <3>2, <2>2, <2>m, <1>c
    <3>4. ManagerMaking' = 0
      BY <3>1, Zenon DEF ManagerMaking
    <3>5. ManagerSlots
      BY <3>4, <2>0, <2>2, Zenon DEF ManagerSlots
    <3> QED
      BY <3>3, <3>5, <2>0, <2>2, ManagerStill
  <2>3. CASE /\ \E ep \in Servers : mgr' = [mgr EXCEPT !.exclude = @ \cup {ep}]
             /\ UNCHANGED <<queue_, notified, m_poolSize>>
    <3>1. /\ mgr'.pc = mgr.pc /\ mgr'.conn = mgr.conn /\ mgr'.other = mgr.other
          /\ mgr'.list = mgr.list
      BY <2>3, <1>c, Zenon DEF ManagerStates
    <3>2. Managed' = Managed /\ ManagerMaking' = ManagerMaking
      BY <3>1, Zenon DEF Managed, ManagerMaking
    <3>3. /\ m_poolSize' - Managed' = m_poolSize - Managed
          /\ m_poolSize' <= m_poolSize /\ ManagerMaking' <= ManagerMaking
      BY <3>2, <2>3, <2>0, <1>c
    <3>4. ManagerSlots
      BY <3>3, Zenon DEF ManagerSlots
    <3> QED
      BY <3>3, <3>4, <2>0, <2>3, ManagerStill, Zenon
  <2>4. CASE /\ mgr' = [mgr EXCEPT !.pc = "noNew"]
             /\ UNCHANGED <<queue_, notified, m_poolSize>>
    <3>1. /\ mgr'.pc = "noNew" /\ mgr'.conn = mgr.conn /\ mgr'.other = mgr.other
          /\ mgr'.list = mgr.list
      BY <2>4, <1>c, Zenon DEF ManagerStates
    <3>2. Managed' = Managed /\ ManagerMaking' = 0
      BY <3>1, Zenon DEF Managed, ManagerMaking
    <3>3. /\ m_poolSize' - Managed' = m_poolSize - Managed
          /\ m_poolSize' <= m_poolSize /\ ManagerMaking' <= ManagerMaking
      BY <3>2, <2>4, <2>0, <1>c
    <3>4. ManagerSlots
      BY <3>3, Zenon DEF ManagerSlots
    <3> QED
      BY <3>3, <3>4, <2>0, <2>4, ManagerStill, Zenon
  <2> QED
    BY <1>1, <2>1, <2>2, <2>3, <2>4, Zenon DEF Replace
<1>2. CASE PutNew
  <2>0. mgr.other \in Servers /\ mgr.other # None
    BY <1>2, ManagerCounted, PoolAssumption, Zenon DEF PutNew, ManagerOK, ManagerStates
  <2>1. /\ mgr'.pc = "dropOld" /\ mgr'.conn # None /\ mgr'.other = None
        /\ mgr'.list = mgr.list
    BY <1>0, <1>2, <1>c, Zenon DEF PutNew, ManagerStates
  <2>2. Managed = Len(mgr.list) + 2 /\ Managed' = Len(mgr.list) + 1
    BY <2>0, <2>1, <1>0, <1>c, ManagedIs, ManagedNow, Zenon
  <2>3. Managed' = Managed - 1
    BY <2>2, <1>c
  <2> QED
    BY <2>0, <2>1, <2>3, <1>2, ManagerPuts, Zenon DEF PutNew, others
<1>3. CASE DropOld \/ KeepOld
  <2>0. /\ mgr'.pc = "remove" /\ mgr'.conn = None /\ mgr'.other = None
        /\ mgr'.list = mgr.list /\ mgr.other = None
    BY <1>3, ManagerCounted, Zenon DEF DropOld, KeepOld, ManagerOK, ManagerStates
  <2>1. Managed = Len(mgr.list) + 1 /\ Managed' = Len(mgr.list)
    BY <2>0, <1>0, <1>c, ManagedIs, ManagedNow, Zenon
  <2>2. Managed' = Managed - 1 /\ Managed \in Int
    BY <2>1, <1>c
  <2>3. CASE KeepOld
    BY <2>0, <2>2, <2>3, <1>0, ManagerPuts DEF KeepOld, others
  <2>4. CASE DropOld
    <3>1. m_poolSize' = m_poolSize - 1
          /\ UNCHANGED <<queue_, notified, closed_, thr, slips>>
      BY <2>4, Zenon DEF DropOld, others
    <3>2. m_poolSize' <= m_poolSize /\ m_poolSize' - Managed' = m_poolSize - Managed
      BY <3>1, <2>2, <1>c
    <3>3. ManagerMaking' = 0 /\ ManagerMaking' <= ManagerMaking
      <4>1. ManagerMaking' = 0
        BY <2>0, Zenon DEF ManagerMaking
      <4> QED
        BY <4>1, ManagerCounted
    <3>4. ManagerSlots
      BY <3>2, <3>3, Zenon DEF ManagerSlots
    <3> QED
      BY <3>1, <3>2, <3>4, ManagerStill
  <2> QED
    BY <1>3, <2>3, <2>4, Zenon
<1> QED
  BY <1>1, <1>2, <1>3, Zenon

LEMMA RestoreEffect ==
  ASSUME TypeOK, TypeOK', ListDone, RestoreNext \/ Restore
  PROVE  ManagerEffect
<1>c. /\ m_poolSize \in Int /\ m_poolSize' \in Int /\ mgr \in ManagerStates
      /\ ManagerOK(mgr) /\ Len(mgr.list) \in Nat
  BY ManagerCounted, Zenon
<1>0. /\ mgr.other = None /\ mgr.list = <<>>
      /\ UNCHANGED <<closed_, thr, slips>>
  BY <1>c, Zenon DEF RestoreNext, Restore, ManagerOK, ListDone, others
<1>l. Len(mgr.list) = 0
  BY <1>0
<1>m. /\ mgr.conn = None => Managed = 0
      /\ mgr.conn # None => Managed = 1
  <2>1. 0 \in Nat /\ 0 + 1 = 1
    OBVIOUS
  <2> QED
    BY <2>1, <1>0, <1>l, ManagedIs, ManagedNow, Zenon
<1>1. CASE RestoreNext
  <2>0. mgr.conn = None /\ Managed = 0
        /\ UNCHANGED <<queue_, notified, m_poolSize>>
    BY <1>1, <1>c, <1>m, Zenon DEF RestoreNext, ManagerOK, ManagerHolding
  <2>1. CASE mgr' = IdleManager
    <3>1. /\ mgr'.pc = "idle" /\ mgr'.conn = None /\ mgr'.other = None
          /\ mgr'.list = <<>>
      BY <2>1, Zenon DEF IdleManager
    <3>2. Len(mgr'.list) = 0
      BY <3>1
    <3>3. Managed' = 0
      BY <3>1, <3>2, ManagedIs, ManagedNow
    <3>4. ManagerMaking' = 0
      BY <3>1, Zenon DEF ManagerMaking
    <3>5. /\ m_poolSize' <= m_poolSize /\ ManagerMaking' <= ManagerMaking
          /\ m_poolSize' - Managed' = m_poolSize - Managed
      BY <3>3, <3>4, <2>0, <1>c, ManagerCounted
    <3>6. ManagerSlots
      BY <3>5, Zenon DEF ManagerSlots
    <3> QED
      BY <3>5, <3>6, <2>0, <1>0, ManagerStill
  <2>2. CASE /\ m_poolSize < MinConnections
             /\ mgr' = [mgr EXCEPT !.pc = "restoreOne", !.left = @ - 1]
    <3>1. /\ mgr'.conn = mgr.conn /\ mgr'.other = mgr.other
          /\ mgr'.list = mgr.list
      BY <2>2, <1>c, Zenon DEF ManagerStates
    <3>2. Managed' = Managed
      BY <3>1, Zenon DEF Managed
    <3>3. /\ m_poolSize < Limit /\ m_poolSize' = m_poolSize
          /\ m_poolSize' - Managed' = m_poolSize - Managed
      BY <3>2, <2>0, <2>2, <1>c, LimitType, PoolAssumption
    <3>4. ManagerSlots
      BY <3>3, Zenon DEF ManagerSlots
    <3> QED
      BY <3>3, <3>4, <2>0, <1>0, ManagerStill
  <2> QED
    BY <1>1, <2>1, <2>2, Zenon DEF RestoreNext
<1>2. CASE Restore
  <2>1. CASE /\ mgr.conn # None /\ put(mgr.conn)
             /\ mgr' = [mgr EXCEPT !.pc = "restore", !.conn = None]
             /\ UNCHANGED m_poolSize
    <3>1. /\ mgr'.pc = "restore" /\ mgr'.conn = None /\ mgr'.other = None
          /\ mgr'.list = mgr.list /\ mgr.conn \in Servers
      BY <2>1, <1>0, <1>c, Zenon DEF ManagerStates
    <3>2. Len(mgr'.list) = 0
      BY <3>1, <1>l, Zenon
    <3>3. Managed' = 0
      BY <3>1, <3>2, ManagedIs, ManagedNow
    <3>4. Managed' = Managed - 1
      BY <3>3, <2>1, <1>m
    <3> QED
      BY <3>1, <3>4, <2>1, <1>0, ManagerPuts, Zenon
  <2>2. CASE /\ mgr.conn = None
             /\ \E ep \in Servers : mgr' = [mgr EXCEPT !.conn = ep]
             /\ m_poolSize' = m_poolSize + 1
             /\ UNCHANGED <<queue_, notified>>
    <3>1. /\ mgr'.pc = "restoreOne" /\ mgr'.conn # None /\ mgr'.other = None
          /\ mgr'.list = mgr.list /\ mgr.pc = "restoreOne"
      BY <2>2, <1>0, <1>2, <1>c, PoolAssumption DEF ManagerStates, Restore
    <3>2. Len(mgr'.list) = 0
      BY <3>1, <1>l, Zenon
    <3>3. Managed' = 0 + 1
      BY <3>1, <3>2, ManagedIs, ManagedNow
    <3>4. ManagerMaking = 1 /\ ManagerMaking' = 0
      BY <3>1, <2>2, Zenon DEF ManagerMaking
    <3>5. m_poolSize' - Managed' = m_poolSize - Managed
      BY <3>3, <2>2, <1>c, <1>m
    <3>6. ManagerSlots
      BY <3>4, <2>2, Zenon DEF ManagerSlots
    <3> QED
      BY <3>5, <3>6, <2>2, <1>0, ManagerStill
  <2>3. CASE /\ mgr.conn = None
             /\ \/ \E ep \in Servers : mgr' = [mgr EXCEPT !.exclude = @ \cup {ep}]
                \/ mgr' = [mgr EXCEPT !.pc = "restore"]
             /\ UNCHANGED <<queue_, notified, m_poolSize>>
    <3>1. /\ mgr'.conn = mgr.conn /\ mgr'.other = mgr.other
          /\ mgr'.list = mgr.list /\ mgr.pc = "restoreOne"
      BY <2>3, <1>2, <1>c, Zenon DEF ManagerStates, Restore
    <3>2. Managed' = Managed
      BY <3>1, Zenon DEF Managed
    <3>3. ManagerMaking = 1
      BY <3>1, <2>3, Zenon DEF ManagerMaking
    <3>4. /\ m_poolSize' <= m_poolSize /\ ManagerMaking' <= ManagerMaking
          /\ m_poolSize' - Managed' = m_poolSize - Managed
      BY <3>2, <3>3, <2>3, <1>c, ManagerCounted
    <3>5. ManagerSlots
      BY <3>4, Zenon DEF ManagerSlots
    <3> QED
      BY <3>4, <3>5, <2>3, <1>0, ManagerStill, Zenon
  <2> QED
    BY <1>2, <2>1, <2>2, <2>3, Zenon DEF Restore
<1> QED
  BY <1>1, <1>2, Zenon

LEMMA ManagerStepEffect ==
  ASSUME TypeOK, TypeOK', ListDone, Manage \/ ManagerStep
  PROVE  ManagerEffect
  BY ScanEffect, RemoveEffect, ReplaceEffect, RestoreEffect, Zenon DEF ManagerStep

LEMMA ListDoneStep ==
  ASSUME TypeOK, ListDone, Manage \/ ManagerStep
  PROVE  ListDone'
<1>c. mgr \in ManagerStates
  BY Zenon DEF TypeOK
<1>1. CASE Manage \/ Scan \/ Keep \/ Probe \/ \E expired \in BOOLEAN : Delete(expired)
  <2>1. mgr'.pc \in {"scan", "remove", "judge", "probe"}
    BY <1>1, <1>c, Zenon
       DEF Manage, Scan, Keep, Probe, Delete, Listed, IdleManager, ManagerStates
  <2> QED
    BY <2>1, Zenon DEF ListDone
<1>2. CASE RemoveNext
  <2> DEFINE next == [mgr EXCEPT !.list = Tail(@), !.replaceCount = OneLess,
                                 !.conn = Head(mgr.list)]
  <2>0. /\ IdleManager.list = <<>> /\ mgr.pc = "remove"
        /\ [IdleManager EXCEPT !.pc = "restore",
                               !.left = 2 * MinConnections].list = <<>>
        /\ [next EXCEPT !.conn = None].pc = mgr.pc
        /\ \A pc : [next EXCEPT !.pc = pc].pc = pc
    BY <1>2, <1>c, Zenon DEF RemoveNext, IdleManager, ManagerStates
  <2>1. mgr'.pc \in {"remove", "noNew", "replace"} \/ mgr'.list = <<>>
    <3>1. \/ mgr' = [IdleManager EXCEPT !.pc = "restore",
                                        !.left = 2 * MinConnections]
          \/ mgr' = [next EXCEPT !.conn = None]
          \/ mgr' = [next EXCEPT !.pc = IF m_poolSize >= Limit THEN "noNew"
                                        ELSE "replace"]
      BY <1>2, Zenon DEF RemoveNext
    <3> HIDE DEF next
    <3> QED
      BY <3>1, <2>0, Zenon
  <2> QED
    BY <2>1, Zenon DEF ListDone
<1>3. CASE Replace \/ PutNew \/ DropOld \/ KeepOld
  <2>1. mgr'.pc \in {"remove", "replace", "putNew", "noNew", "dropOld"}
    <3>1. CASE Replace
      BY <3>1, <1>c, Zenon DEF Replace, ManagerStates
    <3>2. CASE PutNew \/ DropOld \/ KeepOld
      BY <3>2, <1>c, Zenon DEF PutNew, DropOld, KeepOld, ManagerStates
    <3> QED
      BY <1>3, <3>1, <3>2, Zenon
  <2> QED
    BY <2>1, Zenon DEF ListDone
<1>4. CASE RestoreNext \/ Restore
  <2>1. mgr'.list = <<>>
    <3>0. mgr.list = <<>>
      BY <1>4, Zenon DEF RestoreNext, Restore, ListDone
    <3>1. CASE RestoreNext
      BY <3>0, <3>1, <1>c, Zenon DEF RestoreNext, IdleManager, ManagerStates
    <3>2. CASE Restore
      <4>1. \/ mgr' = [mgr EXCEPT !.pc = "restore", !.conn = None]
            \/ \E ep \in Servers : \/ mgr' = [mgr EXCEPT !.conn = ep]
                                   \/ mgr' = [mgr EXCEPT !.exclude = @ \cup {ep}]
            \/ mgr' = [mgr EXCEPT !.pc = "restore"]
        BY <3>2, Zenon DEF Restore
      <4> QED
        BY <4>1, <3>0, <1>c, Zenon DEF ManagerStates
    <3> QED
      BY <1>4, <3>1, <3>2, Zenon
  <2> QED
    BY <2>1, Zenon DEF ListDone
<1> QED
  BY <1>1, <1>2, <1>3, <1>4, Zenon DEF ManagerStep

-----------------------------------------------------------------------------
(* The limit.                                                              *)

LEMMA AheadStep ==
  ASSUME TypeOK, TypeOK', ListDone, Ahead, [Next]_vars
  PROVE  Ahead'
<1>c. m_poolSize \in Int /\ m_poolSize' \in Int
  BY Zenon DEF TypeOK
<1>1. ASSUME NEW t \in Threads,
             \/ \E target \in Servers \cup {None} : Begin(t, target)
             \/ \E ep \in Servers : BeginToEP(t, ep)
             \/ Work(t) \/ Timeout(t)
      PROVE  Ahead'
  <2>1. PICK s : Effect(t, s)
    BY <1>1, ThreadEffect, Zenon
  <2> QED
    BY <2>1, <1>c, AheadThread, Zenon DEF Effect, Slots
<1>2. CASE Manage \/ ManagerStep
  <2>1. ManagerEffect
    BY <1>2, ManagerStepEffect, Zenon
  <2> QED
    BY <2>1, <1>c, AheadManager, Zenon DEF ManagerEffect, ManagerSlots
<1>3. CASE Stop \/ close \/ UNCHANGED vars
  <2>1. /\ thr' = thr /\ mgr' = mgr /\ m_poolSize' <= m_poolSize
    BY <1>3, <1>c DEF Stop, close, vars, TypeOK
  <2>2. ManagerMaking' = ManagerMaking
    BY <2>1, Zenon DEF ManagerMaking
  <2>3. ManagerMaking' <= ManagerMaking
    BY <2>2 DEF ManagerMaking
  <2> QED
    BY <2>1, <2>3, <1>c, AheadManager, Zenon
<1> QED
  BY <1>1, <1>2, <1>3, Zenon DEF Next

LEMMA ListDoneNext ==
  ASSUME TypeOK, ListDone, [Next]_vars
  PROVE  ListDone'
<1>1. CASE Manage \/ ManagerStep
  BY <1>1, ListDoneStep, Zenon
<1>2. ASSUME NEW t \in Threads,
             \/ \E target \in Servers \cup {None} : Begin(t, target)
             \/ \E ep \in Servers : BeginToEP(t, ep)
             \/ Work(t) \/ Timeout(t)
      PROVE  mgr' = mgr
  BY <1>2, Zenon
     DEF Begin, BeginToEP, Work, Timeout, getFromEP, CheckEP, ConnectEP,
         Temporary, Pop, Check, Connect, Wait, Wake, NoConn, Answered, Reauth,
         Refused, NoCredentials, UnknownReply, Failed, Purge, Drop, Retry
<1>3. CASE Stop \/ close \/ UNCHANGED vars
  BY <1>3, Zenon DEF Stop, close, vars, ListDone
<1> QED
  BY <1>1, <1>2, <1>3, Zenon DEF Next, ListDone

(* Threads of a pool that pass the check of createPoolConnection together  *)
(* take m_poolSize past the limit by no more than their number, the        *)
(* managing thread included: a connection is made only after a check that  *)
(* found the pool below the limit.                                         *)
THEOREM OvershootIsBounded == Spec => []OvershootBounded
<1>1. Init => ListDone /\ Ahead
  <2> SUFFICES ASSUME Init PROVE ListDone /\ Ahead
    BY Zenon
  <2>1. ListDone
    BY Zenon DEF Init, ListDone, IdleManager
  <2>2. ManagerMaking = 0
    BY Zenon DEF Init, IdleManager, ManagerMaking
  <2>3. Making = {}
    BY IdleOK, Zenon DEF Init, Making, MakingAt
  <2>4. Cardinality(Making) = 0
    BY <2>3, FS_EmptySet, Zenon
  <2>5. m_poolSize = 0 /\ Limit \in Nat /\ Cardinality(Threads) \in Nat
    BY LimitType, MakingType, Zenon DEF Init
  <2>6. Ahead
    BY <2>2, <2>4, <2>5 DEF Ahead
  <2> QED
    BY <2>1, <2>6, Zenon
<1>2. TypeOK /\ TypeOK' /\ (ListDone /\ Ahead) /\ [Next]_vars
        => (ListDone /\ Ahead)'
  BY AheadStep, ListDoneNext, Zenon
<1>3. TypeOK /\ ListDone /\ Ahead => OvershootBounded
  <2> SUFFICES ASSUME TypeOK, Ahead PROVE OvershootBounded
    BY Zenon
  <2>1. m_poolSize \in Int /\ ManagerMaking \in 0..1 /\ Limit \in Nat
    BY LimitType DEF TypeOK, ManagerMaking
  <2> QED
    BY <2>1, MakingType DEF Ahead, OvershootBounded
<1> QED
  BY <1>1, <1>2, <1>3, TypeCorrect, PTL DEF Spec

-----------------------------------------------------------------------------
(* The count.                                                              *)

Holders == {t \in Threads : thr[t].conn # None /\ thr[t].pooled}

LEMMA HoldersStep ==
  ASSUME TypeOK, NEW t \in Threads, NEW s, Becomes(t, s)
  PROVE  InHand' = InHand - Has(thr[t]) + Has(s) /\ InHand \in Nat
<1>1. thr'[t] = s /\ \A u \in Threads \ {t} : thr'[u] = thr[u]
  BY ThreadStep, Zenon
<1>f. IsFiniteSet(Holders) /\ IsFiniteSet(Holders')
  BY PoolAssumption, FS_Subset, Zenon DEF Holders
<1>n. /\ InHand = Cardinality(Holders) /\ InHand' = Cardinality(Holders')
      /\ Cardinality(Holders) \in Nat
  BY <1>f, FS_CardinalityType, Zenon DEF InHand, Holders
<1>2. CASE t \in Holders
  <2>1. Has(thr[t]) = 1
    BY <1>2, Zenon DEF Holders, Has
  <2>2. Cardinality(Holders \ {t}) = Cardinality(Holders) - 1
    BY <1>2, <1>f, FS_RemoveElement, Zenon
  <2>3. CASE s.conn # None /\ s.pooled
    <3>1. Holders' = Holders /\ Has(s) = 1
      BY <1>1, <1>2, <2>3, Zenon DEF Holders, Has
    <3> QED
      BY <3>1, <2>1, <1>n
  <2>4. CASE ~(s.conn # None /\ s.pooled)
    <3>1. Holders' = Holders \ {t} /\ Has(s) = 0
      BY <1>1, <1>2, <2>4 DEF Holders, Has
    <3> QED
      BY <3>1, <2>1, <2>2, <1>n
  <2> QED
    BY <2>3, <2>4, Zenon
<1>3. CASE t \notin Holders
  <2>1. Has(thr[t]) = 0
    BY <1>3, Zenon DEF Holders, Has
  <2>2. Cardinality(Holders \cup {t}) = Cardinality(Holders) + 1
    BY <1>3, <1>f, FS_AddElement, Zenon
  <2>3. CASE s.conn # None /\ s.pooled
    <3>1. Holders' = Holders \cup {t} /\ Has(s) = 1
      BY <1>1, <1>3, <2>3, Zenon DEF Holders, Has
    <3> QED
      BY <3>1, <2>1, <2>2, <1>n
  <2>4. CASE ~(s.conn # None /\ s.pooled)
    <3>1. Holders' = Holders /\ Has(s) = 0
      BY <1>1, <1>3, <2>4 DEF Holders, Has
    <3> QED
      BY <3>1, <2>1, <1>n
  <2> QED
    BY <2>3, <2>4, Zenon
<1> QED
  BY <1>2, <1>3, Zenon

LEMMA ExactStep ==
  ASSUME TypeOK, TypeOK', ListDone, PoolSizeExact, [Next]_vars
  PROVE  PoolSizeExact'
<1>c. /\ m_poolSize \in Int /\ m_poolSize' \in Int
      /\ Len(queue_) \in Nat /\ Len(queue_') \in Nat
      /\ Managed \in Nat /\ Managed' \in Nat
  BY ManagerCounted, ManagedIs, ManagedNow, Zenon
<1>1. ASSUME NEW t \in Threads,
             \/ \E target \in Servers \cup {None} : Begin(t, target)
             \/ \E ep \in Servers : BeginToEP(t, ep)
             \/ Work(t) \/ Timeout(t)
      PROVE  PoolSizeExact'
  <2>1. PICK s : Effect(t, s)
    BY <1>1, ThreadEffect, Zenon
  <2>2. /\ InHand' = InHand - Has(thr[t]) + Has(s) /\ InHand \in Nat
        /\ closed_' = closed_ /\ mgr' = mgr
    BY <2>1, HoldersStep, Zenon DEF Effect
  <2>3. Has(thr[t]) \in Nat /\ Has(s) \in Nat
    BY Zenon DEF Has
  <2>4. Managed' = Managed
    BY <2>2, Zenon DEF Managed
  <2>5. SUFFICES ASSUME slips' = 0, ~closed_'
                 PROVE  m_poolSize' = Len(queue_') + InHand' + Managed'
    BY Zenon DEF PoolSizeExact
  <2>6. /\ slips = 0 /\ ~closed_
        /\ m_poolSize' - Len(queue_') - Has(s)
             = m_poolSize - Len(queue_) - Has(thr[t])
    BY <2>1, <2>2, <2>5 DEF Effect, Balanced
  <2>7. m_poolSize = Len(queue_) + InHand + Managed
    BY <2>6, Zenon DEF PoolSizeExact
  <2>8. ASSUME NEW m \in Int, NEW n \in Int, NEW q \in Nat, NEW r \in Nat,
               NEW a \in Nat, NEW b \in Nat, NEW h \in Nat, NEW g \in Nat,
               n - r - b = m - q - a, m = q + h + g
        PROVE  n = r + (h - a + b) + g
    BY <2>8
  <2>9. m_poolSize' = Len(queue_') + (InHand - Has(thr[t]) + Has(s)) + Managed
    <3>1. PICK n \in Int : n = m_poolSize'
      BY <1>c, Zenon
    <3>2. PICK r \in Nat : r = Len(queue_')
      BY <1>c, Zenon
    <3>3. PICK a \in Nat : a = Has(thr[t])
      BY <2>3, Zenon
    <3>4. PICK b \in Nat : b = Has(s)
      BY <2>3, Zenon
    <3>5. PICK h \in Nat : h = InHand
      BY <2>2, Zenon
    <3>6. PICK g \in Nat : g = Managed
      BY <1>c, Zenon
    <3>7. n - r - b = m_poolSize - Len(queue_) - a
      BY <2>6, <3>1, <3>2, <3>3, <3>4
    <3>8. m_poolSize = Len(queue_) + h + g
      BY <2>7, <3>5, <3>6, Zenon
    <3>9. n = r + (h - a + b) + g
      BY <2>8, <3>7, <3>8, <1>c
    <3> QED
      BY <3>1, <3>2, <3>3, <3>4, <3>5, <3>6, <3>9, Zenon
  <2> QED
    BY <2>2, <2>4, <2>9, Zenon
<1>2. CASE Manage \/ ManagerStep
  <2>1. ManagerEffect
    BY <1>2, ManagerStepEffect, Zenon
  <2>2. InHand' = InHand /\ InHand \in Nat
    <3>1. IsFiniteSet(Holders) /\ InHand = Cardinality(Holders)
      BY PoolAssumption, FS_Subset, Zenon DEF Holders, InHand
    <3>2. InHand \in Nat
      BY <3>1, FS_CardinalityType, Zenon
    <3>3. InHand' = InHand
      BY <2>1, Zenon DEF ManagerEffect, InHand
    <3> QED
      BY <3>2, <3>3, Zenon
  <2>3. SUFFICES ASSUME slips' = 0, ~closed_'
                 PROVE  m_poolSize' = Len(queue_') + InHand' + Managed'
    BY Zenon DEF PoolSizeExact
  <2>4. /\ slips = 0 /\ ~closed_
        /\ m_poolSize' - Len(queue_') - Managed'
             = m_poolSize - Len(queue_) - Managed
    BY <2>1, <2>3, Zenon DEF ManagerEffect, ManagerBalanced
  <2>5. m_poolSize = Len(queue_) + InHand + Managed
    BY <2>4, Zenon DEF PoolSizeExact
  <2>6. ASSUME NEW m \in Int, NEW n \in Int, NEW q \in Nat, NEW r \in Nat,
               NEW h \in Nat, NEW g \in Nat, NEW f \in Nat,
               n - r - f = m - q - g, m = q + h + g
        PROVE  n = r + h + f
    BY <2>6
  <2>7. m_poolSize' = Len(queue_') + InHand + Managed'
    <3>1. PICK n \in Int : n = m_poolSize'
      BY <1>c, Zenon
    <3>2. PICK r \in Nat : r = Len(queue_')
      BY <1>c, Zenon
    <3>3. PICK f \in Nat : f = Managed'
      BY <1>c, Zenon
    <3>4. n - r - f = m_poolSize - Len(queue_) - Managed
      BY <2>4, <3>1, <3>2, <3>3, Zenon
    <3>5. n = r + InHand + f
      BY <2>2, <2>5, <2>6, <3>4, <1>c
    <3> QED
      BY <3>1, <3>2, <3>3, <3>5, Zenon
  <2> QED
    BY <2>2, <2>7, Zenon
<1>3. CASE Stop \/ UNCHANGED vars
  BY <1>3, Zenon DEF Stop, vars, PoolSizeExact, InHand, Managed
<1>4. CASE close
  BY <1>4, Zenon DEF close, PoolSizeExact
<1> QED
  BY <1>1, <1>2, <1>3, <1>4, Zenon DEF Next

(* m_poolSize is the number of connections of the pool, idle and in use,   *)
(* until destroy closes the queue, unless a server refuses the credentials *)
(* or a connection made for one request is put into the pool (slips).      *)
THEOREM PoolSizeIsExact == Spec => []PoolSizeExact
<1>1. Init => ListDone /\ PoolSizeExact
  <2> SUFFICES ASSUME Init PROVE ListDone /\ PoolSizeExact
    BY Zenon
  <2>1. ListDone
    BY Zenon DEF Init, ListDone, IdleManager
  <2>2. Holders = {}
    BY IdleOK, Zenon DEF Init, Holders
  <2>3. InHand = 0
    BY <2>2, FS_EmptySet, Zenon DEF InHand, Holders
  <2>4. mgr.conn = None /\ mgr.other = None /\ Len(mgr.list) = 0
    BY Zenon DEF Init, IdleManager
  <2>5. Managed = 0
    BY <2>4 DEF Managed
  <2>6. Len(queue_) = 0 /\ m_poolSize = 0
    BY Zenon DEF Init
  <2>7. PoolSizeExact
    BY <2>3, <2>5, <2>6 DEF PoolSizeExact
  <2> QED
    BY <2>1, <2>7, Zenon
<1>2. TypeOK /\ TypeOK' /\ (ListDone /\ PoolSizeExact) /\ [Next]_vars
        => (ListDone /\ PoolSizeExact)'
  BY ExactStep, ListDoneNext, Zenon
<1> QED
  BY <1>1, <1>2, TypeCorrect, PTL DEF Spec

-----------------------------------------------------------------------------
(* The threads that wait.                                                  *)

LEMMA EmptyQueue ==
  ASSUME NEW q \in Seq(Servers)
  PROVE  Len(q) \in Nat /\ (q = <<>> <=> Len(q) = 0)
  OBVIOUS

LEMMA NotifiedType ==
  ASSUME TypeOK
  PROVE  IsFiniteSet(notified) /\ Cardinality(notified) \in Nat
<1>1. IsFiniteSet(notified)
  BY PoolAssumption, FS_Subset, Zenon DEF TypeOK
<1> QED
  BY <1>1, FS_CardinalityType, Zenon

(* A step that puts no thread to sleep and wakes one only for a put.       *)
LEMMA WakeQuiet ==
  ASSUME TypeOK, TypeOK', NoLostWakeup, ClosedIsEmpty, closed_' = closed_,
         Asleep' = Asleep,
         \/ Len(queue_') <= Len(queue_) /\ notified' = notified
         \/ \E c \in Servers : put(c)
  PROVE  NoLostWakeup' /\ ClosedIsEmpty'
<1>c. /\ Len(queue_) \in Nat /\ Len(queue_') \in Nat
      /\ queue_ = <<>> <=> Len(queue_) = 0
      /\ queue_' = <<>> <=> Len(queue_') = 0
  BY EmptyQueue, Zenon DEF TypeOK
<1>f. IsFiniteSet(notified) /\ Cardinality(notified) \in Nat
  BY NotifiedType, Zenon
<1>s. Sleepers = Asleep \ notified /\ Sleepers' = Asleep \ notified'
  BY Zenon DEF Sleepers, Asleep
<1>1. CASE Len(queue_') <= Len(queue_) /\ notified' = notified
  <2>1. NoLostWakeup'
    <3> SUFFICES ASSUME Sleepers' # {}
                 PROVE  ~closed_' /\ Len(queue_') <= Cardinality(notified')
      BY Zenon DEF NoLostWakeup
    <3>1. ~closed_ /\ Len(queue_) <= Cardinality(notified)
      BY <1>1, <1>s, Zenon DEF NoLostWakeup
    <3> QED
      BY <3>1, <1>1, <1>c, <1>f
  <2>2. ClosedIsEmpty'
    BY <1>1, <1>c DEF ClosedIsEmpty
  <2> QED
    BY <2>1, <2>2, Zenon
<1>2. CASE \E c \in Servers : put(c)
  <2> PICK c \in Servers : put(c)
    BY <1>2, Zenon
  <2>0. Len(queue_') = IF closed_ THEN Len(queue_) ELSE Len(queue_) + 1
    BY PutOK, Zenon
  <2>1. NoLostWakeup'
    <3> SUFFICES ASSUME Sleepers' # {}
                 PROVE  ~closed_' /\ Len(queue_') <= Cardinality(notified')
      BY Zenon DEF NoLostWakeup
    <3>1. notified' = notified \/ \E w \in Sleepers : notified' = notified \cup {w}
      BY Zenon DEF put, NotifyOne
    <3>2. Sleepers # {}
      BY <3>1, <1>s, Zenon
    <3>3. PICK w \in Sleepers : notified' = notified \cup {w}
      BY <3>2, Zenon DEF put, NotifyOne
    <3>4. ~closed_ /\ Len(queue_) <= Cardinality(notified)
      BY <3>2, Zenon DEF NoLostWakeup
    <3>5. Cardinality(notified') = Cardinality(notified) + 1
      BY <3>3, <1>s, <1>f, FS_AddElement, Zenon
    <3> QED
      BY <3>4, <3>5, <2>0, <1>c, <1>f
  <2>2. ClosedIsEmpty'
    BY <2>0, <1>c, Zenon DEF ClosedIsEmpty
  <2> QED
    BY <2>1, <2>2, Zenon
<1> QED
  BY <1>1, <1>2, Zenon

(* A thread that stops waiting, with a connection or without one.          *)
LEMMA WakeUpWakes ==
  ASSUME TypeOK, TypeOK', NoLostWakeup, ClosedIsEmpty, closed_' = closed_,
         NEW t \in Threads, thr[t].pc \in {"wait", "asleep"}, WakeUp(t)
  PROVE  NoLostWakeup' /\ ClosedIsEmpty'
<1>c. /\ Len(queue_) \in Nat /\ queue_ \in Seq(Servers)
      /\ queue_ = <<>> <=> Len(queue_) = 0
  BY EmptyQueue, Zenon DEF TypeOK
<1>f. IsFiniteSet(notified) /\ Cardinality(notified) \in Nat
  BY NotifiedType, Zenon
<1>0. notified' = notified \ {t} /\ notified \subseteq Asleep
  BY AwakeOK, Zenon DEF WakeUp
<1>1. PICK s : Becomes(t, s) /\ s.pc # "asleep"
  <2>1. At(t, "noConn").pc = "noConn"
        /\ \A ep : With(thr[t], ep).pc = "send"
    BY Fields DEF At, TypeOK
  <2> QED
    BY <2>1, Zenon DEF WakeUp
<1>2. Asleep' = Asleep \ {t}
  BY <1>1, ThreadStep DEF Asleep
<1>3. Sleepers' \subseteq Sleepers
  BY <1>0, <1>2, Zenon DEF Sleepers, Asleep
<1>4. CASE closed_
  <2>1. Sleepers = {} /\ queue_ = <<>> /\ queue_' = queue_
    BY <1>4, Zenon DEF NoLostWakeup, ClosedIsEmpty, WakeUp
  <2>2. Sleepers' = {}
    BY <2>1, <1>3, Zenon
  <2> QED
    BY <2>1, <2>2, Zenon DEF NoLostWakeup, ClosedIsEmpty
<1>5. CASE ~closed_
  <2>1. ClosedIsEmpty'
    BY <1>5, Zenon DEF ClosedIsEmpty
  <2>2. ASSUME Sleepers' # {} PROVE Len(queue_') <= Cardinality(notified')
    <3>1. Len(queue_) <= Cardinality(notified)
      BY <2>2, <1>3, Zenon DEF NoLostWakeup
    <3>2. CASE queue_ = <<>>
      <4>1. queue_' = <<>> /\ Len(queue_') = 0
        BY <3>2 DEF WakeUp
      <4>2. IsFiniteSet(notified') /\ Cardinality(notified') \in Nat
        BY <1>0, <1>f, FS_Subset, FS_CardinalityType
      <4> QED
        BY <4>1, <4>2
    <3>3. CASE queue_ # <<>>
      <4>1. queue_' = Front(queue_)
        BY <3>3, <1>5, Zenon DEF WakeUp
      <4>2. Len(queue_') = Len(queue_) - 1
        BY <4>1, <3>3, <1>c, FrontOK
      <4>3. Cardinality(notified') >= Cardinality(notified) - 1
        BY <1>0, <1>f, FS_RemoveElement
      <4>4. Cardinality(notified') \in Nat
        BY <1>0, <1>f, FS_Subset, FS_CardinalityType, Zenon
      <4> QED
        BY <4>2, <4>3, <4>4, <3>1, <1>c, <1>f
    <3> QED
      BY <3>2, <3>3, Zenon
  <2> QED
    BY <2>1, <2>2, <1>5, Zenon DEF NoLostWakeup
<1> QED
  BY <1>4, <1>5, Zenon

LEMMA WakeStep ==
  ASSUME TypeOK, TypeOK', ListDone, NoLostWakeup, ClosedIsEmpty, [Next]_vars
  PROVE  NoLostWakeup' /\ ClosedIsEmpty'
<1>0. ASSUME NEW t \in Threads, Wait(t) \/ Wake(t) \/ Timeout(t)
      PROVE  NoLostWakeup' /\ ClosedIsEmpty'
  <2>0. thr[t].pc \in {"wait", "asleep"} /\ closed_' = closed_
    BY <1>0, Zenon DEF Wait, Wake, Timeout
  <2>1. CASE WakeUp(t)
    BY <2>0, <2>1, WakeUpWakes, Zenon
  <2>2. CASE queue_' = queue_ /\ queue_ = <<>> /\ ~closed_
    <3>1. IsFiniteSet(notified') /\ Cardinality(notified') \in Nat
      <4>1. IsFiniteSet(notified')
        BY PoolAssumption, FS_Subset, Zenon DEF TypeOK
      <4> QED
        BY <4>1, FS_CardinalityType, Zenon
    <3>2. Len(queue_') = 0
      BY <2>2, Zenon
    <3> QED
      BY <3>1, <3>2, <2>0, <2>2 DEF NoLostWakeup, ClosedIsEmpty
  <2> QED
    BY <1>0, <2>1, <2>2, Zenon DEF Wait, Wake, Timeout
<1>1. ASSUME NEW t \in Threads,
             \/ \E target \in Servers \cup {None} : Begin(t, target)
             \/ \E ep \in Servers : BeginToEP(t, ep)
             \/ Work(t) \/ Timeout(t)
      PROVE  NoLostWakeup' /\ ClosedIsEmpty'
  <2>1. PICK s : /\ Effect(t, s)
                 /\ (Quiet(t, s) \/ Wait(t) \/ Wake(t) \/ Timeout(t))
    BY <1>1, ThreadEffect, Zenon
  <2>2. CASE Quiet(t, s)
    <3>1. Asleep' = Asleep
      BY <2>1, <2>2, ThreadStep DEF Effect, Quiet, Asleep
    <3> QED
      BY <3>1, <2>1, <2>2, WakeQuiet, Zenon DEF Effect, Quiet
  <2> QED
    BY <2>1, <2>2, <1>0, Zenon
<1>2. CASE Manage \/ ManagerStep
  <2>1. ManagerEffect
    BY <1>2, ManagerStepEffect, Zenon
  <2>2. Asleep' = Asleep /\ closed_' = closed_
    BY <2>1, Zenon DEF ManagerEffect, Asleep
  <2> QED
    BY <2>1, <2>2, WakeQuiet, Zenon DEF ManagerEffect, ManagerQuiet
<1>3. CASE Stop \/ UNCHANGED vars
  BY <1>3 DEF Stop, vars, NoLostWakeup, ClosedIsEmpty, Sleepers
<1>4. CASE close
  <2>1. Sleepers' = {} /\ queue_' = <<>>
    BY <1>4, Zenon DEF close, Sleepers
  <2> QED
    BY <2>1, Zenon DEF NoLostWakeup, ClosedIsEmpty
<1> QED
  BY <1>1, <1>2, <1>3, <1>4, Zenon DEF Next

LEMMA WakeInvariant == Spec => [](NoLostWakeup /\ ClosedIsEmpty)
<1>1. Init => ListDone /\ NoLostWakeup /\ ClosedIsEmpty
  <2> SUFFICES ASSUME Init PROVE ListDone /\ NoLostWakeup /\ ClosedIsEmpty
    BY Zenon
  <2>1. ListDone
    BY Zenon DEF Init, ListDone, IdleManager
  <2>2. Sleepers = {} /\ queue_ = <<>>
    BY IdleOK, Zenon DEF Init, Sleepers
  <2> QED
    BY <2>1, <2>2, Zenon DEF NoLostWakeup, ClosedIsEmpty
<1>2. TypeOK /\ TypeOK' /\ (ListDone /\ NoLostWakeup /\ ClosedIsEmpty)
        /\ [Next]_vars => (ListDone /\ NoLostWakeup /\ ClosedIsEmpty)'
  BY WakeStep, ListDoneNext, Zenon
<1> QED
  BY <1>1, <1>2, TypeCorrect, PTL DEF Spec

(* A thread in getLockedFor is never left asleep while a connection        *)
(* is in the queue that no woken thread is about to take, nor after close. *)
THEOREM NoWakeupIsLost == Spec => []NoLostWakeup
  BY WakeInvariant, PTL

(* ConnectionQueue::close empties the queue and it stays empty: what is    *)
(* put afterwards is deleted.                                              *)
THEOREM ClosedStaysEmpty == Spec => []ClosedIsEmpty
  BY WakeInvariant, PTL

=============================================================================
